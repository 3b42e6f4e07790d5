--------------------------- MODULE MC_OctopusQueue ---------------------------
(* The instances of OctopusQueue that TLC checks.                          *)
EXTENDS OctopusQueue

Plain == [octopus |-> TRUE, msg_no |-> 1, fragments |-> 1, size |-> 1,
          priority |-> 1, threshold |-> 0, preempt |-> FALSE,
          slack_time |-> 0, bitrate |-> 1]

\* A flow of three frames, the later ones preempting, only the second of them
\* with a threshold that reaches the first, and a flow of one packet of other
\* traffic and a frame of one packet that has some slack.
TwoFlows ==
  <<  << [Plain EXCEPT !.fragments = 3],
         [Plain EXCEPT !.msg_no = 2, !.fragments = 2, !.preempt = TRUE,
                       !.threshold = 1],
         [Plain EXCEPT !.msg_no = 3, !.preempt = TRUE, !.threshold = 2] >>,
      << [Plain EXCEPT !.octopus = FALSE, !.size = 2],
         [Plain EXCEPT !.msg_no = 2, !.slack_time = 1] >>  >>
==============================================================================
