---------------------------- MODULE MC_LinkQueue ----------------------------
(* The instances of LinkQueue that TLC checks.                             *)
EXTENDS LinkQueue

\* A trace that starts at 0, so that its first opportunity is due at once
\* and comes together with the last one of the round before, and that has
\* two opportunities in the same millisecond.
TwinTrace == <<0, 2, 2>>
\* A trace whose opportunities all come at different times.
PlainTrace == <<1, 3>>
=============================================================================
