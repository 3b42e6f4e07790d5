---------------------------- MODULE MC_EventLoop ----------------------------
(* The instances of EventLoop that TLC checks.                             *)
EXTENDS EventLoop

\* The two ferries of a packet shell (add_special_child_process).
Ferries == [c \in 1..N |-> 77]
\* Two ferries and an ordinary child.
Mixed == [c \in 1..N |-> IF c <= 2 THEN 77 ELSE -1]
=============================================================================
