--------------------------- MODULE BinnedLiveGraph ---------------------------
(***************************************************************************)
(* A live graph of a ferry (src/src/graphing/binned_livegraph.cc): values  *)
(* are added by the ferry to the bin of the present time, and finished     *)
(* bins become data points; a thread of the graph advances the bins too,   *)
(* and draws.                                                              *)
(*                                                                         *)
(* A critical section of mutex_ is one action.  A value is modelled as the *)
(* set of the packets it is the sum of.                                    *)
(***************************************************************************)
EXTENDS Integers, SequencesExt

CONSTANT BinWidth    \* bin_width_ms_

ASSUME GraphAssumption == BinWidth \in Nat \ {0}

VARIABLES
  now,               \* timestamp()
  value_this_bin, current_bin,
  data_points,       \* the values of the bins before current_bin
  initialize_new_bin,   \* has the member been constructed?
  halt,
  animation_thread,  \* none, check, advance, draw or done
  undefined          \* a member was used before it was constructed

graphVars == <<value_this_bin, current_bin, data_points, initialize_new_bin,
               halt, animation_thread, undefined>>

Bin(time) == time \div BinWidth

GraphInit ==
  /\ value_this_bin = {} /\ current_bin = 0 /\ data_points = <<>>
  /\ initialize_new_bin = FALSE /\ halt = FALSE
  /\ animation_thread = "none" /\ undefined = FALSE

\* The members are made in the order of their declaration: the thread starts
\* when the function that will empty the bins does not exist yet.
StartThread ==
  /\ current_bin' = Bin(now)
  /\ data_points' = [b \in 1..Bin(now) |-> {}]
  /\ animation_thread' = "check"
  /\ UNCHANGED <<value_this_bin, initialize_new_bin, halt, undefined>>

FinishConstruction ==
  /\ initialize_new_bin' = TRUE
  /\ UNCHANGED <<value_this_bin, current_bin, data_points, halt,
                 animation_thread, undefined>>

\* What is left of the value when that many bins are finished.
ValueAfter(bins) == IF bins > 0 THEN {} ELSE value_this_bin

advance ==
  LET bins == Bin(now) - current_bin
  IN /\ current_bin' = Bin(now)
     /\ data_points' = data_points \o
          [b \in 1..bins |-> IF b = 1 THEN value_this_bin ELSE {}]
     /\ value_this_bin' = ValueAfter(bins)
     /\ undefined' = (undefined \/ (bins > 0 /\ ~initialize_new_bin))

\* The second critical section of add_value_now.
add_value(p) ==
  /\ value_this_bin' = value_this_bin \cup {p}
  /\ UNCHANGED <<current_bin, data_points, initialize_new_bin, halt,
                 animation_thread, undefined>>

\* One step of animation_loop.
animation_loop ==
  \/ /\ animation_thread = "check"
     /\ animation_thread' = IF halt THEN "done" ELSE "advance"
     /\ UNCHANGED <<value_this_bin, current_bin, data_points, undefined>>
  \/ /\ animation_thread = "advance"
     /\ advance
     /\ animation_thread' = "draw"
  \/ /\ animation_thread = "draw"
     /\ animation_thread' = "check"
     /\ UNCHANGED <<value_this_bin, current_bin, data_points, undefined>>

\* mutant: the destructor does not ask the thread to stop
NotHalted == UNCHANGED graphVars
\* The destructor, which then joins the thread.
HaltThread ==
  /\ halt' = TRUE
  /\ UNCHANGED <<value_this_bin, current_bin, data_points, initialize_new_bin,
                 animation_thread, undefined>>
==============================================================================
