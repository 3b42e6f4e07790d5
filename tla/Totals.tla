------------------------------- MODULE Totals --------------------------------
(* Sums over sequences of integers.                                         *)
EXTENDS Integers, Sequences

\* The sums of the first 0, 1, ... elements of w.
UpTo(w) ==
  LET sum[n \in 0..Len(w)] == IF n = 0 THEN 0 ELSE sum[n - 1] + w[n]
  IN sum

Total(w) == UpTo(w)[Len(w)]
==============================================================================
