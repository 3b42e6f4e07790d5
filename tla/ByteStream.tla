------------------------------ MODULE ByteStream ------------------------------
(***************************************************************************)
(* What two peers may expect of a connection through a proxy: each hears   *)
(* what the other has said, in order, nothing twice, nothing made up.      *)
(***************************************************************************)
EXTENDS SequencesExt

CONSTANTS Peers, Other(_)

VARIABLES said, got

Quiet == [p \in Peers |-> <<>>]

Init == said = Quiet /\ got = Quiet

Say(p) ==
  /\ \A q \in Peers : IsPrefix(said[q], said'[q]) /\ (q # p => said'[q] = said[q])
  /\ UNCHANGED got

Hear(p) ==
  /\ \A q \in Peers : IsPrefix(got[q], got'[q]) /\ (q # p => got'[q] = got[q])
  /\ IsPrefix(got'[p], said[Other(p)])
  /\ UNCHANGED said

Next == \E p \in Peers : Say(p) \/ Hear(p)

Spec == Init /\ [][Next]_<<said, got>>
=============================================================================
