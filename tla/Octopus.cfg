\* two flows; the senders and the clock come to an end.
SPECIFICATION Spec
CONSTANTS
  Flows <- TwoFlows
  FairShares = {0, 1}
  packet_limit = 4
  byte_limit = 4
  Resendable = {"FIRST", "LAST"}
  Resends = 1
  MaxTime = 1
CHECK_DEADLOCK FALSE
INVARIANTS CountersExact WholeFrames PreemptedForNewer
PROPERTY KeepsContract
