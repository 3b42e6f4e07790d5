\* a frame of one packet sent again while it is queued.
SPECIFICATION Spec
CONSTANTS
  Flows <- TwoFlows
  FairShares = {0, 1}
  packet_limit = 4
  byte_limit = 0
  Resendable = {"SOLO"}
  Resends = 1
  MaxTime = 1
CHECK_DEADLOCK FALSE
INVARIANT NoAssertFails
