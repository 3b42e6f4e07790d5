\* CoDel with a target and an interval of 1 ms; the bounds end the run.
SPECIFICATION Spec
CONSTANTS
  target = 1
  interval = 1
  PACKET_SIZE = 2
  packet_limit = 5
  byte_limit = 0
  Sizes = {2}
  MaxPackets = 10
  MaxTime = 5
  WORD = 256
CHECK_DEADLOCK FALSE
INVARIANTS DropsLeaveOne DropsAfterInterval CountsOrdered
PROPERTY KeepsContract
