\* The five disciplines; the bounds on packets and time end the calls.
SPECIFICATION AllSpec
CONSTANTS
  Configs <- Disciplines
  Sizes = {1, 2, 3}
  MaxPackets = 5
  qdelay_ref = 2
  max_burst = 3
  t_update = 2
  dq_threshold = 2
  PACKET_SIZE = 1
  PieSizes = {1, 2}
  MaxTime = 8
  FrameSize = 1
  Headers <- AnyHeaders
CHECK_DEADLOCK FALSE
INVARIANTS QueueSound DropsNeedRate AsWithTimer DiesOnlyOverfilled FrameNotTorn
PROPERTY KeepsContract
