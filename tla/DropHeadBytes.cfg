\* drop head with a byte limit: one arrival may displace several packets.
SPECIFICATION Spec
CONSTANTS
  Configs <- HeadByBytes
  Sizes = {1, 2, 3}
  MaxPackets = 4
CHECK_DEADLOCK FALSE
INVARIANT NoAssertFails
