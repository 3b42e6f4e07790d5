\* Two packets; the clock stops long enough after the last arrival for every
\* packet to be written, and there the run ends.
SPECIFICATION Spec
CONSTANTS
  Kinds = {"delay", "loss", "onoff", "meter"}
  BinWidth = 2
  Delay = 2
  OnTimes = {1, 2}
  OffTimes = {0, 1, 3}
  MaxWait = 2
  MaxLag = 1
  MaxPackets = 2
  MaxTime = 7
  LastArrival = 3
CHECK_DEADLOCK FALSE
INVARIANTS OnTime SwitchedOnTime MeteredOnce
PROPERTY SignalEnds
