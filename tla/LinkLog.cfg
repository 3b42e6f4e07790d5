\* The manual page's reading of the '#' lines of the log.
SPECIFICATION Spec
CONSTANTS
  PACKET_SIZE = 3
  Sizes = {2, 3}
  Schedule <- PlainTrace
  MaxArrivals = 2
  MaxTime = 4
  MaxLag = 1
CHECK_DEADLOCK FALSE
INVARIANT LoggedOpportunityIsUnused
