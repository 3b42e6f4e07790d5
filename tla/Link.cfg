\* mm-link on a repeating trace and with --once; the clock bound ends the run.
SPECIFICATION FairSpec
CONSTANTS
  PACKET_SIZE = 3
  Sizes = {2, 3}
  Schedule <- TwinTrace
  MaxArrivals = 3
  MaxTime = 5
  MaxLag = 1
CHECK_DEADLOCK FALSE
INVARIANTS TypeOK IdealLink NoTimeTravel SendAsserts LogBalances
PROPERTIES OnceTerminates OpportunityIsUsed
