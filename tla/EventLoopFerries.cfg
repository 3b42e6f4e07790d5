\* two ferries that leave with status 77.
SPECIFICATION Spec
CONSTANTS
  N = 2
  ContinueStatus <- Ferries
  ExitStatuses = {77}
  MaxStops = 1
CHECK_DEADLOCK FALSE
INVARIANT NoMissedEvent
