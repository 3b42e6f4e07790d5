\* two ferries and an ordinary child; the parent stops when it has exited.
SPECIFICATION FairSpec
CONSTANTS
  N = 3
  ContinueStatus <- Mixed
  ExitStatuses = {0, 77}
  MaxStops = 2
CHECK_DEADLOCK FALSE
INVARIANTS MissedOnlyBehindFerry ResumedTogether RemembersTheTruth NoOrphans
PROPERTIES ChildExitEndsShell DestructionEnds
