SPECIFICATION FairSpec
CONSTANTS
  Names = {n1, n2}
  MaxJobs = 2
  MaxTime = 2
  MaxInterrupts = 1
  MaxRestarts = 1
  DebounceTime = 1
  EarlyBy = 0
PROPERTIES EveryPromiseSettles
CHECK_DEADLOCK FALSE
