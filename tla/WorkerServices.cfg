SPECIFICATION Spec
CONSTANTS
  Names = {n1, n2}
  MaxQueuedJobs = 2
  MaxTime = 1
  MaxInterrupts = 1
  MaxRestarts = 1
  DebounceTime = 1
  EarlyBy = 0
  Parts = {"studio"}
  MaxJobs = 2
  MaxChanges = 2
  MaxFaults = 2
  Messages = {x1, x2}
  Limit = 1
  MaxSends = 3
  MaxFailures = 1
  MaxEdits = 1
INVARIANTS ThreadHasItsData PostedOnce
PROPERTIES
  EveryJobDispatched
  JobsAreTaken
  EveryMessageTried
CHECK_DEADLOCK FALSE
