SPECIFICATION QueueAndLocksSpec
CONSTANTS
  n1 = n1
  n2 = n2
  t1 = t1
  t2 = t2
  r1 = r1
  r2 = r2
  Names = {n1, n2}
  MaxJobs = 3
  MaxTime = 1
  MaxInterrupts = 1
  MaxRestarts = 1
  DebounceTime = 1
  EarlyBy = 0
  Threads = {t1, t2}
  Rundowns = {r1, r2}
  Playlists = {}
  MaxLocks = 3
  MortalThreads = {t1}
  HastyThreads = {t1}
  Shutdowns = {t1}
  StrayThreads = {t1}
  DeafThreads = {t2}
SYMMETRY NamesAndRundowns
INVARIANTS
  TypeOK NoLostWakeup ExactlyOnce MergeKeepsOrder
  LocksTypeOK Exclusive ResourcesComeBack
PROPERTIES FirstComeFirstServed
CHECK_DEADLOCK FALSE
