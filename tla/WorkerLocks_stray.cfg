SPECIFICATION LocksSpec
CONSTANTS
  Threads = {t1, t2}
  Rundowns = {r1, r2}
  Playlists = {}
  MaxLocks = 3
  MortalThreads = {}
  HastyThreads = {t1}
  Shutdowns = {}
  StrayThreads = {t1}
  DeafThreads = {}
INVARIANTS MutualExclusion
CHECK_DEADLOCK FALSE
