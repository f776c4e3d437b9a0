SPECIFICATION Spec
CONSTANTS
  t1 = t1
  t2 = t2
  t3 = t3
  p1 = p1
  r1 = r1
  Threads = {t1, t2, t3}
  Rundowns = {r1}
  Playlists = {p1}
  MaxLocks = 4
  MortalThreads = {t3}
  HastyThreads = {t3}
  Shutdowns = {}
  StrayThreads = {}
  DeafThreads = {}
PROPERTIES ImplementsLockService EveryLockServed LeakedLockFreed
CHECK_DEADLOCK FALSE
