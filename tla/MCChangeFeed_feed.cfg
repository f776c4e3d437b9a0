SPECIFICATION FairSpec
CONSTANTS
  d1 = d1
  d2 = d2
  o1 = o1
  o2 = o2
  all = all
  some = some
  Docs = {d1, d2}
  Values = {"on", "off"}
  Queries = {some}
  Matching <- MCMatching
  Observers = {o1, o2}
  QueryOf <- MCQueryOf
  MaxWrites = 2
  Initial <- MCInitial
  Writes <- MCWrites
  MaxFaults = 1
PROPERTIES Converges
INVARIANTS TypeOK ObserversFollow
CHECK_DEADLOCK FALSE
