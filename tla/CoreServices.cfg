SPECIFICATION Spec
CONSTANTS
  Checks = {c1, c2, c3}
  MaxRestarts = 4
  MaxStartFailures = 1
  Subscribers = {s1, s2}
  MaxWrappers = 2
  MaxChanges = 1
  MaxFailures = 1
  Subs = {s1, s2}
  Calls = {m1}
  Docs = {d1}
  Values = {"on", "off"}
  MaxUnsubs = 1
  AutoSubs = {s1}
  MaxSockets = 3
  MaxBreaks = 1
  MaxCommandFaults = 3
INVARIANTS GroupServed SharesWorker ClientSeesMerge MessagesInTurn RunOnce
PROPERTIES
  AllSeeLatest PrecedenceKept EverythingAnswered
  SubscriptionsRenewed CallSettles
CHECK_DEADLOCK FALSE
