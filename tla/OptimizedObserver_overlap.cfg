SPECIFICATION FairSpec
CONSTANTS
  Subscribers = {s1, s2}
  MaxWrappers = 2
  MaxChanges = 2
  MaxFailures = 0
PROPERTIES EachReceivesResult
CHECK_DEADLOCK FALSE
