CONSTANTS
  Ids = {a, b}
  Convs = {v1, v2}
  None = None
  MaxQueue = 1
SPECIFICATION FairSpec
INVARIANT OneConversion
PROPERTIES CancelKills WorkerReturns
CHECK_DEADLOCK FALSE
