CONSTANTS
  Writers = {w1, w2}
  Capacity = 2
  QueueSize = 2
  MaxRecords = 5
  MaxSessions = 2
SPECIFICATION FairSpec
INVARIANTS NoSilentLoss GapIsExact
PROPERTY EveryRecordReported
CHECK_DEADLOCK FALSE
