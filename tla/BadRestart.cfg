CONSTANTS
  Keys = {0, 1}
  PutValues = {v1}
  DelKeys = {0, 1}
  GcChunks = {}
  GcSlack = 0
  LimitCap = 1
  MemtableThreshold = 1
  IntSpan = 16
  WordSpan = 64
  TimeBound = 5
  LogBound = 6
  RestartBound = 1
  FailBound = 0
  Empty = Empty
  Tombstone = Tombstone
  Garbage = Garbage
SPECIFICATION DurableSpec
PROPERTIES RestartKeepsFlushed
CHECK_DEADLOCK FALSE
