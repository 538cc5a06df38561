CONSTANTS
  Keys = {0, 1, 2}
  PutValues = {v1}
  DelKeys = {}
  GcChunks = {}
  GcSlack = 0
  LimitCap = 1
  MemtableThreshold = 1
  IntSpan = 16
  WordSpan = 64
  TimeBound = 9
  LogBound = 9
  RestartBound = 0
  FailBound = 0
  Empty = Empty
  Tombstone = Tombstone
  Garbage = Garbage
SPECIFICATION DurableSpec
PROPERTIES KillsKeepNewest
CHECK_DEADLOCK FALSE
