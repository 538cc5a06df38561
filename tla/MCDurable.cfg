CONSTANTS
  Keys = {0, 1}
  PutValues = {v1}
  DelKeys = {0, 1}
  GcChunks = {1}
  GcSlack = 1
  LimitCap = 1
  MemtableThreshold = 1
  IntSpan = 16
  WordSpan = 64
  TimeBound = 6
  LogBound = 6
  RestartBound = 1
  FailBound = 1
  Empty = Empty
  Tombstone = Tombstone
  Garbage = Garbage
SPECIFICATION FailingSpec
INVARIANTS DiskFollowsLevels RestartsReadOwnValues
PROPERTIES DiskCatchesUp FailuresKeepAnswers
CHECK_DEADLOCK FALSE
