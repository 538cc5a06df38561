CONSTANTS
  Keys = {0, 1, 2}
  PutValues = {v1}
  DelKeys = {0}
  GcChunks = {1, 2, 3}
  GcSlack = 1
  LimitCap = 1
  MemtableThreshold = 1
  IntSpan = 16
  WordSpan = 64
  TimeBound = 4
  LogBound = 4
  Empty = Empty
  Tombstone = Tombstone
  Garbage = Garbage
SPECIFICATION FairSpec
INVARIANTS TypeOK
PROPERTIES EveryCallReturns
