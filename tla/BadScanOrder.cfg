CONSTANTS
  Keys = {0, 1}
  PutValues = {v1}
  DelKeys = {}
  GcChunks = {}
  GcSlack = 0
  LimitCap = 1
  MemtableThreshold = 2
  IntSpan = 16
  WordSpan = 64
  TimeBound = 4
  LogBound = 6
  Empty = Empty
  Tombstone = Tombstone
  Garbage = Garbage
SPECIFICATION Spec
INVARIANTS ListAscends
