CONSTANTS
  Keys = {0, 1, 2}
  PutValues = {v1, v2}
  DelKeys = {1}
  GcChunks = {1, 3}
  GcSlack = 0
  LimitCap = 1
  MemtableThreshold = 2
  IntSpan = 16
  WordSpan = 64
  TimeBound = 4
  LogBound = 6
  Empty = Empty
  Tombstone = Tombstone
  Garbage = Garbage
SPECIFICATION Spec
INVARIANTS VisibleBacked ScanAgreesWithGet
PROPERTIES OnlyFirstRecordReturns GcReclaims
SYMMETRY Symmetry
