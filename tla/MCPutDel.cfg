CONSTANTS
  Keys = {0, 1, 2}
  PutValues = {v1, v2}
  DelKeys = {0, 1, 2}
  GcChunks = {}
  GcSlack = 0
  LimitCap = 1
  MemtableThreshold = 1
  IntSpan = 16
  WordSpan = 64
  TimeBound = 6
  LogBound = 6
  Empty = Empty
  Tombstone = Tombstone
  Garbage = Garbage
SPECIFICATION Spec
INVARIANTS VisibleBacked LevelsDisjoint AgesDescend WithinLimits
PROPERTIES MapRefined
SYMMETRY Symmetry
