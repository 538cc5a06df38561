CONSTANTS
  MapKeys = {0, 1, 2}
  Values = {v1, v2}
  MaxLevel = 3
  Empty = Empty
  Keys = {0, 1, 2, 3, 4, 5}
  Lists <- AscendingLists
  NumHashes = 2
  NumBits = 16
  Hash <- SmallHash
  MarkKey = 2
SPECIFICATION Spec
INVARIANTS Linked SearchOnTrack GetRight ScanRight
PROPERTIES MapImplemented EveryCallAnswered EveryAskAnswered FileKeepsTable
