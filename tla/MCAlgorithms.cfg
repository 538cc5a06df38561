CONSTANTS
  Programs = {"select", "hnsw", "huffman", "radix", "compressed", "once"}
  Arrays <- SmallArrays
  dividedSize = 2
  Labels = {0, 1, 2, 3}
  dimension = 2
  Vec <- Points
  Queries <- SomeQueries
  K = 1
  M = 1
  M_max = 2
  ef_construction = 2
  LevelCap = 1
  Nobody = Nobody
  Texts <- SmallTexts
  Depth = 4
  Values <- SomeValues
  AnyRemoval = FALSE
  ByteSpan = 256
  NodeBound = 7
  Threads = {t1, t2, t3, t4}
  NoThread = NoThread
SPECIFICATION Spec
INVARIANTS
  AnswerRight
  LayersFit LinksGivenUpWhenFull SearchIsLocalOptimum
  Optimal TextRoundTrip TableRoundTrip
  RadixIsTight 
  AssertionsHold DoneAfterInit
PROPERTIES SelectionEnds EveryCallEnds RadixIsSet  StaysCompressed EveryThreadReturns
CHECK_DEADLOCK FALSE
