SPECIFICATION SideBySide
CONSTANTS
  x = x
  y = y
  Row = {x, y}
  Batches <- MixedBatches
  MaxIterations = 2
  MaxCorrections = 1
  MaxToolCalls = 3
  MaxRuns = 3
  MaxEdits = 1
  Window = 2
  None = None
  g1 = g1
  g2 = g2
  k1 = k1
  k2 = k2
  Gatherer = {g1, g2}
  Key = {k1, k2}
  Make <- Makes
  MinCorpus = 2
  MaxEvents = 2
  Down = Down
INVARIANTS
  EveryCallAnsweredOnce
  RecordIsTrue
  OneModelCompared
PROPERTIES
  QuestionIsOpen
  RunEnds
  CacheCatchesUp
CHECK_DEADLOCK FALSE
