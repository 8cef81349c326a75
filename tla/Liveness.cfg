SPECIFICATION FairSpec
CONSTANTS
  w1 = w1
  w2 = w2
  main = main
  Workers = {w1, w2}
  Main = main
  Sessions = {w1, w2, main}
  PreRows = {0}
  BufferRows = 3
  MaxFaults = 1
  SeedRows = 1
  SeedBatch = 1
  BatchSize = 2
  ReadPercent = 20
  InsertPercent = 60
  Rolls = {19, 20}
  MaxOps = 2
CHECK_DEADLOCK FALSE
INVARIANT
  TrackedWereInserted
PROPERTY
  RunEnds
