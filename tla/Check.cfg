SPECIFICATION CheckSpec
CONSTANTS
  w1 = w1
  w2 = w2
  main = main
  Workers = {w1}
  Main = main
  Sessions = {w1, main}
  PreRows = {0, 1}
  BufferRows = 1
  MaxFaults = 2
  SeedRows = 1
  SeedBatch = 1
  BatchSize = 2
  ReadPercent = 0
  InsertPercent = 100
  Rolls = {0}
  MaxOps = 2
  CheckBatch = 2
  RangeThreshold = 3
CHECK_DEADLOCK FALSE
INVARIANTS
  LossNeverOverReported
  BatchedLossNeverUnderReported
  FaultFreeReportIsClean
PROPERTY
  RangeLossExactAmongOwnRows
