SPECIFICATION RerunSpec
CONSTANTS
  w1 = w1
  main = main
  Workers = {w1}
  Main = main
  Sessions = {w1, main}
  PreRows = {0}
  BufferRows = 1
  MaxFaults = 1
  SeedRows = 3
  SeedBatch = 2
  BatchSize = 2
  ReadPercent = 0
  InsertPercent = 100
  Rolls = {0}
  MaxOps = 1
  CheckBatch = 3
  RangeThreshold = 3
  MaxRuns = 3
CHECK_DEADLOCK FALSE
INVARIANTS
  ReportIsOwn
  TotalRowsBacked
  SeedingNotRepeated
