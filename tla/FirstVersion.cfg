SPECIFICATION FirstSpec
CONSTANTS
  w1 = w1
  w2 = w2
  main = main
  Workers = {w1, w2}
  Main = main
  Sessions = {w1, w2, main}
  PreRows = {0, 1}
  BufferRows = 1
  MaxFaults = 1
  SeedRows = 1
  SeedBatch = 1
  BatchSize = 1
  ReadPercent = 0
  InsertPercent = 50
  Rolls = {49, 50}
  MaxOps = 2
  CheckBatch = 2
  RangeThreshold = 2
SYMMETRY WorkerSymmetry
CHECK_DEADLOCK FALSE
INVARIANTS
  UpdatesMeetRows
  AttemptsCounted
PROPERTY
  ImplementsLedger
