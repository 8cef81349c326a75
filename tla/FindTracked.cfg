SPECIFICATION Spec
CONSTANTS
  w1 = w1
  w2 = w2
  main = main
  Workers = {w1, w2}
  Main = main
  Sessions = {w1, w2, main}
  PreRows = {1}
  BufferRows = 2
  MaxFaults = 1
  SeedRows = 2
  SeedBatch = 1
  BatchSize = 3
  ReadPercent = 20
  InsertPercent = 60
  Rolls = {19, 20, 80}
  MaxOps = 2
SYMMETRY WorkerSymmetry
CHECK_DEADLOCK FALSE
INVARIANT
  TrackedWereInserted
