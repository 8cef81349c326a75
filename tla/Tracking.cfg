SPECIFICATION Spec
CONSTANTS
  w1 = w1
  w2 = w2
  main = main
  Workers = {w1, w2}
  Main = main
  Sessions = {w1, w2, main}
  PreRows = {0, 1}
  BufferRows = 1
  MaxFaults = 1
  SeedRows = 2
  SeedBatch = 1
  BatchSize = 2
  ReadPercent = 20
  InsertPercent = 60
  Rolls = {19, 20, 80}
  MaxOps = 2
SYMMETRY WorkerSymmetry
CHECK_DEADLOCK FALSE
INVARIANTS
  TypeOK
  ConfirmedWereCommitted
  SuccessesTracked
  TotalRowsBacked
  FaultFreeLedgerExact
  EveryOperationCounted
PROPERTIES
  ImplementsLedger
  QuietAfterStop
