SPECIFICATION FairSpec
CONSTANTS
  w1 = w1
  w2 = w2
  reporter = reporter
  main = main
  Workers = {w1, w2}
  Reporter = reporter
  Main = main
  MaxLatencies = 1
  Tried = {"inserts", "errors"}
  Bounds <- Mixed
CHECK_DEADLOCK FALSE
INVARIANTS
  TypeOK
  ReadersSeeTrimmedBuffer
  FinalSnapshotExact
  ReporterIntervalsTile
  GaugesFresh
PROPERTY
  RecorderIsServed
