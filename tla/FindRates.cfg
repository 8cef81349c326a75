SPECIFICATION Spec
CONSTANTS
  w1 = w1
  w2 = w2
  reporter = reporter
  main = main
  Workers = {w1}
  Reporter = reporter
  Main = main
  MaxLatencies = 1
  Tried = {"inserts"}
  Bounds <- OneReport
CHECK_DEADLOCK FALSE
INVARIANT
  RatesNotNegative
