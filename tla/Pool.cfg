SPECIFICATION FairSpec
CONSTANTS
  w1 = w1
  w2 = w2
  main = main
  monitor = monitor
  checker = checker
  Workers = {w1, w2}
  Main = main
  Monitor = monitor
  ServerSizes = {3, 4}
  MinFreeConns = 1
  MaxOpenConns = 2
  MaxIdleConns = 1
  Background = 1
  Checkers = {checker}
  OthersLimit = 1
CHECK_DEADLOCK FALSE
INVARIANTS
  TypeOK
  FittingPoolKeepsFree
  SlotsRespected
  RejectedHoldsNothing
PROPERTIES
  WantIsServed
  ClosedReturnsAll
