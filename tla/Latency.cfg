SPECIFICATION FairSpec
CONSTANTS
  Durations = {0, 1, 2, 5}
  MaxLatencies = 4
  Percentiles <- AskedPercentiles
  IntBits = 5
CHECK_DEADLOCK FALSE
INVARIANTS
  SameSamples
  RankRight
  AvgBetween
PROPERTY
  SortEnds
