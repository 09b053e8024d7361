\* Two intervals, one of them the hour of four minutes, over an hour and a half.
CONSTANTS
  Hour = 4
  Intervals = {2, 4}
  InitialDelay = 1
  MaxDelay = 3
  Multiplier = 2
  KlineCapacity = 2
  CandleCapacity = 1
  WireCapacity = 2
  MaxClock = 7
  MaxFailures = 2
SPECIFICATION FairMarketSpec
INVARIANTS
  CandlesTruthful
  EachBucketOnce
  NoMinuteVanishes
PROPERTY
  StreamResumes
CHECK_DEADLOCK FALSE
