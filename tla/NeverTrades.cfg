\* A window within every cap.
CONSTANTS
  LastMinute = 8
  Timeframe = 2
  MaxCandleHistory = 9
  MaxAggregated = 2
  FuelLimit = 2
  NoScore = NoScore
SPECIFICATION BacktestSpec
INVARIANT SignalsTrade
CHECK_DEADLOCK FALSE
