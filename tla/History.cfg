\* `data fetch' next to `setup data' or the wizard, on a Binance symbol and a Yahoo one.
CONSTANTS
  process = process
  task = task
  Processes = {process}
  Symbols = {"btc", "spy"}
  SourceOf <- Both
  Setup <- SetupBoth
  DayLength = 2
  Listed = 0
  Quiet = {2}
  PageLimit = 2
  RecentDays = 1
  LastDay = 2
  MaxStarts = 2
SPECIFICATION FairHistorySpec
INVARIANTS
  HolesAreUnfinished
PROPERTY
  EveryDownloadEnds
CHECK_DEADLOCK FALSE
