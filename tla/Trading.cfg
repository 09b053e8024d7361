\* A loop and another caller on one exchange; everything fails.
CONSTANTS
  loop = loop
  caller = caller
  Tasks = {loop, caller}
  Commits <- MCCommits
  Contracts = {"btc"}
  Pipeline <- MCPipeline
  Whitelist = {"btc"}
  MaxPct = 10
  Price = 1
  PeakEquity = 100
  MaxDrawdownPct = 20
  Equities <- MCEquities
  MaxRetries = 1
  Endings = {"Expired"}
  MaxOrders = 2
  Faults = {"account", "create", "fetch", "publish"}
  Loops = {loop}
  Traded <- MCTraded
  Stored <- MCStored
  Fetched <- MCFetched
  Quantity = 1
  Capacity = 1
  MaxCandles = 2
  MaxCommits = 1
SPECIFICATION FairTradingSpec
INVARIANTS
  OutcomesAreFinal
  EveryOrderTold
  StatusAddsUp
PROPERTY
  EveryCandleEnds
