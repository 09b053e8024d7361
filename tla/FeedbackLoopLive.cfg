\* Two strategies, one with its PnL in numbers, no faults; the first decision comes after
\* the last fill.
CONSTANTS
  engine = engine
  other_engine = other_engine
  feedback_loop = feedback_loop
  Publishers = {engine, feedback_loop}
  Subscribers = {}
  Groups <- MCGroups
  Topics <- MCTopics
  Events <- MCEvents
  Topic <- MCTopic
  Writes <- Alone
  NoEvent = NoEvent
  Capacity = 1
  MaxSeq = 5
  MaxGap = 0
  Faults = {}
  Fills <- MCFills
  Strategies = {"momentum", "scalping"}
  NoStrategy = NoStrategy
  Strategy <- TwoStrategies
  Pnl <- MCPnl
  Numeric = {"fill"}
  BatchSize = 2
  MaxReads = 2
  DecisionEvent <- MCDecisionEvent
  MinNewTrades = 3
  MinTrades = 3
  MaxDrawdownPercent = 20
  MaxOthers = 4
SPECIFICATION FairLoopSpec
INVARIANT
  MetricsAgree
PROPERTIES
  LedgerSpec
  EveryStrategyJudged
