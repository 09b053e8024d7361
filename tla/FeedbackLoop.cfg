\* Two engines, one strategy; reads, offsets and publishes fail, the process crashes.
CONSTANTS
  engine = engine
  other_engine = other_engine
  feedback_loop = feedback_loop
  Publishers = {engine, other_engine, feedback_loop}
  Subscribers = {}
  Groups <- MCGroups
  Topics <- MCTopics
  Events <- MCEvents
  Topic <- MCTopic
  Writes <- TwoEngines
  NoEvent = NoEvent
  Capacity = 1
  MaxSeq = 3
  MaxGap = 0
  Faults = {"publish", "read", "offset", "crash"}
  Fills <- MCFills
  Strategies = {"momentum"}
  NoStrategy = NoStrategy
  Strategy <- OneStrategy
  Pnl <- MCPnl
  Numeric = {}
  BatchSize = 2
  MaxReads = 2
  DecisionEvent <- MCDecisionEvent
  MinNewTrades = 1
  MinTrades = 1
  MaxDrawdownPercent = 20
  MaxOthers = 3
SPECIFICATION LoopSpec
INVARIANTS
  JudgedOnNewTrades
  RememberedIsPublished
  SkippedWereOvertaken
  SeqNamesOneEvent
