\* Two ids, two iterations per cycle, one compile retry, two timeframes, one crash; others
\* publish without end.
CONSTANTS
  Ids = {1, 2}
  Results <- MCResults
  None = None
  MaxCompileRetries = 1
  Timeframes = 2
  Iterations = 2
  Capacity = 1
  Window = 1
  MaxForeign = 1
  MaxCrashes = 1
\* `research run' returns.
CHECK_DEADLOCK FALSE
CONSTRAINT DrawnInOrder
SPECIFICATION FairResearchSpec
INVARIANTS
  TraceReadable
  TraceIsChain
  PromotedWentTheWay
  CandidatesAreThere
PROPERTIES
  OnlyABusyBusHoldsUp
  RequestsAreHeard
