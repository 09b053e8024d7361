\* A feed and a service with an entry each, one failure; a prompt that the pipe does not hold, lines that the channel does not.
CONSTANTS
  MaxLines <- MCLines
  PipeSize = 1
  LineChannelSize = 1
  PromptSize = 2
  Feeds <- MCFeeds
  Entries <- MCEntries
  FeedOf <- MCFeedOf
  DateOf <- MCDateOf
  Backend = "custom"
  MaxFailures = 1
  IdleTimeout = TRUE
SPECIFICATION FairSentinelSpec
INVARIANT OutputIsWhole
PROPERTIES
  EveryEntryJudged
  
