\* Two events, one of which leaves the list again, one crash or broken socket.
CONSTANTS
  MaxEvents = 1
  MaxKeys = 3
  MaxSeq = 2
  MaxCrashes = 1
  MaxAttempts = 1
  FeedSize = 1
  WireSize = 1
  ChannelSize = 1
SPECIFICATION FairConsoleSpec
INVARIANT EventsOnce
PROPERTIES
  ConsoleRecovers
  EscapeLeaves
CHECK_DEADLOCK FALSE
