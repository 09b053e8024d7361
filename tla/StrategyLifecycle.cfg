\* All the tasks of a daemon; events carry names; lagging, sled errors, crashes and shutdowns.
CONSTANTS
  feedback_loop = feedback_loop
  s1 = s1
  s2 = s2
  trader = trader
  lifecycle = lifecycle
  research = research
  Traders = {trader}
  Spawned = {lifecycle, research, trader}
  Publishers = {feedback_loop}
  Subscribers = {lifecycle}
  Groups = {}
  Topics = {"feedback"}
  Events <- MCEvents
  Topic <- MCTopic
  Writes <- MCWrites
  NoEvent = NoEvent
  Capacity = 1
  MaxSeq = 2
  MaxGap = 0
  Faults = {"publish", "read", "crash"}
  Kind <- MCKind
  Id <- MCId
  Stored = {s1, s2}
  Parsed <- AsName
  NotUuid = NotUuid
  Referenced <- About
  Fetched = {f1}
  f1 = f1
SPECIFICATION FairLifecycleSpec
INVARIANTS
  OneUsesStore
  NotifiedIsReadable
PROPERTIES
  NoDaemonLasts
