\* Two tasks push, reject and sync; an order and a cancellation are staged.
CONSTANTS
  Callers = {c1, c2}
  Operations = {place, cancel}
  Placing = {place}
  SyncOrders = SyncOrders
  NoHash = NoHash
  NoOrder = NoOrder
  OfflineThreshold = 2
  MaxHash = 3
SPECIFICATION Spec
SYMMETRY Symmetry
INVARIANTS
  HistoryChained
  DispatchedAtMostOnce
  RejectedNeverSent
  HistoryTruthful
PROPERTY
  LifecycleSpec
