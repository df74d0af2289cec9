SPECIFICATION FairSpec
CONSTANTS
  o1 = o1
  o2 = o2
  d1 = d1
  d2 = d2
  Order = {o1, o2}
  Device = {d1, d2}
  Worker = {w1}
  OwnerOf <- TwoTills
  Invalid = {o2}
  NoDevice = NoDevice
INVARIANTS AtMostOnce
PROPERTIES DeletedOnlyIfApplied SyncedStays QueuedIsApplied
CHECK_DEADLOCK FALSE
