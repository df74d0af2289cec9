SPECIFICATION Spec
CONSTANTS
  o1 = o1
  o2 = o2
  d1 = d1
  d2 = d2
  Order = {o1, o2}
  Device = {d1}
  Worker = {w1, w2}
  OwnerOf <- OneTill
  Invalid = {}
  NoDevice = NoDevice
INVARIANTS TypeOK NoLostOrder SyncedIsApplied
CHECK_DEADLOCK FALSE
