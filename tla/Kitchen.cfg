SPECIFICATION FairSpec
CONSTANTS
  o1 = o1  o2 = o2  o3 = o3  k1 = k1  k2 = k2  s1 = s1
  NoOrder = NoOrder  NoSession = NoSession
  Order = {o1, o2}
  Worker = {k1, k2}
  Stations = 1
  Needs <- MCNeeds
  SessionOf <- MCSessionOf
  Slips = {}
  MaxTickets = 2
  MaxOdd = 1
INVARIANTS TypeOK LinesKept OnePreparing
PROPERTY SentIsCooked
CHECK_DEADLOCK FALSE
