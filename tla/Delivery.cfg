SPECIFICATION FairSpec
CONSTANTS
  o1 = o1  o2 = o2  a = a  b = b  d1 = d1
  Nobody = Nobody  NoOrder = NoOrder
  Order = {o1}
  Courier = {a, b}
  Desk = {d1}
  Slips = {}
  MaxOff = 2
  MaxAsked = 3
INVARIANTS TypeOK TakenOnce CashOwner HandedOver
PROPERTIES FinalIsFinal RoadEnds
CHECK_DEADLOCK FALSE
