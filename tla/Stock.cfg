CONSTANT o1 = o1
CONSTANT o2 = o2
CONSTANT o3 = o3
CONSTANT NoOne = NoOne
CONSTANT w1 = w1
CONSTANT w2 = w2
CONSTANTS
  Ingredient = {1, 2, 3}
  Order = {o1, o2, o3}
  AtTable = {o1, o2}
  Qr = {o1}
  Worker = {w1, w2}
  Calls = {"create", "serve", "cancel", "reject", "cancelTable"}
  MaxGiven = 1
  Need <- MCNeed
  Initial <- MCInitial
SPECIFICATION FairSpec
INVARIANT TypeOK
INVARIANT StockAccounts
INVARIANT NoWaitCycle
PROPERTY InventorySpec
 
PROPERTY EveryRequestEnds
CHECK_DEADLOCK FALSE
