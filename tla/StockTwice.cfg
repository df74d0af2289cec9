CONSTANT o1 = o1
CONSTANT o2 = o2
CONSTANT o3 = o3
CONSTANT NoOne = NoOne
CONSTANT w1 = w1
CONSTANTS
  Ingredient = {1, 2, 3}
  Order = {o1}
  AtTable = {o1}
  Qr = {o1}
  Worker = {w1}
  Calls = {"create", "kitchen", "serve", "cancel", "kitchenCancel"}
  MaxGiven = 2
  Need <- MCNeed
  Initial <- MCInitial
SPECIFICATION Spec
INVARIANT RestoredAtMostOnce
CHECK_DEADLOCK FALSE
