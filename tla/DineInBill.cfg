SPECIFICATION Spec
CONSTANTS
  t1 = t1
  t2 = t2
  o1 = o1
  o2 = o2
  o3 = o3
  Table = {t1, t2}
  Session = {s1, s2, s3}
  Order = {o1, o2}
  Extra = {x1}
  Price <- MCPrice
  MaxAmount = 2
  MaxPaid = 2
  Worker = {w1}
  Calls = {"create", "open", "cancelTable", "transferTable", "mergeTables", "serve", "cancel", "kitchen", "kitchenCancel", "checkout", "checkoutSession", "sessionPayment", "transferItem"}
  Stale = FALSE
  Careful = TRUE
  NoSession = NoSession
  NoTable = NoTable
  NoRequest = NoRequest
SYMMETRY Symmetry
INVARIANT PaidIsCovered
INVARIANT ChargedOnce
PROPERTY PaidInFull
