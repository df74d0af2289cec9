SPECIFICATION Spec
CONSTANTS
  t1 = t1
  t2 = t2
  o1 = o1
  o2 = o2
  o3 = o3
  Table = {t1, t2}
  Session = {s1, s2, s3}
  Order = {o1, o2}
  Extra = {x1}
  Price <- MCPrice
  MaxAmount = 1
  MaxPaid = 0
  Worker = {w1, w2}
  Calls = {"create", "checkout", "checkoutSession", "open", "cancelTable", "cancel"}
  Stale = FALSE
  Careful = FALSE
  NoSession = NoSession
  NoTable = NoTable
  NoRequest = NoRequest
SYMMETRY Symmetry
INVARIANT TableSession
