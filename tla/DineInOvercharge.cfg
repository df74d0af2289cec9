SPECIFICATION Spec
CONSTANTS
  t1 = t1
  t2 = t2
  o1 = o1
  o2 = o2
  o3 = o3
  Table = {t1}
  Session = {s1, s2}
  Order = {o1, o2}
  Extra = {x1}
  Price <- MCPrice
  MaxAmount = 1
  MaxPaid = 2
  Worker = {w1}
  Calls = {"create", "sessionPayment", "checkoutSession"}
  Stale = FALSE
  Careful = FALSE
  NoSession = NoSession
  NoTable = NoTable
  NoRequest = NoRequest
SYMMETRY Symmetry
INVARIANT ChargedOnce
