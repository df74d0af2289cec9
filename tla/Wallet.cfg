SPECIFICATION Spec
CONSTANTS
  t1 = t1  t2 = t2  d1 = d1  i1 = i1  k1 = k1  k2 = k2
  Topup <- MCTopup
  Deposit <- MCDeposit
  Invoice <- MCInvoice
  Worker <- MCWorker
  Price = 2
  Bonus = 1
  Commission = 1
  Opening = 2
  Apart <- Conflict
  Mortal <- MCMortal
  MaxAsked = 2
  MaxDied = 1
INVARIANTS BalanceIsBooked OncePerRow
PROPERTIES LedgerSpec PaidIsSettled
CHECK_DEADLOCK FALSE
