\* Two sessions, two adjustments, a tranche on each of two requests of one supplier.
SPECIFICATION AdjFairSpec
CONSTANTS
  t1 = t1
  t2 = t2
  a1 = a1
  a2 = a2
  s1 = s1
  s2 = s2
  r1 = r1
  r2 = r2
  NoTransaction = NoTransaction
  NoTranche = NoTranche
  NoAdj = NoAdj
  Tranches = {t1, t2}
  Requests = {r1, r2}
  Transactions = {s1, s2}
  Adjs = {a1, a2}
  Amounts = {2}
  RequestOf <- MCRequestOf
  SupplierOf <- MCSupplierOf
  AmountOf <- MCAmountOf
INVARIANTS
  NotOverdrawn
  CompletedIsBacked
  NamesExistingTranches
PROPERTIES
  AccountKept
  CallsEnd
CHECK_DEADLOCK FALSE
