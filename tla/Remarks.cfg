\* Four remarks on four file numbers, one call at a time, picked from the list.
CHECK_DEADLOCK FALSE
SPECIFICATION Spec
CONSTANTS
  r1 = r1
  r2 = r2
  r3 = r3
  r4 = r4
  f0 = f0
  f1 = f1
  f2 = f2
  f3 = f3
  s1 = s1
  s2 = s2
  NoFile = NoFile
  NoRemark = NoRemark
  Remarks = {r1, r2, r3, r4}
  Files = {f0, f1, f2, f3}
  Root = f0
  Splits <- MCSplits
  Totals = {3, 4}
  Deposit = 3
  Sessions = {s1}
  Happens = {}
INVARIANTS
  LedgerKeepsValue
  OpenRemarkIsCurrent
