\* Two sessions, every call but the bulk payment.
SPECIFICATION Spec
CONSTANTS
  s1 = s1
  s2 = s2
  NoSession = NoSession
  Sessions <- Two
  Ops <- AllButBulk
  Targets <- AuthorTargets
  MaxTranches = 2
  Amounts = {1}
  Total = 2
SYMMETRY Alike
INVARIANTS
  NoDoublePayment
  ProcessedIsLocked
PROPERTIES
  PaidIsFinal
  PromiseKept
