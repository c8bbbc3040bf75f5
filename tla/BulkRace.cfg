\* A bulk payment next to a payment.
SPECIFICATION Spec
CONSTANTS
  s1 = s1
  s2 = s2
  NoSession = NoSession
  Sessions <- Two
  Ops = {"pay", "bulk"}
  Targets <- NoTargets
  MaxTranches = 2
  Amounts = {1}
  Total = 2
SYMMETRY Alike
INVARIANTS
  NoDoublePayment
