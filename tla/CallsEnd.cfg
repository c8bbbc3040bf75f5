\* Two sessions on three tranches: payments next to bulk payments, deletes
\* and changes of the details.
SPECIFICATION FairSpec
CONSTANTS
  s1 = s1
  s2 = s2
  NoSession = NoSession
  Sessions <- Two
  Ops = {"pay", "bulk", "details", "delete"}
  Targets <- NoTargets
  MaxTranches = 3
  Amounts = {1}
  Total = 3
INVARIANTS
  CompletionNotMissed
PROPERTIES
  CallsEnd
