SPECIFICATION Spec
CONSTANTS
  Sessions = {s1, s2}
  Requests = {r1, r2, r3}
  Invoices = {i1}
  NoRequest = NoRequest
  NoInvoice = NoInvoice
  NoSession = NoSession
  MonthsInYear = 2
  MonthLength <- ShortMonths
  WindowOpensOn = 2
  FirstDays <- MonthEnds
  MaxDays = 1
  MaxCalls = 3
  MaxEvents = 1
SYMMETRY Interchangeable
CHECK_DEADLOCK FALSE
INVARIANTS NumbersAreConsecutive
PROPERTIES StandingNumberIsRefused GatesHold LockIsAnnounced
