\* Two tranches of one amount, one of which invoice adjustments may name:
\* every tranche and request handler.
\* A soft-deleted request is the end: no handler finds it any more.
CHECK_DEADLOCK FALSE
SPECIFICATION Spec
CONSTANTS
  MaxTranches = 2
  Amounts = {1}
  Totals = {2}
  Levels = {"complete"}
  PaymentEdits <- NoEdits
  AdjustableNums = {2}
INVARIANTS
  NoPaidWhereNotPayable
  CompletedHasNothingOpen
  NothingClosedSilently
PROPERTIES
  TerminalFreezesTranches
  PromiseKept
