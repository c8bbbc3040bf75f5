\* Two tranches of two amounts and edits of the payment row: the sums.
CHECK_DEADLOCK FALSE
SPECIFICATION Spec
CONSTANTS
  MaxTranches = 2
  Amounts = {1, 2}
  Totals = {3}
  Levels = {"complete"}
  PaymentEdits <- OneEdit
  AdjustableNums = {}
PROPERTIES
  BooksStay
