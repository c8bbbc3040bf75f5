SPECIFICATION BankFairSpec
CONSTANTS
  k1 = k1
  s1 = s1
  s2 = s2
  NoAmount = NoAmount
  NoStatement = NoStatement
  NoDocument = NoDocument
  NoKey = NoKey
  NoReading = NoReading
  Statements = {s1, s2}
  Documents <- Files
INVARIANTS NoDuplicatePeriod ColumnsAreRecovered OneErrorIsVisible
PROPERTIES ExtractionsEnd
