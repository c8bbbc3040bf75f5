SPECIFICATION MCSpec
CONSTANTS
  r1 = r1
  r2 = r2
  u1 = u1
  u2 = u2
  NoDate = NoDate
  NoRow = NoRow
  Requests = {r1, r2}
  Suppliers = {u1, u2}
  SupplierOf <- OneEach
  Cron = cron
  Workers = {w1}
  GraceDays = 1
  DailyCharge = 2
  BatchSize = 2
  Etds = {1}
  LastDay = 3
  MaxEvents = 2
  GracedTop = 1
  BandEdges <- OneEdge
  CreatorKnown = {r1, r2}
  Categorised = {r1}
INVARIANTS OverdueIsCharged ScreensReconcile
PROPERTIES SnapshotsFollow DefaultersFlagged ScreensAgree
