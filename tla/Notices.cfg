SPECIFICATION MCSpec
CONSTANTS
  Requests = {r1}
  Items = {i1}
  m = m
  a = a
  h = h
  s = s
  Users = {m, a, h, s}
  RoleOf <- Roles
  Raiser = m
  Workers = {w1}
  MaxQueue = 2
  DueDay = 2
  Window = 1
  LastDay = 2
  MaxEvents = 3
  MaxLosses = 1
INVARIANTS
  FollowUpAfterPrimary
  AccountsNotAskedEarly
  ItemsAreHeard
PROPERTIES
  LostIsCaughtUp
  DueIsReminded
CHECK_DEADLOCK FALSE
