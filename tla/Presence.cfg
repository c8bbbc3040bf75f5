SPECIFICATION Spec
CONSTANTS
  admin = admin  r1 = r1  r2 = r2  m1 = m1  s1 = s1  s2 = s2
  Users = {admin}
  RoleOf <- MCRoleOf
  Requests = {r1, r2}
  Remarks = {m1}
  Sessions = {s1, s2}
  Unseen_Max = 1
  Away = 1
  LastTime = 6
  NoTime = NoTime
SYMMETRY Interchangeable
INVARIANTS ChangesAreFlagged QuietWhenSeen
PROPERTIES AwayReportsArrivals
CHECK_DEADLOCK FALSE
