SPECIFICATION SubmitSpec
CONSTANTS
  j1 = j1
  j2 = j2
  r1 = r1
  r2 = r2
  r3 = r3
  c1 = c1
  c2 = c2
  c3 = c3
  JobIds = {j1, j2}
  Requests = {r1, r2, r3}
  Connections = {c1, c2, c3}
  JobOf <- MCJobOf
  ConnOf <- OwnConn
INVARIANTS
  AcceptedIsStored
  AcceptedOnce
PROPERTIES
  SubmitIsAtomic
CHECK_DEADLOCK FALSE
