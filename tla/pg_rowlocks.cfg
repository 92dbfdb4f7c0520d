SPECIFICATION RowSpec
CONSTANTS
  j1 = j1
  j2 = j2
  w1 = w1
  w2 = w2
  NoJob = NoJob
  NoId = NoId
  Jobs = {j1, j2}
  Workers = {w1, w2}
  WorkerIds = {w1, w2}
  SlowWorkers = {w1, w2}
  MaxAttempts = 2
  MaxCrashes = 1
  MaxOverruns = 1
  WorkerId <- OwnIds
  Priority <- MCPriority
INVARIANTS
  ClaimsNeverCollide
  NoWaitCycle
PROPERTY
  Atomic
CHECK_DEADLOCK TRUE
