SPECIFICATION Spec
CONSTANTS
  j1 = j1
  j2 = j2
  w1 = w1
  w2 = w2
  NoJob = NoJob
  NoId = NoId
  Jobs = {j1, j2}
  Workers = {w1, w2}
  WorkerIds = {w1, w2}
  SlowWorkers = {}
  MaxAttempts = 2
  MaxCrashes = 1
  MaxOverruns = 0
  WorkerId <- OwnIds
INVARIANTS
  OneTranslationAtATime
PROPERTIES
  LedgerSpec
CHECK_DEADLOCK TRUE
