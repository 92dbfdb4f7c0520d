SPECIFICATION FairSpec
CONSTANTS
  j1 = j1
  j2 = j2
  v1 = v1
  v2 = v2
  v3 = v3
  api = api
  cli = cli
  None = None
  Jobs = {j1, j2}
  Reviews = {v1, v2, v3}
  Procs = {api, cli}
  Home <- HomeShared
  Target <- TargetOne
  Certifies = {v1}
  Durable = TRUE
  MaxEnds = 1
INVARIANTS StoreIsSound OnlyConcurrentReviewsAreLost
PROPERTIES SettledOnce EverySubmissionEnds
CHECK_DEADLOCK FALSE
