SPECIFICATION Spec
CONSTANTS
  r1 = r1
  r2 = r2
  adm1 = adm1
  adm2 = adm2
  p1 = p1
  t1 = t1
  t2 = t2
  Requests = {r1, r2}
  Apis = {p1}
  Admins = {adm1, adm2}
  Tokens = {t1, t2}
  Issued = {t1}
  Expiring = {t1}
  MaxFaults = 1
  NoOne = NoOne
  Torn = Torn
  Api <- Placement
  Asks <- Questions
  Chore <- Chores
INVARIANTS
  StoreIsSound
  LostOnlyToOverlap
  TrailIsTrue
CHECK_DEADLOCK TRUE
