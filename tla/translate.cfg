SPECIFICATION Spec
CONSTANTS
  opus = opus
  nllb = nllb
  i1 = i1
  g1 = g1
  a1 = a1
  a2 = a2
  v1 = v1
  Models = {opus, nllb}
  Ids = {i1}
  Validators = {v1}
  InitialBundles <- MCInitialBundles
  MaxFileChanges = 1
  Order <- MCOrder
  NcModels = {nllb}
  Glossaries = {g1}
  MaxGlossaryChanges = 1
  Admins = {a1, a2}
  Updates <- MCUpdates
  Requests <- MCRequests
  Documents <- MCDocuments
  Target = "fr"
INVARIANTS
  OnePolicyDecides
  RoutedWell
  BundleIsTrue
  UpdatesLostOnlyToOverlap
PROPERTIES
  ApprovalHolds
CONSTRAINT OneKindAtWork
ACTION_CONSTRAINT Serving
SYMMETRY AdminSymmetry
CHECK_DEADLOCK FALSE
