SPECIFICATION Spec
CONSTANTS
  p1 = p1
  p2 = p2
  Publishers = {p1, p2}
  MaxSpans = 3
  MaxWidth = 2
  ClaimLimit = 2
  MaxRetries = 1
  MaxFaults = 1
INVARIANTS
  PublishedCoversDocument
  RowsAreHeldByOne
  NothingIsReassembled
CHECK_DEADLOCK TRUE
