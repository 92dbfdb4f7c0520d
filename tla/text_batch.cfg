SPECIFICATION Spec
CONSTANTS
  Batches = {b1, b2}
  Requests <- MCRequests
  Paths <- MCPaths
  Originals <- MCOriginals
  Absent = Absent
  Partial = Partial
  NoReport = NoReport
  NoRequest = NoRequest
  NoBatch = NoBatch
  MaxFaults = 1
  MaxEnds = 1
  MaxPolls = 2
INVARIANTS  NoTextTranslatedTwice
PROPERTIES OnlyTheReportRevokes
SYMMETRY BatchSymmetry
CHECK_DEADLOCK FALSE
