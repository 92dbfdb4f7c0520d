SPECIFICATION Spec
CONSTANTS
  m1 = m1
  mock = mock
  Environments <- MCEnvironments
  MaxSwitches = 1
  Models = {m1, mock}
  MockModel = mock
  Offers <- MCOffers
  MaxModels = 2
  MaxGpus = 1
  Requirements <- MCRequirements
  InitialFiles <- MCInitialFiles
  Rewrites <- MCRewrites
  MaxRewrites = 2
INVARIANTS
  LiveIsOptIn
  RankingLeadsWithBest
  ClaimIsBacked
  ManifestAgrees
  MockNeverCounts
CONSTRAINT OneKind
ACTION_CONSTRAINT UpToRecord
