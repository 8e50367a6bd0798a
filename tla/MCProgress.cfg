SPECIFICATION FairSpec

CONSTANTS
  Jobs = {j1}
  Partners = {p1}
  ManualDispatch = FALSE
  ForcedTargets = {}
  MaxWaves = 2
  WaveSize = 1
  MaxSearches = 2
  MaxRequests = 1
  MaxWorkers = 1
  MaxCrashes = 0
  NoPartner = NoPartner
  NoJob = NoJob

PROPERTY
  SearchEnds
  PartnerFreed
