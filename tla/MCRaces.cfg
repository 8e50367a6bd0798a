SPECIFICATION Spec

CONSTANTS
  Jobs = {j1}
  Partners = {p1, p2}
  ManualDispatch = FALSE
  ForcedTargets = {}
  MaxWaves = 1
  WaveSize = 2
  MaxSearches = 1
  MaxRequests = 2
  MaxWorkers = 1
  MaxCrashes = 1
  NoPartner = NoPartner
  NoJob = NoJob

SYMMETRY PartnerSymmetry

INVARIANT
  HolderIsBusy
  BusyIsExplained
