SPECIFICATION Spec

CONSTANTS
  Jobs = {j1}
  Partners = {p1, p2}
  ManualDispatch = FALSE
  ForcedTargets = {}
  MaxWaves = 2
  WaveSize = 2
  MaxSearches = 2
  MaxRequests = 1
  MaxWorkers = 1
  MaxCrashes = 0
  NoPartner = NoPartner
  NoJob = NoJob

SYMMETRY PartnerSymmetry

INVARIANT
  TypeOK
  HolderIsBusy
  BusyIsExplained
  AcceptanceExplained
  SearchAlive
PROPERTY
  OwnershipSpec
