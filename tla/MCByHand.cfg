SPECIFICATION Spec

CONSTANTS
  Jobs = {j1}
  Partners = {p1, p2}
  ManualDispatch = TRUE
  ForcedTargets = {"PARTNER_EN_ROUTE", "PARTNER_ARRIVED", "IN_PROGRESS", "COMPLETED", "DISPUTED"}
  MaxWaves = 1
  WaveSize = 1
  MaxSearches = 3
  MaxRequests = 1
  MaxWorkers = 0
  MaxCrashes = 1
  NoPartner = NoPartner
  NoJob = NoJob

SYMMETRY PartnerSymmetry

INVARIANT
  HolderIsBusy
  HolderMatchesPhase
PROPERTY
  OwnershipSpec
