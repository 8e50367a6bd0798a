SPECIFICATION FairSpec

CONSTANTS
  Requests = {r1, r2}
  Keys = {k1, k2}
  Payloads <- Decisions
  Nothing = Nothing
  Crashes = 1
  DisputeIds = {d1}
  NoDispute = NoDispute
  Captured = 1

INVARIANTS
  OncePerKey
  DecisionIsBooked

PROPERTIES
  KeyIsFreed

CHECK_DEADLOCK FALSE
