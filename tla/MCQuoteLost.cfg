SPECIFICATION Spec

CONSTANTS
  Categories <- AllCategories
  Requests = {r1, r2}
  Workers = {w1}
  MaxQuotes = 1
  Crashes = 0

INVARIANTS
  AgreedIsBilled

CHECK_DEADLOCK FALSE
