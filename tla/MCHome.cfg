SPECIFICATION FairSpec

CONSTANTS
  Categories <- AllCategories
  Requests = {r1, r2}
  Workers = {w1}
  MaxQuotes = 2
  Crashes = 1

INVARIANTS
  TypeOK
  OnePending
  CountedOnce

PROPERTIES
  FareStands
  WorkEnds

CHECK_DEADLOCK FALSE
