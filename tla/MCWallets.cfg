SPECIFICATION Spec

CONSTANTS
  Procs = {p1, p2}
  TopUps = {t1, t2}
  Adjustments = {a1}
  Withdrawals = {w1, w2}
  Nothing = Nothing
  Amount = 2

INVARIANTS
  TypeOK
  HoldsAgree
  CreditIsCharged

PROPERTIES
  PostingsSpec

CHECK_DEADLOCK FALSE
