SPECIFICATION MoneySpec

CONSTANTS
  Jobs = {j1, j2, j3}
  Fares = {1, 4}
  Discount = 2
  UsageLimit = 1
  PerUserLimit = 2
  Fee = 3
  Compensation = 2
  Commissions = {3}
  MinFirstJob = 1
  Deliveries = {n1}

SYMMETRY Symmetry

INVARIANTS
  MoneyTypeOK
  SettlementsBalance
  PartnerEarnsFare
  UsageIsLive
  OneReward

CHECK_DEADLOCK FALSE
