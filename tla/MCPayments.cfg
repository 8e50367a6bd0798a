SPECIFICATION FairSpec

CONSTANTS
  Requests = {r1, r2}
  Workers = {w1}
  Methods = {"CASH", "WALLET", "CARD"}
  Due = 2
  Settles = TRUE
  Amounts = {1, 2}
  Refunds = 2
  Events = {e1}
  Nobody = Nobody
  Tries = 3
  MaxVersion = 3
  Crashes = 1

INVARIANTS
  TypeOK
  PaperworkAgrees
  LedgerIsBacked
  ProcessedIsPosted
  RefundedIsPosted

PROPERTIES
  QueuedIsSettled

CHECK_DEADLOCK FALSE
