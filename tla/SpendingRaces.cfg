\* Two concurrent requests under one session key, over midnight, and its
\* revocation, with the fairness of the handlers' awaits.
CONSTANTS
  Handlers = {h1, h2}
  Amounts = {1}
  PerTxLimit = 1
  DailyLimit = 2
  Window = 0
  Expiry = 1
  MaxOrphans = 1
  MaxNonce = 3
  MaxTime = 1
SPECIFICATION FairSpec
INVARIANTS TypeOK DailyLimitHolds RecordsAreBacked
PROPERTIES RevocationEndsSpending
CHECK_DEADLOCK FALSE
