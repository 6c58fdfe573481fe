\* Does the daily limit come back the next day?
CONSTANTS
  Handlers = {h1}
  Amounts = {1, 2}
  PerTxLimit = 2
  DailyLimit = 2
  Window = 1
  Expiry = 3
  MaxOrphans = 0
  MaxNonce = 3
  MaxTime = 3
SPECIFICATION Spec
INVARIANTS DailyBudgetRenews
CHECK_DEADLOCK FALSE
