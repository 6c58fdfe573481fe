\* One link under fairness, and the deposit listener under fairness.
CONSTANTS
  Codes = {c1}
  Users = {u1, u2}
  NoUser = NoUser
  NoCode = NoCode
  Addressees <- MCAddressees
  Handlers = {h1, h2}
  Cron = h1
  LinkLifetime = 1
  MaxOrphans = 2
  MaxTime = 2
  Scanners = {s1, s2}
  Survivor = s1
  Wallets = {"w1", "w2"}
  Transfers <- MCTransfers
  MaxBlock = 2
  MaxSpan = 1
  MaxFaults = 1
SPECIFICATION SettlementSpec
INVARIANTS DepositsCreditedOnce
PROPERTIES ActiveLinksSettle DepositsArrive
CHECK_DEADLOCK FALSE
