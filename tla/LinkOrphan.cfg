\* The bot tells the sender that a failed creation moved no funds.
CONSTANTS
  Codes = {c1}
  Users = {u1, u2}
  NoUser = NoUser
  NoCode = NoCode
  Addressees <- MCAddressees
  Handlers = {h1, h2}
  Cron = h1
  LinkLifetime = 1
  MaxOrphans = 1
  MaxTime = 2
SPECIFICATION Spec
INVARIANTS FailedMeansNotFunded
CHECK_DEADLOCK FALSE
