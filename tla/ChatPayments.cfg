\* Two requests at a time, in each of the three services.
CONSTANTS
  Handlers = {h1, h2}
  MaxOrphans = 1
  Claimers = {u1, u2}
  Slots = 2
  MaxRetries = 1
  MaxNonce = 5
  Payers = {p1, p2}
  Debtor = p1
  DailyLimit = 1
  MaxRestarts = 1
  Stories <- AllStories
  Referrers = {r1, r2}
  Referees = {e1, e2}
  Nobody = Nobody
  MaxPerDay = 1
SPECIFICATION Spec
INVARIANTS TypeOK ClaimsArePaid NeverShutEarly RecordedPaymentsLanded LimitPerRestart RevokedKeysAreNotCached MilestonesPayOnce
SYMMETRY HandlerSymmetry
CHECK_DEADLOCK FALSE
