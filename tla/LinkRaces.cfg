\* Two links that share a session and a sweep, two users and two handlers.
CONSTANTS
  Codes = {c1, c2}
  Users = {u1, u2}
  NoUser = NoUser
  NoCode = NoCode
  Addressees <- MCAddressees
  Handlers = {h1, h2}
  Cron = h1
  LinkLifetime = 1
  MaxOrphans = 2
  MaxTime = 2
SPECIFICATION Spec
INVARIANTS TypeOK RecordFollowsChain ClaimantWasPaid
PROPERTIES FinalRecordsStay
SYMMETRY ServiceSymmetry
CHECK_DEADLOCK FALSE
