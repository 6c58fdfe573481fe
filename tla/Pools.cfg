\* Four members, two concurrent requests, one call lost or cut off.
CONSTANTS
  Members = {c, m1, m2, m3}
  Creator = c
  Handlers = {h1, h2}
  Loans = {l1, l2}
  Requests = {l1}
  NoLoan = NoLoan
  Principal = 2
  MinPoolMembers = 3
  MaxExtensions = 1
  MaxOrphans = 1
  MaxAborts = 1
  MaxDeposits = 2
  Workloads <- AllWorkloads
SPECIFICATION Spec
INVARIANTS TypeOK RepaidIsSettled VotesAreCast ClosedPoolIsEmpty
SYMMETRY Symmetry
CHECK_DEADLOCK FALSE
