\* A loan repaid in instalments, without any failure.
CONSTANTS
  Members = {c, m1, m2}
  Creator = c
  Handlers = {h1, h2}
  Loans = {l1, l2}
  Requests = {l1}
  NoLoan = NoLoan
  Principal = 2
  MinPoolMembers = 3
  MaxExtensions = 1
  MaxOrphans = 0
  MaxAborts = 0
  MaxDeposits = 2
  Workloads <- Repaying
SPECIFICATION Spec
INVARIANT SettledLoansAreClosed
CHECK_DEADLOCK FALSE
