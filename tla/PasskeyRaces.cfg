\* Four approvals of one vault (the first grant, a link, its cancellation and
\* one more), two concurrent executions.
CONSTANTS
  Approvals = {p1, p2, p3, p4}
  NoApproval = NoApproval
  Handlers = {h1, h2}
  PrepareTtl = 0
  MaxOrphans = 1
  MaxTime = 1
SPECIFICATION Spec
INVARIANTS TypeOK OneExecutionPerNonce ApprovalTakenOnce
  ActivatedSessionsAreGranted LinkRowsFollowChain
PROPERTIES ClosedLinkRowsStay
SYMMETRY PasskeySymmetry
CHECK_DEADLOCK FALSE
