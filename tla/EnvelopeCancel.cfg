\* The creator of an envelope asks for its refund after the hour's notice.
CONSTANTS
  Handlers = {h1, h2}
  Claimers = {u1}
  Slots = 1
  MaxRetries = 1
  MaxOrphans = 0
  MaxNonce = 5
SPECIFICATION Spec
INVARIANTS RefundIsAccepted
CHECK_DEADLOCK FALSE
