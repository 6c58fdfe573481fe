\* Sessions and USDC links: a sender and a recipient, one session key, one link.
CONSTANTS
  Vaults = {v1, v2}
  SessionKeys = {k1}
  LinkIds = {i1}
  Signers = {a1}
  NoKey = NoKey
  Outside = Outside
  Policies <- MCPolicies
  Amounts = {1, 2}
  SolAmounts = {}
  UsdcSupply = 2
  SolSupply = 0
  RentVault = 0
  RentLink = 0
  U64Max = 3
  NonceMax = 2
  MaxAuthorizationTtl = 1
  MaxSessionDuration = 1
  MaxPaymentLinkDuration = 1
  MaxTime = 2
SPECIFICATION Spec
INVARIANTS TypeOK EscrowBacked ReleasedExactlyOnce SessionWithinLimit
  RefundNeverBlocked
PROPERTIES DebitsAreAuthorized SessionNeverWidened ImplementsLinkEscrow
SYMMETRY VaultSymmetry
CHECK_DEADLOCK FALSE
