\* Passkey authorizations and native SOL links, with rent reserves.
CONSTANTS
  Vaults = {v1, v2}
  SessionKeys = {}
  LinkIds = {i1}
  Signers = {a1}
  NoKey = NoKey
  Outside = Outside
  Policies <- MCPolicies
  Amounts = {}
  SolAmounts = {1, 2}
  UsdcSupply = 0
  SolSupply = 5
  RentVault = 1
  RentLink = 1
  U64Max = 5
  NonceMax = 2
  MaxAuthorizationTtl = 1
  MaxSessionDuration = 1
  MaxPaymentLinkDuration = 1
  MaxTime = 2
SPECIFICATION Spec
INVARIANTS EscrowBacked RentReserveKept AuthorizationsExecuteOnce
  RefundNeverBlocked
SYMMETRY VaultSymmetry
CHECK_DEADLOCK FALSE
