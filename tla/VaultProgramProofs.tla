------------------------- MODULE VaultProgramProofs -------------------------
(***************************************************************************)
(* Proofs about VaultProgram for every number of vaults, session keys and  *)
(* links, every policy, amount, supply, rent and duration.                 *)
(***************************************************************************)
EXTENDS VaultProgram, SumTheorems

LEMMA AccountsFacts ==
  /\ Vaults \subseteq Accounts /\ Links \subseteq Accounts /\ Outside \in Accounts
  /\ \A l \in Links : l[1] \in Vaults
  /\ \A l \in Links : l \notin Vaults /\ l # Outside
  /\ \A v \in Vaults : v # Outside
  /\ \A s \in Sessions : s[1] \in Vaults
  /\ \A v \in Vaults, k \in SessionKeys : <<v, k>> \in Sessions
BY AddressAssumption DEF Accounts, Links, Sessions

\* A transfer within the source's balance keeps all balances natural.
LEMMA MovedType ==
  ASSUME NEW balance \in [Accounts -> Nat], NEW from \in Accounts,
         NEW to \in Accounts, NEW amount \in Nat, balance[from] >= amount
  PROVE  Moved(balance, from, to, amount) \in [Accounts -> Nat]
BY DEF Moved

\* The rent the payer adds is never negative and is covered by the payer.
LEMMA RentPaidType ==
  ASSUME lamports \in [Accounts -> Nat], NEW a \in Accounts, NEW rent \in Nat,
         CanPayRent(a, rent)
  PROVE  RentPaid(a, rent) \in [Accounts -> Nat]
<1>1. Missing(a, rent) \in Nat
  BY DEF Missing
<1>2. lamports[Outside] >= Missing(a, rent)
  BY DEF CanPayRent
<1>3. Outside \in Accounts
  BY AccountsFacts
<1> QED
  BY <1>1, <1>2, <1>3, MovedType DEF RentPaid

\* Consuming a nonce keeps it a u64: checked_add refuses the last one.
LEMMA ConsumeVaultNonceType ==
  ASSUME TypeOK, NEW v \in Vaults, NEW n \in Nonces, ConsumeVaultNonce(v, n)
  PROVE  vault' \in [Vaults -> [exists : BOOLEAN, nonce : Nonces]]
BY ConstantsAssumption DEF TypeOK, ConsumeVaultNonce, Nonces

LEMMA WriteSessionType ==
  ASSUME NEW p \in Policies
  PROVE  WriteSession(p) \in SessionRecords
BY ConstantsAssumption DEF WriteSession, SessionRecords, U64, Nonces

LEMMA SpendFromSessionType ==
  ASSUME TypeOK, NEW s \in Sessions, NEW amount \in Nat, NEW n \in Nonces,
         SessionUsable(s, n), WithinSessionLimits(s, amount),
         SpendFromSession(s, amount)
  PROVE  session' \in [Sessions -> SessionRecords]
<1>1. session[s] \in SessionRecords
  BY DEF TypeOK
<1>2. session[s].spent + amount \in U64
  BY <1>1, ConstantsAssumption DEF SessionRecords, WithinSessionLimits, U64
<1>3. session[s].nonce + 1 \in Nonces
  BY <1>1, ConstantsAssumption DEF SessionRecords, SessionUsable, Nonces
<1> QED
  BY <1>1, <1>2, <1>3 DEF TypeOK, SpendFromSession, SessionRecords

LEMMA MovedUsdcType ==
  ASSUME TypeOK, NEW from \in Accounts, NEW to \in Accounts, NEW amount \in Nat,
         usdc[from] >= amount, usdc' = Moved(usdc, from, to, amount)
  PROVE  usdc' \in [Accounts -> Nat]
BY MovedType DEF TypeOK

LEMMA MovedLamportsType ==
  ASSUME TypeOK, NEW from \in Accounts, NEW to \in Accounts, NEW amount \in Nat,
         NEW reserve \in Nat, CanTransferLamports(from, to, amount, reserve),
         lamports' = Moved(lamports, from, to, amount)
  PROVE  lamports' \in [Accounts -> Nat]
<1>1. lamports[from] >= amount
  BY DEF TypeOK, CanTransferLamports
<1> QED
  BY <1>1, MovedType DEF TypeOK

LEMMA DrawnType ==
  ASSUME TypeOK, usdc' \in [Accounts -> Nat], NEW s \in Sessions, DrawnBy(s)
  PROVE  drawn' \in [Sessions -> Int]
BY AccountsFacts DEF TypeOK, DrawnBy

LEMMA ReleasedType ==
  ASSUME TypeOK, NEW l \in Links,
         \/ usdc' \in [Accounts -> Nat] /\ ReleasedUsdc(l)
         \/ lamports' \in [Accounts -> Nat] /\ ReleasedLamports(l)
  PROVE  released' \in [Links -> Int]
BY AccountsFacts DEF TypeOK, ReleasedUsdc, ReleasedLamports

LEMMA NewLinkType ==
  ASSUME NEW native \in BOOLEAN, NEW amount \in Nat, NEW t \in Times
  PROVE  NewLink(native, amount, t) \in LinkRecords
BY DEF NewLink, LinkRecords, LinkStatuses

\* Settling a link changes its status and, for a claim, its destination.
LEMMA SettledLinkType ==
  ASSUME TypeOK, NEW l \in Links, NEW r \in Vaults, NEW st \in SettledStatuses,
         \/ link' = [link EXCEPT ![l].status = st]
         \/ link' = [link EXCEPT ![l].status = st,
                                 ![l].claimed_destination = r]
  PROVE  link' \in [Links -> LinkRecords]
<1>1. st \in LinkStatuses
  BY DEF LinkStatuses
<1>2. link[l] \in LinkRecords
  BY DEF TypeOK
<1> QED
  BY <1>1, <1>2 DEF TypeOK, LinkRecords

\* Claiming, cancelling and refunding keep the types: one lemma for the
\* three USDC instructions and one for the three native ones.
LEMMA UsdcSettlementTypes ==
  ASSUME TypeOK, NEW l \in Links, NEW to \in Vaults,
         usdc[l] >= link[l].amount, usdc' = Moved(usdc, l, to, link[l].amount),
         ReleasedUsdc(l)
  PROVE  usdc' \in [Accounts -> Nat] /\ released' \in [Links -> Int]
<1>1. link[l].amount \in Nat
  BY DEF TypeOK, LinkRecords
<1>2. usdc' \in [Accounts -> Nat]
  BY <1>1, MovedUsdcType, AccountsFacts
<1> QED
  BY <1>2, ReleasedType

LEMMA SolSettlementTypes ==
  ASSUME TypeOK, NEW l \in Links, NEW to \in Vaults,
         CanTransferLamports(l, to, link[l].amount, RentLink),
         lamports' = Moved(lamports, l, to, link[l].amount),
         ReleasedLamports(l)
  PROVE  lamports' \in [Accounts -> Nat] /\ released' \in [Links -> Int]
<1>1. link[l].amount \in Nat
  BY DEF TypeOK, LinkRecords
<1>2. lamports' \in [Accounts -> Nat]
  BY <1>1, MovedLamportsType, AccountsFacts, ConstantsAssumption
<1> QED
  BY <1>2, ReleasedType

LEMMA TypeOKInit == Init => TypeOK
<1> SUFFICES ASSUME Init PROVE TypeOK
  OBVIOUS
<1>1. 0 \in U64 /\ 0 \in Times /\ 0 \in Nonces /\ UsdcSupply \in Nat /\ SolSupply \in Nat
  BY ConstantsAssumption DEF U64, Times, Nonces
<1>2. NoVault \in [exists : BOOLEAN, nonce : Nonces]
  BY <1>1 DEF NoVault
<1>3. NoSession \in SessionRecords
  BY <1>1 DEF NoSession, SessionRecords
<1>4. NoLink \in LinkRecords
  BY <1>1 DEF NoLink, LinkRecords, LinkStatuses
<1>5. Outside \in Accounts
  BY AccountsFacts
<1> QED
  BY <1>1, <1>2, <1>3, <1>4, <1>5 DEF Init, TypeOK

\* The administration, wallet and environment instructions keep TypeOK.
LEMMA TypeOKWallet ==
  ASSUME TypeOK, Administration \/ WalletInstructions
  PROVE  TypeOK'
<1> USE AccountsFacts
<1>1. ASSUME NEW a \in Signers, InitializeProtocol(a)
      PROVE  TypeOK'
  BY <1>1 DEF InitializeProtocol, TypeOK, history
<1>2. ASSUME NEW signer \in Signers, NEW a \in Signers,
             InitializeClaimAuthority(signer, a)
      PROVE  TypeOK'
  BY <1>2 DEF InitializeClaimAuthority, TypeOK, history
<1>3. 0 \in Nonces /\ 1 \in Nonces /\ RentVault \in Nat /\ RentLink \in Nat
  BY ConstantsAssumption DEF Nonces
<1>4. ASSUME NEW v \in Vaults, InitializeVault(v)
      PROVE  TypeOK'
  <2>1. lamports' \in [Accounts -> Nat]
    BY <1>3, <1>4, RentPaidType DEF InitializeVault, TypeOK
  <2>2. executed' \subseteq Authorizations
    BY <1>3, <1>4 DEF InitializeVault, Record, Authorizations, RootActions, TypeOK
  <2> QED
    BY <1>3, <1>4, <2>1, <2>2 DEF InitializeVault, TypeOK
<1>5. ASSUME NEW v \in Vaults, NEW k \in SessionKeys, NEW p \in Policies,
             InitializeVaultAndGrantSession(v, k, p)
      PROVE  TypeOK'
  <2>1. lamports' \in [Accounts -> Nat]
    BY <1>3, <1>5, RentPaidType DEF InitializeVaultAndGrantSession, TypeOK
  <2>2. executed' \subseteq Authorizations
    BY <1>3, <1>5 DEF InitializeVaultAndGrantSession, Record, Authorizations, RootActions, TypeOK
  <2>3. session' \in [Sessions -> SessionRecords]
    BY <1>5, WriteSessionType DEF InitializeVaultAndGrantSession, TypeOK
  <2> QED
    BY <1>3, <1>5, <2>1, <2>2, <2>3 DEF InitializeVaultAndGrantSession, TypeOK
<1>6. ASSUME NEW v \in Vaults, NEW k \in SessionKeys, NEW p \in Policies,
             NEW n \in Nonces, GrantSession(v, k, p, n)
      PROVE  TypeOK'
  <2>1. vault' \in [Vaults -> [exists : BOOLEAN, nonce : Nonces]]
    BY <1>6, ConsumeVaultNonceType DEF GrantSession
  <2>2. executed' \subseteq Authorizations
    BY <1>6 DEF GrantSession, Record, Authorizations, RootActions, TypeOK
  <2>3. session' \in [Sessions -> SessionRecords]
    BY <1>6, WriteSessionType DEF GrantSession, TypeOK
  <2> QED
    BY <1>6, <2>1, <2>2, <2>3 DEF GrantSession, TypeOK
<1>7. ASSUME NEW v \in Vaults, NEW to \in Accounts, NEW amount \in Amounts,
             NEW n \in Nonces, TransferWithPasskey(v, to, amount, n)
      PROVE  TypeOK'
  <2>1. vault' \in [Vaults -> [exists : BOOLEAN, nonce : Nonces]]
    BY <1>7, ConsumeVaultNonceType DEF TransferWithPasskey
  <2>2. executed' \subseteq Authorizations
    BY <1>7 DEF TransferWithPasskey, Record, Authorizations, RootActions, TypeOK
  <2>3. usdc' \in [Accounts -> Nat]
    BY <1>7, MovedUsdcType, ConstantsAssumption DEF TransferWithPasskey, CanTransfer
  <2> QED
    BY <1>7, <2>1, <2>2, <2>3 DEF TransferWithPasskey, TypeOK
<1>8. ASSUME NEW v \in Vaults, NEW k \in SessionKeys, NEW to \in Accounts,
             NEW amount \in Amounts, NEW n \in Nonces,
             TransferWithSession(v, k, to, amount, n)
      PROVE  TypeOK'
  <2>1. session' \in [Sessions -> SessionRecords]
    BY <1>8, SpendFromSessionType, ConstantsAssumption DEF TransferWithSession
  <2>2. usdc' \in [Accounts -> Nat]
    BY <1>8, MovedUsdcType, ConstantsAssumption DEF TransferWithSession, CanTransfer
  <2>3. drawn' \in [Sessions -> Int]
    BY <1>8, <2>2, DrawnType DEF TransferWithSession
  <2> QED
    BY <1>8, <2>1, <2>2, <2>3 DEF TransferWithSession, TypeOK
<1>9. ASSUME NEW v \in Vaults, NEW to \in Accounts, NEW amount \in SolAmounts,
             NEW n \in Nonces, TransferSolWithPasskey(v, to, amount, n)
      PROVE  TypeOK'
  <2>1. vault' \in [Vaults -> [exists : BOOLEAN, nonce : Nonces]]
    BY <1>9, ConsumeVaultNonceType DEF TransferSolWithPasskey
  <2>2. executed' \subseteq Authorizations
    BY <1>9 DEF TransferSolWithPasskey, Record, Authorizations, RootActions, TypeOK
  <2>3. lamports' \in [Accounts -> Nat]
    BY <1>3, <1>9, MovedLamportsType, ConstantsAssumption DEF TransferSolWithPasskey
  <2> QED
    BY <1>9, <2>1, <2>2, <2>3 DEF TransferSolWithPasskey, TypeOK
<1> QED
  BY <1>1, <1>2, <1>4, <1>5, <1>6, <1>7, <1>8, <1>9
  DEF Administration, WalletInstructions

\* The payment-link instructions keep TypeOK.
LEMMA TypeOKLinks ==
  ASSUME TypeOK, LinkInstructions
  PROVE  TypeOK'
<1> USE AccountsFacts
<1>1. PICK l \in Links :
        \/ \E k \in SessionKeys, amount \in Amounts, t \in Times, n \in Nonces :
             CreatePaymentLinkWithSession(l, k, amount, t, n)
        \/ \E signer \in Signers, r \in Vaults : ClaimPaymentLink(l, signer, r)
        \/ \E k \in SessionKeys, n \in Nonces : CancelPaymentLinkWithSession(l, k, n)
        \/ RefundExpiredPaymentLink(l)
        \/ \E amount \in SolAmounts, t \in Times, n \in Nonces :
             CreateSolPaymentLinkWithPasskey(l, amount, t, n)
        \/ \E signer \in Signers, r \in Vaults : ClaimSolPaymentLink(l, signer, r)
        \/ \E n \in Nonces : CancelSolPaymentLinkWithPasskey(l, n)
        \/ RefundExpiredSolPaymentLink(l)
  BY DEF LinkInstructions
<1>2. /\ RentVault \in Nat /\ RentLink \in Nat
      /\ "CLAIMED" \in SettledStatuses /\ "CANCELLED" \in SettledStatuses
      /\ "REFUNDED" \in SettledStatuses
  BY ConstantsAssumption DEF SettledStatuses
<1>3. ASSUME NEW k \in SessionKeys, NEW amount \in Amounts, NEW t \in Times,
             NEW n \in Nonces, CreatePaymentLinkWithSession(l, k, amount, t, n)
      PROVE  TypeOK'
  <2>1. amount \in Nat
    BY ConstantsAssumption
  <2>2. session' \in [Sessions -> SessionRecords]
    BY <1>3, <2>1, SpendFromSessionType DEF CreatePaymentLinkWithSession
  <2>3. usdc' \in [Accounts -> Nat]
    BY <1>3, <2>1, MovedUsdcType DEF CreatePaymentLinkWithSession
  <2>4. drawn' \in [Sessions -> Int]
    BY <1>3, <2>3, DrawnType DEF CreatePaymentLinkWithSession
  <2>5. lamports' \in [Accounts -> Nat]
    BY <1>2, <1>3, RentPaidType DEF CreatePaymentLinkWithSession, TypeOK
  <2>6. link' \in [Links -> LinkRecords]
    BY <1>3, <2>1, NewLinkType DEF CreatePaymentLinkWithSession, TypeOK
  <2> QED
    BY <1>3, <2>2, <2>3, <2>4, <2>5, <2>6
    DEF CreatePaymentLinkWithSession, TypeOK
<1>4. ASSUME NEW signer \in Signers, NEW r \in Vaults,
             ClaimPaymentLink(l, signer, r)
      PROVE  TypeOK'
  <2>1. usdc' \in [Accounts -> Nat] /\ released' \in [Links -> Int]
    BY <1>4, UsdcSettlementTypes DEF ClaimPaymentLink
  <2>2. link' \in [Links -> LinkRecords]
    BY <1>2, <1>4, SettledLinkType DEF ClaimPaymentLink
  <2> QED
    BY <1>4, <2>1, <2>2 DEF ClaimPaymentLink, TypeOK
<1>5. ASSUME NEW k \in SessionKeys, NEW n \in Nonces,
             CancelPaymentLinkWithSession(l, k, n)
      PROVE  TypeOK'
  <2>1. usdc' \in [Accounts -> Nat] /\ released' \in [Links -> Int]
    BY <1>5, UsdcSettlementTypes DEF CancelPaymentLinkWithSession, CanTransfer
  <2>2. link' \in [Links -> LinkRecords]
    BY <1>2, <1>5, SettledLinkType DEF CancelPaymentLinkWithSession
  <2>3. session' \in [Sessions -> SessionRecords]
    <3>1. session[<<l[1], k>>] \in SessionRecords
      BY DEF TypeOK
    <3>2. session[<<l[1], k>>].nonce + 1 \in Nonces
      BY <1>5, <3>1, ConstantsAssumption
      DEF CancelPaymentLinkWithSession, SessionUsable, SessionRecords, Nonces
    <3> QED
      BY <1>5, <3>1, <3>2 DEF CancelPaymentLinkWithSession, TypeOK, SessionRecords
  <2> QED
    BY <1>5, <2>1, <2>2, <2>3 DEF CancelPaymentLinkWithSession, TypeOK
<1>6. ASSUME RefundExpiredPaymentLink(l)
      PROVE  TypeOK'
  <2>1. usdc' \in [Accounts -> Nat] /\ released' \in [Links -> Int]
    BY <1>6, UsdcSettlementTypes DEF RefundExpiredPaymentLink, CanTransfer
  <2>2. link' \in [Links -> LinkRecords]
    BY <1>2, <1>6, SettledLinkType DEF RefundExpiredPaymentLink
  <2> QED
    BY <1>6, <2>1, <2>2 DEF RefundExpiredPaymentLink, TypeOK
<1>7. ASSUME NEW amount \in SolAmounts, NEW t \in Times, NEW n \in Nonces,
             CreateSolPaymentLinkWithPasskey(l, amount, t, n)
      PROVE  TypeOK'
  <2>1. amount \in Nat
    BY ConstantsAssumption
  <2>2. vault' \in [Vaults -> [exists : BOOLEAN, nonce : Nonces]]
    BY <1>7, ConsumeVaultNonceType DEF CreateSolPaymentLinkWithPasskey
  <2>3. executed' \subseteq Authorizations
    BY <1>7 DEF CreateSolPaymentLinkWithPasskey, Record, Authorizations, RootActions, TypeOK
  <2>4. link' \in [Links -> LinkRecords]
    BY <1>7, <2>1, NewLinkType DEF CreateSolPaymentLinkWithPasskey, TypeOK
  <2>5. RentPaid(l, RentLink) \in [Accounts -> Nat]
    BY <1>2, <1>7, RentPaidType DEF CreateSolPaymentLinkWithPasskey, TypeOK
  <2>6. RentPaid(l, RentLink)[l[1]] = lamports[l[1]]
    BY DEF RentPaid, Moved, TypeOK
  <2>7. lamports[l[1]] >= amount
    BY <1>2, <1>7, <2>1 DEF CreateSolPaymentLinkWithPasskey, TypeOK
  <2>8. lamports' \in [Accounts -> Nat]
    BY <1>7, <2>1, <2>5, <2>6, <2>7, MovedType DEF CreateSolPaymentLinkWithPasskey
  <2> QED
    BY <1>7, <2>2, <2>3, <2>4, <2>8 DEF CreateSolPaymentLinkWithPasskey, TypeOK
<1>8. ASSUME NEW signer \in Signers, NEW r \in Vaults,
             ClaimSolPaymentLink(l, signer, r)
      PROVE  TypeOK'
  <2>1. lamports' \in [Accounts -> Nat] /\ released' \in [Links -> Int]
    BY <1>8, SolSettlementTypes DEF ClaimSolPaymentLink
  <2>2. link' \in [Links -> LinkRecords]
    BY <1>2, <1>8, SettledLinkType DEF ClaimSolPaymentLink
  <2> QED
    BY <1>8, <2>1, <2>2 DEF ClaimSolPaymentLink, TypeOK
<1>9. ASSUME NEW n \in Nonces, CancelSolPaymentLinkWithPasskey(l, n)
      PROVE  TypeOK'
  <2>1. lamports' \in [Accounts -> Nat] /\ released' \in [Links -> Int]
    BY <1>9, SolSettlementTypes DEF CancelSolPaymentLinkWithPasskey
  <2>2. link' \in [Links -> LinkRecords]
    BY <1>2, <1>9, SettledLinkType DEF CancelSolPaymentLinkWithPasskey
  <2>3. vault' \in [Vaults -> [exists : BOOLEAN, nonce : Nonces]]
    BY <1>9, ConsumeVaultNonceType DEF CancelSolPaymentLinkWithPasskey
  <2>4. executed' \subseteq Authorizations
    BY <1>9 DEF CancelSolPaymentLinkWithPasskey, Record, Authorizations, RootActions, TypeOK
  <2> QED
    BY <1>9, <2>1, <2>2, <2>3, <2>4 DEF CancelSolPaymentLinkWithPasskey, TypeOK
<1>10. ASSUME RefundExpiredSolPaymentLink(l)
       PROVE  TypeOK'
  <2>1. lamports' \in [Accounts -> Nat] /\ released' \in [Links -> Int]
    BY <1>10, SolSettlementTypes DEF RefundExpiredSolPaymentLink
  <2>2. link' \in [Links -> LinkRecords]
    BY <1>2, <1>10, SettledLinkType DEF RefundExpiredSolPaymentLink
  <2> QED
    BY <1>10, <2>1, <2>2 DEF RefundExpiredSolPaymentLink, TypeOK
<1> QED
  BY <1>1, <1>3, <1>4, <1>5, <1>6, <1>7, <1>8, <1>9, <1>10

\* Deposits, new token accounts and the clock keep TypeOK.
LEMMA TypeOKEnvironment ==
  ASSUME TypeOK, Environment
  PROVE  TypeOK'
<1> USE AccountsFacts
<1>1. ASSUME NEW a \in Vaults \cup Links, OpenTokenAccount(a)
      PROVE  TypeOK'
  BY <1>1 DEF OpenTokenAccount, TypeOK, history
<1>2. ASSUME NEW a \in Vaults \cup Links, NEW amount \in Amounts,
             DepositUsdc(a, amount)
      PROVE  TypeOK'
  <2>1. usdc' \in [Accounts -> Nat]
    BY <1>2, MovedUsdcType, ConstantsAssumption DEF DepositUsdc, CanTransfer
  <2> QED
    BY <1>2, <2>1 DEF DepositUsdc, TypeOK, history
<1>3. ASSUME NEW a \in Vaults \cup Links, NEW amount \in SolAmounts,
             DepositSol(a, amount)
      PROVE  TypeOK'
  <2>1. lamports' \in [Accounts -> Nat]
    BY <1>3, MovedLamportsType, ConstantsAssumption DEF DepositSol
  <2> QED
    BY <1>3, <2>1 DEF DepositSol, TypeOK, history
<1>4. CASE Tick
  BY <1>4, ConstantsAssumption DEF Tick, TypeOK, history, Times
<1> QED
  BY <1>1, <1>2, <1>3, <1>4 DEF Environment

LEMMA TypeOKStep == TypeOK /\ [Next]_vars => TypeOK'
<1>1. TypeOK /\ Next => TypeOK'
  BY TypeOKWallet, TypeOKLinks, TypeOKEnvironment DEF Next
<1>2. TypeOK /\ UNCHANGED vars => TypeOK'
  BY DEF TypeOK, vars
<1> QED
  BY <1>1, <1>2

\* Every reachable state of the program is well typed: no balance, spend
\* counter or nonce ever leaves its range, whatever instructions are sent.
THEOREM TypeCorrect == Spec => []TypeOK
BY TypeOKInit, TypeOKStep, PTL DEF Spec

-----------------------------------------------------------------------------
(* Escrows.  What matters of a step, for a link it is not about, is that   *)
(* it leaves the link alone and takes nothing from its escrow.             *)

LEMMA MovedValues ==
  ASSUME NEW balance \in [Accounts -> Nat], NEW from \in Accounts,
         NEW to \in Accounts, NEW amount \in Nat, from # to
  PROVE  /\ Moved(balance, from, to, amount)[from] = balance[from] - amount
         /\ Moved(balance, from, to, amount)[to] = balance[to] + amount
         /\ \A a \in Accounts \ {from, to} :
              Moved(balance, from, to, amount)[a] = balance[a]
         /\ \A a \in Accounts \ {from} :
              Moved(balance, from, to, amount)[a] >= balance[a]
BY DEF Moved

\* Into and out of an escrow: the other escrows lose nothing.
LEMMA EscrowMoves ==
  ASSUME NEW balance \in [Accounts -> Nat], NEW l \in Links, NEW v,
         v \in Vaults, NEW amount \in Nat
  PROVE  /\ Moved(balance, l, v, amount)[l] = balance[l] - amount
         /\ \A a \in Accounts \ {l} :
              Moved(balance, l, v, amount)[a] >= balance[a]
         /\ Moved(balance, v, l, amount)[l] = balance[l] + amount
         /\ \A a \in Accounts \ {v} :
              Moved(balance, v, l, amount)[a] >= balance[a]
<1>1. l \in Accounts /\ v \in Accounts /\ l # v
  BY AccountsFacts
<1> QED
  BY <1>1, MovedValues

\* Rent is paid by an account outside the program.
LEMMA RentPaidValues ==
  ASSUME TypeOK, NEW a \in Accounts \ {Outside}, NEW rent \in Nat
  PROVE  /\ RentPaid(a, rent)[a] >= rent
         /\ \A b \in Accounts \ {Outside} : RentPaid(a, rent)[b] >= lamports[b]
         /\ \A b \in Accounts \ {Outside, a} : RentPaid(a, rent)[b] = lamports[b]
<1>1. lamports \in [Accounts -> Nat] /\ Outside \in Accounts
  BY AccountsFacts DEF TypeOK
<1>2. Missing(a, rent) \in Nat /\ lamports[a] + Missing(a, rent) >= rent
  BY <1>1 DEF Missing
<1> QED
  BY <1>1, <1>2, MovedValues DEF RentPaid

\* What a step does to a link m that it does not create or settle.
Undisturbed(m) ==
  /\ link'[m] = link[m]
  /\ released'[m] = released[m]
  /\ usdc'[m] >= usdc[m]
  /\ lamports'[m] >= lamports[m]
  /\ m \in tokenAccounts => m \in tokenAccounts'

LEMMA UndisturbedBacked ==
  ASSUME TypeOK, TypeOK', NEW m \in Links, Backed(m), Undisturbed(m)
  PROVE  Backed(m)'
<1>1. /\ m \in Accounts /\ link[m].amount \in Nat /\ RentLink \in Nat
      /\ usdc[m] \in Nat /\ usdc'[m] \in Nat
      /\ lamports[m] \in Nat /\ lamports'[m] \in Nat
  BY AccountsFacts, ConstantsAssumption DEF TypeOK, LinkRecords
<1> QED
  BY <1>1 DEF Backed, Undisturbed

\* Administration, wallet instructions, deposits and the clock disturb no
\* link: they debit only a vault or an outside account.
LEMMA OtherStepsUndisturbed ==
  ASSUME TypeOK, Administration \/ WalletInstructions \/ Environment,
         NEW m \in Links
  PROVE  Undisturbed(m)
<1> USE AccountsFacts
<1>0. /\ usdc \in [Accounts -> Nat] /\ lamports \in [Accounts -> Nat]
      /\ m \in Accounts \ {Outside} /\ RentVault \in Nat
      /\ Amounts \subseteq Nat /\ SolAmounts \subseteq Nat
      /\ usdc[m] >= usdc[m] /\ lamports[m] >= lamports[m]
  BY ConstantsAssumption DEF TypeOK
<1>1. ASSUME NEW a \in Signers, InitializeProtocol(a)
      PROVE  Undisturbed(m)
  BY <1>0, <1>1 DEF InitializeProtocol, Undisturbed, history
<1>2. ASSUME NEW signer \in Signers, NEW a \in Signers,
             InitializeClaimAuthority(signer, a)
      PROVE  Undisturbed(m)
  BY <1>0, <1>2 DEF InitializeClaimAuthority, Undisturbed, history
<1>3. ASSUME NEW v \in Vaults, InitializeVault(v)
      PROVE  Undisturbed(m)
  <2>1. lamports'[m] >= lamports[m]
    BY <1>0, <1>3, RentPaidValues DEF InitializeVault
  <2> QED
    BY <1>0, <1>3, <2>1 DEF InitializeVault, Undisturbed
<1>4. ASSUME NEW v \in Vaults, NEW k \in SessionKeys, NEW p \in Policies,
             InitializeVaultAndGrantSession(v, k, p)
      PROVE  Undisturbed(m)
  <2>1. lamports'[m] >= lamports[m]
    BY <1>0, <1>4, RentPaidValues DEF InitializeVaultAndGrantSession
  <2> QED
    BY <1>0, <1>4, <2>1 DEF InitializeVaultAndGrantSession, Undisturbed
<1>5. ASSUME NEW v \in Vaults, NEW k \in SessionKeys, NEW p \in Policies,
             NEW n \in Nonces, GrantSession(v, k, p, n)
      PROVE  Undisturbed(m)
  BY <1>0, <1>5 DEF GrantSession, Undisturbed
<1>6. ASSUME NEW v \in Vaults, NEW to \in Accounts, NEW amount \in Amounts,
             NEW n \in Nonces, TransferWithPasskey(v, to, amount, n)
      PROVE  Undisturbed(m)
  <2>0. v \in Accounts /\ v # m /\ v # to /\ amount \in Nat
    BY <1>0, <1>6 DEF TransferWithPasskey
  <2>1. usdc'[m] >= usdc[m]
    BY <1>0, <1>6, <2>0, MovedValues DEF TransferWithPasskey
  <2> QED
    BY <1>0, <1>6, <2>1 DEF TransferWithPasskey, Undisturbed
<1>7. ASSUME NEW v \in Vaults, NEW k \in SessionKeys, NEW to \in Accounts,
             NEW amount \in Amounts, NEW n \in Nonces,
             TransferWithSession(v, k, to, amount, n)
      PROVE  Undisturbed(m)
  <2>0. v \in Accounts /\ v # m /\ v # to /\ amount \in Nat
    BY <1>0, <1>7 DEF TransferWithSession
  <2>1. usdc'[m] >= usdc[m]
    BY <1>0, <1>7, <2>0, MovedValues DEF TransferWithSession
  <2> QED
    BY <1>0, <1>7, <2>1 DEF TransferWithSession, Undisturbed
<1>8. ASSUME NEW v \in Vaults, NEW to \in Accounts, NEW amount \in SolAmounts,
             NEW n \in Nonces, TransferSolWithPasskey(v, to, amount, n)
      PROVE  Undisturbed(m)
  <2>0. v \in Accounts /\ v # m /\ v # to /\ amount \in Nat
    BY <1>0, <1>8 DEF TransferSolWithPasskey
  <2>1. lamports'[m] >= lamports[m]
    BY <1>0, <1>8, <2>0, MovedValues DEF TransferSolWithPasskey
  <2> QED
    BY <1>0, <1>8, <2>1 DEF TransferSolWithPasskey, Undisturbed
<1>9. ASSUME NEW a \in Vaults \cup Links, OpenTokenAccount(a)
      PROVE  Undisturbed(m)
  BY <1>0, <1>9 DEF OpenTokenAccount, Undisturbed, history
<1>10. ASSUME NEW a \in Vaults \cup Links, NEW amount \in Amounts,
              DepositUsdc(a, amount)
       PROVE  Undisturbed(m)
  <2>1. usdc'[m] >= usdc[m]
    BY <1>0, <1>10, MovedValues DEF DepositUsdc
  <2> QED
    BY <1>0, <1>10, <2>1 DEF DepositUsdc, Undisturbed, history
<1>11. ASSUME NEW a \in Vaults \cup Links, NEW amount \in SolAmounts,
              DepositSol(a, amount)
       PROVE  Undisturbed(m)
  <2>1. lamports'[m] >= lamports[m]
    BY <1>0, <1>11, MovedValues DEF DepositSol
  <2> QED
    BY <1>0, <1>11, <2>1 DEF DepositSol, Undisturbed, history
<1>12. CASE Tick
  BY <1>0, <1>12 DEF Tick, Undisturbed, history
<1> QED
  BY <1>1, <1>2, <1>3, <1>4, <1>5, <1>6, <1>7, <1>8, <1>9, <1>10, <1>11, <1>12
  DEF Administration, WalletInstructions, Environment

\* A link is created: its escrow is funded and nothing was released.
Opened(l) ==
  /\ link[l].status = "NONE" /\ link'[l].status = "ACTIVE"
  /\ released'[l] = released[l]
  /\ Backed(l)'

\* A link is settled: exactly its amount leaves its escrow.
Paid(l) ==
  /\ link[l].status = "ACTIVE" /\ link'[l].status \in SettledStatuses
  /\ link'[l].amount = link[l].amount
  /\ released'[l] = released[l] + link[l].amount

\* A payment-link instruction opens or settles one link and disturbs no other.
LEMMA LinkStepEffect ==
  ASSUME TypeOK, TypeOK', LinkInstructions
  PROVE  \E l \in Links : /\ Opened(l) \/ Paid(l)
                          /\ \A m \in Links \ {l} : Undisturbed(m)
<1> USE AccountsFacts
<1>a. PICK l \in Links :
        \/ \E k \in SessionKeys, amount \in Amounts, t \in Times, n \in Nonces :
             CreatePaymentLinkWithSession(l, k, amount, t, n)
        \/ \E signer \in Signers, r \in Vaults : ClaimPaymentLink(l, signer, r)
        \/ \E k \in SessionKeys, n \in Nonces : CancelPaymentLinkWithSession(l, k, n)
        \/ RefundExpiredPaymentLink(l)
        \/ \E amount \in SolAmounts, t \in Times, n \in Nonces :
             CreateSolPaymentLinkWithPasskey(l, amount, t, n)
        \/ \E signer \in Signers, r \in Vaults : ClaimSolPaymentLink(l, signer, r)
        \/ \E n \in Nonces : CancelSolPaymentLinkWithPasskey(l, n)
        \/ RefundExpiredSolPaymentLink(l)
  BY DEF LinkInstructions
<1> DEFINE Goal == /\ Opened(l) \/ Paid(l)
                   /\ \A m \in Links \ {l} : Undisturbed(m)
<1>0. /\ usdc \in [Accounts -> Nat] /\ lamports \in [Accounts -> Nat]
      /\ released \in [Links -> Int] /\ RentLink \in Nat /\ RentVault \in Nat
      /\ l \in Accounts \ {Outside} /\ l[1] \in Accounts /\ l # l[1]
      /\ link[l] \in LinkRecords /\ link[l].amount \in Nat
      /\ \A r \in Vaults : r \in Accounts /\ r # l
      /\ \A m \in Links : /\ m \in Accounts /\ m # Outside
                          /\ usdc[m] >= usdc[m] /\ lamports[m] >= lamports[m]
      /\ Amounts \subseteq Nat /\ SolAmounts \subseteq Nat
  BY ConstantsAssumption DEF TypeOK, LinkRecords
<1>1. ASSUME NEW k \in SessionKeys, NEW amount \in Amounts, NEW t \in Times,
             NEW n \in Nonces, CreatePaymentLinkWithSession(l, k, amount, t, n)
      PROVE  Goal
  <2>0. usdc' = Moved(usdc, l[1], l, amount) /\ amount \in Nat /\ l[1] \in Vaults
    BY <1>0, <1>1 DEF CreatePaymentLinkWithSession
  <2>a. /\ usdc'[l] = usdc[l] + amount
        /\ \A a \in Accounts \ {l[1]} : usdc'[a] >= usdc[a]
    BY <1>0, <2>0, EscrowMoves
  <2>1. usdc'[l] >= amount /\ \A a \in Links : usdc'[a] >= usdc[a]
    BY <1>0, <2>0, <2>a
  <2>2. \A a \in Links : lamports'[a] >= lamports[a]
    BY <1>0, <1>1, RentPaidValues DEF CreatePaymentLinkWithSession
  <2>3. link'[l] = NewLink(FALSE, amount, t)
    BY <1>1 DEF CreatePaymentLinkWithSession, TypeOK
  <2>4. Opened(l)
    BY <1>1, <2>1, <2>3 DEF CreatePaymentLinkWithSession, Opened, Backed, NewLink
  <2>5. \A m \in Links \ {l} : Undisturbed(m)
    BY <1>1, <2>1, <2>2 DEF CreatePaymentLinkWithSession, Undisturbed, TypeOK
  <2> QED
    BY <2>4, <2>5
<1>2. ASSUME NEW amount \in SolAmounts, NEW t \in Times, NEW n \in Nonces,
             CreateSolPaymentLinkWithPasskey(l, amount, t, n)
      PROVE  Goal
  <2> DEFINE funded == RentPaid(l, RentLink)
  <2>1. /\ funded \in [Accounts -> Nat] /\ funded[l] >= RentLink
        /\ \A a \in Links : funded[a] >= lamports[a]
    BY <1>0, <1>2, RentPaidType, RentPaidValues DEF CreateSolPaymentLinkWithPasskey
  <2>2. lamports' = Moved(funded, l[1], l, amount) /\ amount \in Nat
    BY <1>0, <1>2 DEF CreateSolPaymentLinkWithPasskey
  <2>3. lamports'[l] = funded[l] + amount
        /\ \A a \in Accounts \ {l[1]} : lamports'[a] >= funded[a]
    BY <1>0, <2>1, <2>2, EscrowMoves
  <2>4. /\ lamports'[l] >= RentLink + amount
        /\ \A a \in Links : lamports'[a] >= lamports[a]
    <3>1. ASSUME NEW a \in Links PROVE lamports'[a] >= lamports[a]
      <4>1. /\ lamports[a] \in Nat /\ funded[a] \in Nat /\ lamports'[a] \in Nat
            /\ a \in Accounts \ {l[1]}
        BY <1>0, <2>1 DEF TypeOK
      <4> QED
        BY <2>1, <2>3, <4>1
    <3>2. lamports'[l] >= RentLink + amount
      BY <1>0, <2>1, <2>2, <2>3
    <3> QED
      BY <3>1, <3>2
  <2>5. link'[l] = NewLink(TRUE, amount, t)
    BY <1>2 DEF CreateSolPaymentLinkWithPasskey, TypeOK
  <2>6. Opened(l)
    BY <1>2, <2>4, <2>5 DEF CreateSolPaymentLinkWithPasskey, Opened, Backed, NewLink
  <2>7. \A m \in Links \ {l} : Undisturbed(m)
    BY <1>0, <1>2, <2>4 DEF CreateSolPaymentLinkWithPasskey, Undisturbed, TypeOK
  <2> QED
    BY <2>6, <2>7
<1>3. ASSUME NEW signer \in Signers, NEW r \in Vaults,
             ClaimPaymentLink(l, signer, r)
      PROVE  Goal
  <2>1. usdc' = Moved(usdc, l, r, link[l].amount) /\ ReleasedUsdc(l)
    BY <1>3 DEF ClaimPaymentLink
  <2>2. /\ usdc'[l] = usdc[l] - link[l].amount
        /\ \A a \in Accounts \ {l} : usdc'[a] >= usdc[a]
    BY <1>0, <2>1, EscrowMoves
  <2>3. link' = [link EXCEPT ![l].status = "CLAIMED",
                                ![l].claimed_destination = r]
    BY <1>3 DEF ClaimPaymentLink
  <2>4. Paid(l)
    BY <1>0, <1>3, <2>1, <2>2, <2>3
    DEF ClaimPaymentLink, ReleasedUsdc, Paid, TypeOK, SettledStatuses
  <2>5. \A m \in Links \ {l} : Undisturbed(m)
    BY <1>0, <1>3, <2>1, <2>2, <2>3
    DEF ClaimPaymentLink, ReleasedUsdc, Undisturbed, TypeOK
  <2> QED
    BY <2>4, <2>5
<1>4. ASSUME NEW k \in SessionKeys, NEW n \in Nonces,
             CancelPaymentLinkWithSession(l, k, n)
      PROVE  Goal
  <2>1. usdc' = Moved(usdc, l, l[1], link[l].amount) /\ ReleasedUsdc(l)
    BY <1>4 DEF CancelPaymentLinkWithSession
  <2>2. /\ usdc'[l] = usdc[l] - link[l].amount
        /\ \A a \in Accounts \ {l} : usdc'[a] >= usdc[a]
    BY <1>0, <2>1, EscrowMoves
  <2>3. link' = [link EXCEPT ![l].status = "CANCELLED"]
    BY <1>4 DEF CancelPaymentLinkWithSession
  <2>4. Paid(l)
    BY <1>0, <1>4, <2>1, <2>2, <2>3
    DEF CancelPaymentLinkWithSession, ReleasedUsdc, Paid, TypeOK, SettledStatuses
  <2>5. \A m \in Links \ {l} : Undisturbed(m)
    BY <1>0, <1>4, <2>1, <2>2, <2>3
    DEF CancelPaymentLinkWithSession, ReleasedUsdc, Undisturbed, TypeOK
  <2> QED
    BY <2>4, <2>5
<1>5. ASSUME RefundExpiredPaymentLink(l)
      PROVE  Goal
  <2>1. usdc' = Moved(usdc, l, l[1], link[l].amount) /\ ReleasedUsdc(l)
    BY <1>5 DEF RefundExpiredPaymentLink
  <2>2. /\ usdc'[l] = usdc[l] - link[l].amount
        /\ \A a \in Accounts \ {l} : usdc'[a] >= usdc[a]
    BY <1>0, <2>1, EscrowMoves
  <2>3. link' = [link EXCEPT ![l].status = "REFUNDED"]
    BY <1>5 DEF RefundExpiredPaymentLink
  <2>4. Paid(l)
    BY <1>0, <1>5, <2>1, <2>2, <2>3
    DEF RefundExpiredPaymentLink, ReleasedUsdc, Paid, TypeOK, SettledStatuses
  <2>5. \A m \in Links \ {l} : Undisturbed(m)
    BY <1>0, <1>5, <2>1, <2>2, <2>3
    DEF RefundExpiredPaymentLink, ReleasedUsdc, Undisturbed, TypeOK
  <2> QED
    BY <2>4, <2>5
<1>6. ASSUME NEW signer \in Signers, NEW r \in Vaults,
             ClaimSolPaymentLink(l, signer, r)
      PROVE  Goal
  <2>1. lamports' = Moved(lamports, l, r, link[l].amount) /\ ReleasedLamports(l)
    BY <1>6 DEF ClaimSolPaymentLink
  <2>2. /\ lamports'[l] = lamports[l] - link[l].amount
        /\ \A a \in Accounts \ {l} : lamports'[a] >= lamports[a]
    BY <1>0, <2>1, EscrowMoves
  <2>3. link' = [link EXCEPT ![l].status = "CLAIMED",
                                ![l].claimed_destination = r]
    BY <1>6 DEF ClaimSolPaymentLink
  <2>4. Paid(l)
    BY <1>0, <1>6, <2>1, <2>2, <2>3
    DEF ClaimSolPaymentLink, ReleasedLamports, Paid, TypeOK, SettledStatuses
  <2>5. \A m \in Links \ {l} : Undisturbed(m)
    BY <1>0, <1>6, <2>1, <2>2, <2>3
    DEF ClaimSolPaymentLink, ReleasedLamports, Undisturbed, TypeOK
  <2> QED
    BY <2>4, <2>5
<1>7. ASSUME NEW n \in Nonces, CancelSolPaymentLinkWithPasskey(l, n)
      PROVE  Goal
  <2>1. lamports' = Moved(lamports, l, l[1], link[l].amount) /\ ReleasedLamports(l)
    BY <1>7 DEF CancelSolPaymentLinkWithPasskey
  <2>2. /\ lamports'[l] = lamports[l] - link[l].amount
        /\ \A a \in Accounts \ {l} : lamports'[a] >= lamports[a]
    BY <1>0, <2>1, EscrowMoves
  <2>3. link' = [link EXCEPT ![l].status = "CANCELLED"]
    BY <1>7 DEF CancelSolPaymentLinkWithPasskey
  <2>4. Paid(l)
    BY <1>0, <1>7, <2>1, <2>2, <2>3
    DEF CancelSolPaymentLinkWithPasskey, ReleasedLamports, Paid, TypeOK, SettledStatuses
  <2>5. \A m \in Links \ {l} : Undisturbed(m)
    BY <1>0, <1>7, <2>1, <2>2, <2>3
    DEF CancelSolPaymentLinkWithPasskey, ReleasedLamports, Undisturbed, TypeOK
  <2> QED
    BY <2>4, <2>5
<1>8. ASSUME RefundExpiredSolPaymentLink(l)
      PROVE  Goal
  <2>1. lamports' = Moved(lamports, l, l[1], link[l].amount) /\ ReleasedLamports(l)
    BY <1>8 DEF RefundExpiredSolPaymentLink
  <2>2. /\ lamports'[l] = lamports[l] - link[l].amount
        /\ \A a \in Accounts \ {l} : lamports'[a] >= lamports[a]
    BY <1>0, <2>1, EscrowMoves
  <2>3. link' = [link EXCEPT ![l].status = "REFUNDED"]
    BY <1>8 DEF RefundExpiredSolPaymentLink
  <2>4. Paid(l)
    BY <1>0, <1>8, <2>1, <2>2, <2>3
    DEF RefundExpiredSolPaymentLink, ReleasedLamports, Paid, TypeOK, SettledStatuses
  <2>5. \A m \in Links \ {l} : Undisturbed(m)
    BY <1>0, <1>8, <2>1, <2>2, <2>3
    DEF RefundExpiredSolPaymentLink, ReleasedLamports, Undisturbed, TypeOK
  <2> QED
    BY <2>4, <2>5
<1> QED
  BY <1>a, <1>1, <1>2, <1>3, <1>4, <1>5, <1>6, <1>7, <1>8

EscrowInv == EscrowBacked /\ ReleasedExactlyOnce

LEMMA EscrowInvInit == Init => EscrowInv
BY DEF Init, EscrowInv, EscrowBacked, Backed, ReleasedExactlyOnce, NoLink,
       SettledStatuses

LEMMA EscrowInvStep ==
  TypeOK /\ TypeOK' /\ EscrowInv /\ [Next]_vars => EscrowInv'
<1> SUFFICES ASSUME TypeOK, TypeOK', EscrowInv, [Next]_vars
             PROVE  EscrowInv'
  OBVIOUS
<1>0. ASSUME NEW m \in Links
      PROVE  Backed(m) /\ released[m] \in Int /\ link[m].amount \in Nat
  BY DEF TypeOK, LinkRecords, EscrowInv, EscrowBacked
<1>1. ASSUME NEW m \in Links, Undisturbed(m)
      PROVE  /\ Backed(m)'
             /\ released'[m] = IF link'[m].status \in SettledStatuses
                                 THEN link'[m].amount ELSE 0
  <2>1. Backed(m)'
    BY <1>0, <1>1, UndisturbedBacked
  <2> QED
    BY <1>1, <2>1 DEF Undisturbed, EscrowInv, ReleasedExactlyOnce
<1>2. CASE LinkInstructions
  <2>1. PICK l \in Links : /\ Opened(l) \/ Paid(l)
                           /\ \A m \in Links \ {l} : Undisturbed(m)
    BY <1>2, LinkStepEffect
  <2>2. CASE Opened(l)
    <3>1. released'[l] = 0 /\ Backed(l)' /\ link'[l].status \notin SettledStatuses
      BY <2>2 DEF Opened, EscrowInv, ReleasedExactlyOnce, SettledStatuses
    <3> QED
      BY <1>1, <2>1, <3>1 DEF EscrowInv, EscrowBacked, ReleasedExactlyOnce
  <2>3. CASE Paid(l)
    <3>1. released[l] = 0
      BY <2>3 DEF Paid, EscrowInv, ReleasedExactlyOnce, SettledStatuses
    <3>2. /\ released'[l] = link'[l].amount
          /\ link'[l].status \in SettledStatuses
      BY <1>0, <2>3, <3>1 DEF Paid
    <3>3. Backed(l)'
      BY <2>3 DEF Paid, Backed, SettledStatuses
    <3> QED
      BY <1>1, <2>1, <3>2, <3>3 DEF EscrowInv, EscrowBacked, ReleasedExactlyOnce
  <2> QED
    BY <2>1, <2>2, <2>3
<1>3. CASE Administration \/ WalletInstructions \/ Environment
  BY <1>1, <1>3, OtherStepsUndisturbed
  DEF EscrowInv, EscrowBacked, ReleasedExactlyOnce
<1>4. CASE UNCHANGED vars
  BY <1>4 DEF vars, EscrowInv, EscrowBacked, Backed, ReleasedExactlyOnce
<1> QED
  BY <1>2, <1>3, <1>4 DEF Next

\* For every number of links and parties: an active link is always backed
\* by its own escrow, and a settled link has paid exactly its amount.
THEOREM EscrowSafe == Spec => [](EscrowBacked /\ ReleasedExactlyOnce)
<1>1. Spec => []EscrowInv
  BY EscrowInvInit, EscrowInvStep, TypeCorrect, PTL DEF Spec
<1> QED
  BY <1>1, PTL DEF EscrowInv

\* A link pays once and all of it, whichever of claim, cancel and refund comes
\* first (payment_links.rs, the status checks of the settling instructions).
THEOREM PaysOnce == Spec => []ReleasedExactlyOnce
BY EscrowSafe, PTL

-----------------------------------------------------------------------------
(* Sessions.  SessionWithinLimit is not inductive: that what left the      *)
(* vault is what the account says was spent, and that a key not granted    *)
(* yet has spent nothing, must be known too.                               *)

SessionAccounted(s) ==
  /\ drawn[s] = session[s].spent
  /\ session[s].spent <= session[s].cumulative_limit
  /\ ~session[s].exists => session[s].spent = 0

SessionInv == \A s \in Sessions : SessionAccounted(s)

\* What a step may do to one session.
SessionKept(s) ==
  /\ drawn'[s] = drawn[s]
  /\ session'[s].spent = session[s].spent
  /\ session'[s].cumulative_limit = session[s].cumulative_limit
  /\ session'[s].exists = session[s].exists

SessionGranted(s) ==
  /\ ~session[s].exists /\ drawn'[s] = drawn[s]
  /\ session'[s].exists /\ session'[s].spent = 0
  /\ session'[s].cumulative_limit \in Nat

SessionSpent(s) ==
  /\ session[s].exists /\ session'[s].exists
  /\ session'[s].cumulative_limit = session[s].cumulative_limit
  /\ session'[s].spent <= session[s].cumulative_limit
  /\ session'[s].spent - session[s].spent = drawn'[s] - drawn[s]

LEMMA SessionEffect ==
  ASSUME TypeOK, NEW s \in Sessions, SessionAccounted(s),
         SessionKept(s) \/ SessionGranted(s) \/ SessionSpent(s),
         TypeOK'
  PROVE  SessionAccounted(s)'
<1>1. /\ drawn[s] \in Int /\ drawn'[s] \in Int
      /\ session[s].spent \in Int /\ session'[s].spent \in Int
      /\ session[s].cumulative_limit \in Int
  BY DEF TypeOK, SessionRecords, U64
<1> QED
  BY <1>1 DEF SessionAccounted, SessionKept, SessionGranted, SessionSpent

\* Granting writes one session that did not exist.
LEMMA GrantEffect ==
  ASSUME TypeOK, NEW s \in Sessions, NEW p \in Policies, ~session[s].exists,
         session' = [session EXCEPT ![s] = WriteSession(p)], drawn' = drawn,
         NEW q \in Sessions
  PROVE  SessionKept(q) \/ SessionGranted(q)
<1>1. p.cumulative_limit \in Nat
  BY ConstantsAssumption DEF U64
<1>2. CASE q = s
  BY <1>1, <1>2 DEF SessionGranted, WriteSession, TypeOK
<1>3. CASE q # s
  BY <1>3 DEF SessionKept, TypeOK
<1> QED
  BY <1>2, <1>3

\* Spending takes from the vault what it adds to the spend counter.
LEMMA SpendEffect ==
  ASSUME TypeOK, NEW v \in Vaults, NEW k \in SessionKeys, NEW to \in Accounts,
         NEW amount \in Nat, NEW n \in Nonces, to # v,
         SessionUsable(<<v, k>>, n), WithinSessionLimits(<<v, k>>, amount),
         SpendFromSession(<<v, k>>, amount),
         usdc' = Moved(usdc, v, to, amount), DrawnBy(<<v, k>>),
         NEW q \in Sessions
  PROVE  SessionKept(q) \/ SessionSpent(q)
<1> DEFINE s == <<v, k>>
<1>1. /\ s \in Sessions /\ s[1] = v /\ v \in Accounts /\ usdc \in [Accounts -> Nat]
      /\ usdc[v] \in Nat /\ drawn[s] \in Int /\ session[s].spent \in Int
  BY AccountsFacts DEF TypeOK, SessionRecords, U64
<1>2. usdc'[v] = usdc[v] - amount
  BY <1>1, MovedValues
<1>3. CASE q = s
  <2>1. drawn'[s] = drawn[s] + amount
    BY <1>1, <1>2 DEF DrawnBy, TypeOK
  <2>2. session'[s] = [session[s] EXCEPT !.spent = @ + amount, !.nonce = @ + 1]
    BY <1>1 DEF SpendFromSession, TypeOK
  <2>3. /\ session'[s].spent = session[s].spent + amount
        /\ session'[s].cumulative_limit = session[s].cumulative_limit
        /\ session'[s].exists = session[s].exists
    BY <1>1, <2>2 DEF TypeOK, SessionRecords
  <2> QED
    BY <1>1, <1>3, <2>1, <2>3 DEF SessionSpent, SessionUsable, WithinSessionLimits
<1>4. CASE q # s
  BY <1>1, <1>4 DEF SessionKept, SpendFromSession, DrawnBy, TypeOK
<1> QED
  BY <1>3, <1>4

LEMMA SessionStep ==
  ASSUME TypeOK, [Next]_vars, NEW q \in Sessions
  PROVE  SessionKept(q) \/ SessionGranted(q) \/ SessionSpent(q)
<1> USE AccountsFacts
<1>0. Amounts \subseteq Nat /\ SolAmounts \subseteq Nat
  BY ConstantsAssumption
<1>1. CASE session' = session /\ drawn' = drawn
  BY <1>1 DEF SessionKept
<1>2. ASSUME NEW v \in Vaults, NEW k \in SessionKeys, NEW p \in Policies,
             InitializeVaultAndGrantSession(v, k, p)
      PROVE  SessionKept(q) \/ SessionGranted(q)
  BY <1>2, GrantEffect DEF InitializeVaultAndGrantSession
<1>3. ASSUME NEW v \in Vaults, NEW k \in SessionKeys, NEW p \in Policies,
             NEW n \in Nonces, GrantSession(v, k, p, n)
      PROVE  SessionKept(q) \/ SessionGranted(q)
  BY <1>3, GrantEffect DEF GrantSession
<1>4. ASSUME NEW v \in Vaults, NEW k \in SessionKeys, NEW to \in Accounts,
             NEW amount \in Amounts, NEW n \in Nonces,
             TransferWithSession(v, k, to, amount, n)
      PROVE  SessionKept(q) \/ SessionSpent(q)
  BY <1>0, <1>4, SpendEffect DEF TransferWithSession
<1>5. ASSUME NEW l \in Links, NEW k \in SessionKeys, NEW amount \in Amounts,
             NEW t \in Times, NEW n \in Nonces,
             CreatePaymentLinkWithSession(l, k, amount, t, n)
      PROVE  SessionKept(q) \/ SessionSpent(q)
  <2>1. PICK v \in Vaults : v = l[1]
    OBVIOUS
  <2>2. l \in Accounts /\ l # v
    BY <2>1
  <2> QED
    BY <1>0, <1>5, <2>1, <2>2, SpendEffect DEF CreatePaymentLinkWithSession
<1>6. ASSUME NEW l \in Links, NEW k \in SessionKeys, NEW n \in Nonces,
             CancelPaymentLinkWithSession(l, k, n)
      PROVE  SessionKept(q)
  <2>1. PICK s \in Sessions : s = <<l[1], k>>
    OBVIOUS
  <2>2. session' = [session EXCEPT ![s].nonce = @ + 1] /\ drawn' = drawn
    BY <1>6, <2>1 DEF CancelPaymentLinkWithSession
  <2>3. session'[q] = session[q] \/ session'[q] = [session[q] EXCEPT !.nonce = @ + 1]
    BY <2>2 DEF TypeOK
  <2> QED
    BY <2>2, <2>3 DEF SessionKept, TypeOK, SessionRecords
<1>7. CASE Administration
  BY <1>1, <1>7 DEF Administration, InitializeProtocol, InitializeClaimAuthority,
                    history
<1>8. CASE WalletInstructions
  BY <1>1, <1>2, <1>3, <1>4, <1>8
  DEF WalletInstructions, InitializeVault, TransferWithPasskey,
      TransferSolWithPasskey
<1>9. CASE LinkInstructions
  <2>1. ASSUME NEW l \in Links,
               \/ \E signer \in Signers, r \in Vaults :
                    \/ ClaimPaymentLink(l, signer, r)
                    \/ ClaimSolPaymentLink(l, signer, r)
               \/ RefundExpiredPaymentLink(l)
               \/ \E amount \in SolAmounts, t \in Times, n \in Nonces :
                    CreateSolPaymentLinkWithPasskey(l, amount, t, n)
               \/ \E n \in Nonces : CancelSolPaymentLinkWithPasskey(l, n)
               \/ RefundExpiredSolPaymentLink(l)
        PROVE  session' = session /\ drawn' = drawn
    BY <2>1
    DEF ClaimPaymentLink, RefundExpiredPaymentLink,
        CreateSolPaymentLinkWithPasskey, ClaimSolPaymentLink,
        CancelSolPaymentLinkWithPasskey, RefundExpiredSolPaymentLink
  <2> QED
    BY <1>1, <1>5, <1>6, <1>9, <2>1 DEF LinkInstructions
<1>10. CASE Environment \/ UNCHANGED vars
  BY <1>1, <1>10
  DEF Environment, OpenTokenAccount, DepositUsdc, DepositSol, Tick, history, vars
<1> QED
  BY <1>7, <1>8, <1>9, <1>10 DEF Next

LEMMA SessionInvInit == Init => SessionInv
BY DEF Init, SessionInv, SessionAccounted, NoSession

\* Whatever a session key signs, and however often links it funded are
\* cancelled and funded again, what leaves the vault under it stays within
\* the cumulative limit of its grant.
THEOREM SessionsBounded == Spec => []SessionWithinLimit
<1>1. TypeOK /\ TypeOK' /\ SessionInv /\ [Next]_vars => SessionInv'
  BY SessionStep, SessionEffect DEF SessionInv
<1>2. Spec => []SessionInv
  BY <1>1, SessionInvInit, TypeCorrect, PTL DEF Spec
<1>3. TypeOK /\ SessionInv => SessionWithinLimit
  BY DEF SessionInv, SessionAccounted, SessionWithinLimit, TypeOK
<1> QED
  BY <1>2, <1>3, TypeCorrect, PTL

-----------------------------------------------------------------------------
(* Passkey authorizations.  The strengthening: a vault that does not exist *)
(* has nonce 0, so the instruction that creates it at nonce 1 consumes     *)
(* nonce 0 for the first time.                                             *)

AuthInv ==
  /\ AuthorizationsExecuteOnce
  /\ \A v \in Vaults : ~vault[v].exists => vault[v].nonce = 0

\* The step consumes the current nonce of v.
Consumes(v, action) ==
  /\ action # "INITIALIZE_VAULT"
  /\ Record(v, action, vault[v].nonce)
  /\ vault'[v].exists
  /\ vault'[v].nonce = vault[v].nonce + 1
  /\ \A w \in Vaults \ {v} : vault'[w] = vault[w]

LEMMA ConsumesKeepsAuthInv ==
  ASSUME TypeOK, AuthInv, NEW v \in Vaults, NEW action \in RootActions,
         Consumes(v, action)
  PROVE  AuthInv'
<1> DEFINE c == [vault |-> v, action |-> action, nonce |-> vault[v].nonce]
<1>0. /\ \A w \in Vaults : vault[w].nonce \in Nat
      /\ \A d \in executed : d.nonce \in Nat
  BY ConstantsAssumption DEF TypeOK, Authorizations, Nonces
<1>1. executed' = executed \cup {c}
  BY DEF Consumes, Record
<1>2. Spends(v)' = Spends(v) \cup {c}
  BY <1>1 DEF Spends, Consumes
<1>3. \A w \in Vaults \ {v} : Spends(w)' = Spends(w)
  BY <1>1 DEF Spends
<1>4. NonceCounts(v)'
  <2>1. /\ \A n \in 0 .. vault[v].nonce - 1 : \E d \in Spends(v) : d.nonce = n
        /\ \A d \in Spends(v) : d.nonce < vault[v].nonce
        /\ \A d, e \in Spends(v) : d.nonce = e.nonce => d = e
    BY DEF AuthInv, AuthorizationsExecuteOnce, NonceCounts
  <2>2. vault'[v].nonce = vault[v].nonce + 1 /\ vault[v].nonce \in Nat
    BY <1>0 DEF Consumes
  <2>3. \A d \in Spends(v) : d.nonce \in Nat
    BY <1>0 DEF Spends
  <2>4. \A n \in 0 .. vault[v].nonce : \E d \in Spends(v)' : d.nonce = n
    <3>1. ASSUME NEW n \in 0 .. vault[v].nonce
          PROVE  \E d \in Spends(v)' : d.nonce = n
      <4>1. CASE n = vault[v].nonce
        <5>1. c \in Spends(v)' /\ c.nonce = n
          BY <1>2, <4>1
        <5> QED
          BY <5>1
      <4>2. CASE n # vault[v].nonce
        <5>1. n \in 0 .. vault[v].nonce - 1
          BY <2>2, <4>2
        <5> QED
          BY <1>2, <2>1, <5>1
      <4> QED
        BY <4>1, <4>2
    <3> QED
      BY <3>1
  <2>5. \A d \in Spends(v)' : d.nonce < vault[v].nonce + 1
    BY <1>2, <2>1, <2>2, <2>3
  <2>6. \A d, e \in Spends(v)' : d.nonce = e.nonce => d = e
    BY <1>2, <2>1, <2>2, <2>3
  <2> QED
    BY <2>2, <2>4, <2>5, <2>6 DEF NonceCounts
<1>5. \A w \in Vaults \ {v} : NonceCounts(w)'
  BY <1>3 DEF NonceCounts, AuthInv, AuthorizationsExecuteOnce, Consumes
<1> QED
  BY <1>4, <1>5 DEF AuthInv, AuthorizationsExecuteOnce, Consumes

\* Every step consumes one nonce, creates a vault at nonce 0, or leaves all
\* nonces and authorizations alone.
LEMMA AuthStep ==
  ASSUME TypeOK, AuthInv, [Next]_vars
  PROVE  \/ \E v \in Vaults, action \in RootActions : Consumes(v, action)
         \/ \E v \in Vaults : InitializeVault(v)
         \/ vault' = vault /\ executed' = executed
<1> USE AccountsFacts
<1> DEFINE Some == \E v \in Vaults, action \in RootActions : Consumes(v, action)
<1>1. ASSUME NEW v \in Vaults, NEW k \in SessionKeys, NEW p \in Policies,
             InitializeVaultAndGrantSession(v, k, p)
      PROVE  Some
  <2>1. vault[v].nonce = 0
    BY <1>1 DEF InitializeVaultAndGrantSession, AuthInv
  <2>2. Consumes(v, "INITIALIZE_VAULT_AND_GRANT_SESSION")
    BY <1>1, <2>1 DEF InitializeVaultAndGrantSession, Consumes, TypeOK
  <2> QED
    BY <2>2 DEF RootActions
<1>2. ASSUME NEW v \in Vaults, NEW n \in Nonces, NEW action,
             action \in RootActions, action # "INITIALIZE_VAULT",
             vault[v].exists, ConsumeVaultNonce(v, n), Record(v, action, n)
      PROVE  Some
  <2>1. Consumes(v, action)
    BY <1>2 DEF Consumes, ConsumeVaultNonce, TypeOK
  <2> QED
    BY <1>2, <2>1
<1>3. CASE Administration \/ Environment \/ UNCHANGED vars
  BY <1>3
  DEF Administration, InitializeProtocol, InitializeClaimAuthority, Environment,
      OpenTokenAccount, DepositUsdc, DepositSol, Tick, history, vars
<1>4. CASE WalletInstructions
  <2>1. ASSUME NEW v \in Vaults, NEW k \in SessionKeys, NEW p \in Policies,
               NEW n \in Nonces, GrantSession(v, k, p, n)
        PROVE  Some
    BY <1>2, <2>1 DEF GrantSession, RootActions
  <2>2. ASSUME NEW v \in Vaults, NEW to \in Accounts, NEW amount \in Amounts,
               NEW n \in Nonces, TransferWithPasskey(v, to, amount, n)
        PROVE  Some
    BY <1>2, <2>2 DEF TransferWithPasskey, RootActions
  <2>3. ASSUME NEW v \in Vaults, NEW to \in Accounts, NEW amount \in SolAmounts,
               NEW n \in Nonces, TransferSolWithPasskey(v, to, amount, n)
        PROVE  Some
    BY <1>2, <2>3 DEF TransferSolWithPasskey, RootActions
  <2>4. ASSUME NEW v \in Vaults, NEW k \in SessionKeys, NEW to \in Accounts,
               NEW amount \in Amounts, NEW n \in Nonces,
               TransferWithSession(v, k, to, amount, n)
        PROVE  vault' = vault /\ executed' = executed
    BY <2>4 DEF TransferWithSession
  <2> QED
    BY <1>1, <1>4, <2>1, <2>2, <2>3, <2>4 DEF WalletInstructions
<1>5. CASE LinkInstructions
  <2>1. ASSUME NEW l \in Links, NEW amount \in SolAmounts, NEW t \in Times,
               NEW n \in Nonces, CreateSolPaymentLinkWithPasskey(l, amount, t, n)
        PROVE  Some
    BY <1>2, <2>1 DEF CreateSolPaymentLinkWithPasskey, RootActions
  <2>2. ASSUME NEW l \in Links, NEW n \in Nonces,
               CancelSolPaymentLinkWithPasskey(l, n)
        PROVE  Some
    BY <1>2, <2>2 DEF CancelSolPaymentLinkWithPasskey, RootActions
  <2>3. ASSUME NEW l \in Links,
               \/ \E k \in SessionKeys, amount \in Amounts, t \in Times, n \in Nonces :
                    CreatePaymentLinkWithSession(l, k, amount, t, n)
               \/ \E k \in SessionKeys, n \in Nonces :
                    CancelPaymentLinkWithSession(l, k, n)
               \/ \E signer \in Signers, r \in Vaults :
                    \/ ClaimPaymentLink(l, signer, r)
                    \/ ClaimSolPaymentLink(l, signer, r)
               \/ RefundExpiredPaymentLink(l)
               \/ RefundExpiredSolPaymentLink(l)
        PROVE  vault' = vault /\ executed' = executed
    BY <2>3
    DEF CreatePaymentLinkWithSession, CancelPaymentLinkWithSession,
        ClaimPaymentLink, ClaimSolPaymentLink, RefundExpiredPaymentLink,
        RefundExpiredSolPaymentLink
  <2> QED
    BY <1>5, <2>1, <2>2, <2>3 DEF LinkInstructions
<1> QED
  BY <1>3, <1>4, <1>5 DEF Next

LEMMA AuthInvStep == TypeOK /\ AuthInv /\ [Next]_vars => AuthInv'
<1> SUFFICES ASSUME TypeOK, AuthInv, [Next]_vars PROVE AuthInv'
  OBVIOUS
<1>1. ASSUME NEW v \in Vaults, InitializeVault(v)
      PROVE  AuthInv'
  <2>1. /\ vault[v].nonce = 0 /\ vault'[v].nonce = 0 /\ vault'[v].exists
        /\ \A w \in Vaults \ {v} : vault'[w] = vault[w]
    BY <1>1 DEF InitializeVault, AuthInv, TypeOK
  <2>2. \A w \in Vaults : Spends(w)' = Spends(w)
    BY <1>1 DEF InitializeVault, Record, Spends
  <2>3. \A w \in Vaults : vault'[w].nonce = vault[w].nonce
    BY <2>1
  <2>4. \A w \in Vaults : NonceCounts(w)'
    BY <2>2, <2>3 DEF NonceCounts, AuthInv, AuthorizationsExecuteOnce
  <2> QED
    BY <2>1, <2>4 DEF AuthInv, AuthorizationsExecuteOnce
<1>2. CASE vault' = vault /\ executed' = executed
  BY <1>2 DEF AuthInv, AuthorizationsExecuteOnce, NonceCounts, Spends
<1> QED
  BY <1>1, <1>2, AuthStep, ConsumesKeepsAuthInv

LEMMA AuthInvInit == Init => AuthInv
BY DEF Init, AuthInv, AuthorizationsExecuteOnce, NonceCounts, Spends, NoVault

\* No passkey authorization is ever executed twice, and no two share a nonce,
\* for any number of vaults and any interleaving of submissions.
THEOREM NoReplay == Spec => []AuthorizationsExecuteOnce
<1>1. Spec => []AuthInv
  BY AuthInvInit, AuthInvStep, TypeCorrect, PTL DEF Spec
<1> QED
  BY <1>1, PTL DEF AuthInv

-----------------------------------------------------------------------------
(* What a step may do to a session and to a balance.                       *)

\* A step leaves a session, grants one that did not exist, or charges it.
SessionCharged(s, amount) ==
  session'[s] = [session[s] EXCEPT !.spent = @ + amount, !.nonce = @ + 1]
SessionSigned(s) == session'[s] = [session[s] EXCEPT !.nonce = @ + 1]
SessionMoves(s) ==
  \/ session'[s] = session[s] \/ ~session[s].exists
  \/ SessionSigned(s) \/ \E amount \in Nat : SessionCharged(s, amount)

LEMMA SpendMoves ==
  ASSUME TypeOK, NEW s \in Sessions, NEW amount \in Nat, SpendFromSession(s, amount),
         NEW q \in Sessions
  PROVE  /\ SessionMoves(q)
         /\ SessionCharged(s, amount)
<1>1. SessionCharged(s, amount)
  BY DEF SpendFromSession, SessionCharged, TypeOK
<1>2. q # s => session'[q] = session[q]
  BY DEF SpendFromSession, TypeOK
<1> QED
  BY <1>1, <1>2 DEF SessionMoves

LEMMA SessionsMove ==
  ASSUME TypeOK, Next, NEW q \in Sessions
  PROVE  SessionMoves(q)
<1> USE AccountsFacts
<1>0. Amounts \subseteq Nat /\ SolAmounts \subseteq Nat
  BY ConstantsAssumption
<1>1. CASE session' = session
  BY <1>1 DEF SessionMoves
<1>2. ASSUME NEW s \in Sessions, NEW r, ~session[s].exists, session' = [session EXCEPT ![s] = r]
      PROVE  SessionMoves(q)
  BY <1>2 DEF SessionMoves, TypeOK
<1>3. ASSUME NEW l \in Links, NEW k \in SessionKeys, NEW n \in Nonces,
             CancelPaymentLinkWithSession(l, k, n)
      PROVE  SessionMoves(q)
  <2>1. PICK s \in Sessions : s = <<l[1], k>>
    OBVIOUS
  <2>2. session' = [session EXCEPT ![s].nonce = @ + 1]
    BY <1>3, <2>1 DEF CancelPaymentLinkWithSession
  <2> QED
    BY <2>2 DEF SessionMoves, SessionSigned, TypeOK
<1>4. ASSUME NEW l \in Links, NEW k \in SessionKeys, NEW amount \in Amounts,
             NEW t \in Times, NEW n \in Nonces,
             CreatePaymentLinkWithSession(l, k, amount, t, n)
      PROVE  SessionMoves(q)
  <2>1. PICK s \in Sessions : s = <<l[1], k>>
    OBVIOUS
  <2>2. SpendFromSession(s, amount)
    BY <1>4, <2>1 DEF CreatePaymentLinkWithSession
  <2> QED
    BY <1>0, <2>2, SpendMoves
<1>5. CASE Administration \/ Environment
  BY <1>1, <1>5 DEF Administration, InitializeProtocol, InitializeClaimAuthority, Environment,
                    OpenTokenAccount, DepositUsdc, DepositSol, Tick
<1>6. CASE WalletInstructions
  <2>1. ASSUME NEW v \in Vaults, NEW k \in SessionKeys, NEW p \in Policies,
               \/ InitializeVaultAndGrantSession(v, k, p)
               \/ \E n \in Nonces : GrantSession(v, k, p, n)
        PROVE  SessionMoves(q)
    BY <1>2, <2>1 DEF InitializeVaultAndGrantSession, GrantSession
  <2>2. ASSUME NEW v \in Vaults, NEW k \in SessionKeys, NEW to \in Accounts,
               NEW amount \in Amounts, NEW n \in Nonces,
               TransferWithSession(v, k, to, amount, n)
        PROVE  SessionMoves(q)
    BY <1>0, <2>2, SpendMoves DEF TransferWithSession
  <2> QED
    BY <1>1, <1>6, <2>1, <2>2
    DEF WalletInstructions, InitializeVault, TransferWithPasskey, TransferSolWithPasskey
<1>7. CASE LinkInstructions
  <2>1. ASSUME NEW l \in Links,
               \/ \E signer \in Signers, r \in Vaults :
                    \/ ClaimPaymentLink(l, signer, r)
                    \/ ClaimSolPaymentLink(l, signer, r)
               \/ RefundExpiredPaymentLink(l)
               \/ \E amount \in SolAmounts, t \in Times, n \in Nonces :
                    CreateSolPaymentLinkWithPasskey(l, amount, t, n)
               \/ \E n \in Nonces : CancelSolPaymentLinkWithPasskey(l, n)
               \/ RefundExpiredSolPaymentLink(l)
        PROVE  session' = session
    BY <2>1
    DEF ClaimPaymentLink, RefundExpiredPaymentLink,
        CreateSolPaymentLinkWithPasskey, ClaimSolPaymentLink,
        CancelSolPaymentLinkWithPasskey, RefundExpiredSolPaymentLink
  <2> QED
    BY <1>1, <1>3, <1>4, <1>7, <2>1 DEF LinkInstructions
<1> QED
  BY <1>5, <1>6, <1>7 DEF Next

\* A session that exists keeps its limits and its window, and neither its
\* spending nor its nonce ever goes back (wallet.rs, grant_session's init).
THEOREM SessionsNotWidened == Spec => SessionNeverWidened
<1> DEFINE Kept(s) ==
      session[s].exists =>
        /\ session'[s].exists
        /\ session'[s].cumulative_limit = session[s].cumulative_limit
        /\ session'[s].per_action_limit = session[s].per_action_limit
        /\ session'[s].valid_until = session[s].valid_until
        /\ session'[s].spent >= session[s].spent
        /\ session'[s].nonce >= session[s].nonce
<1>1. ASSUME TypeOK, Next, NEW s \in Sessions PROVE Kept(s)
  <2>1. SessionMoves(s)
    BY <1>1, SessionsMove
  <2>2. /\ session[s] \in SessionRecords
        /\ session[s].spent \in Nat /\ session[s].nonce \in Nat
    BY <1>1 DEF TypeOK, SessionRecords, U64, Nonces
  <2>3. CASE session'[s] = session[s]
    BY <2>2, <2>3
  <2>4. CASE SessionSigned(s)
    <3>1. /\ session'[s].exists = session[s].exists
          /\ session'[s].cumulative_limit = session[s].cumulative_limit
          /\ session'[s].per_action_limit = session[s].per_action_limit
          /\ session'[s].valid_until = session[s].valid_until
          /\ session'[s].spent = session[s].spent
          /\ session'[s].nonce = session[s].nonce + 1
      BY <2>2, <2>4 DEF SessionSigned, SessionRecords
    <3> QED
      BY <2>2, <3>1
  <2>5. ASSUME NEW amount \in Nat, SessionCharged(s, amount) PROVE Kept(s)
    <3>1. /\ session'[s].exists = session[s].exists
          /\ session'[s].cumulative_limit = session[s].cumulative_limit
          /\ session'[s].per_action_limit = session[s].per_action_limit
          /\ session'[s].valid_until = session[s].valid_until
          /\ session'[s].spent = session[s].spent + amount
          /\ session'[s].nonce = session[s].nonce + 1
      BY <2>2, <2>5 DEF SessionCharged, SessionRecords
    <3> QED
      BY <2>2, <3>1
  <2> QED
    BY <2>1, <2>3, <2>4, <2>5 DEF SessionMoves
<1>2. TypeOK /\ [Next]_vars => [\A s \in Sessions : Kept(s)]_vars
  BY <1>1
<1> QED
  BY <1>2, TypeCorrect, PTL DEF Spec, SessionNeverWidened

\* Whose balance a transfer can lower.
LEMMA OnlySourceLoses ==
  ASSUME TypeOK, NEW from \in Accounts, NEW to \in Accounts, NEW amount \in Nat, from # to,
         usdc' = Moved(usdc, from, to, amount), NEW v \in Vaults, usdc'[v] < usdc[v]
  PROVE  v = from /\ usdc[v] - usdc'[v] = amount
<1>1. v \in Accounts /\ usdc \in [Accounts -> Nat] /\ usdc[v] \in Nat
  BY AccountsFacts DEF TypeOK
<1>2. v # from => Moved(usdc, from, to, amount)[v] >= usdc[v]
  BY <1>1, MovedValues
<1>3. Moved(usdc, from, to, amount) [from] = usdc[from] - amount
  BY <1>1, MovedValues
<1>4. v # from => Moved(usdc, from, to, amount)[v] \in Nat
  BY <1>1 DEF Moved
<1> QED
  BY <1>1, <1>2, <1>3, <1>4

DebitAuthorized(v) ==
  \/ vault'[v].nonce = vault[v].nonce + 1
  \/ \E k \in SessionKeys :
       LET s == <<v, k>> IN
       /\ session'[s].nonce = session[s].nonce + 1
       /\ session'[s].spent = session[s].spent + (usdc[v] - usdc'[v])
       /\ usdc[v] - usdc'[v] <= session[s].per_action_limit
       /\ session[s].valid_after <= now /\ now <= session[s].valid_until

LEMMA SessionDebit ==
  ASSUME TypeOK, NEW w \in Vaults, NEW k \in SessionKeys, NEW to \in Accounts, to # w,
         NEW amount \in Nat, NEW n, SessionUsable(<<w, k>>, n),
         WithinSessionLimits(<<w, k>>, amount), SpendFromSession(<<w, k>>, amount),
         usdc' = Moved(usdc, w, to, amount), NEW v \in Vaults, usdc'[v] < usdc[v]
  PROVE  DebitAuthorized(v)
<1> DEFINE s == <<w, k>>
<1>1. s \in Sessions /\ w \in Accounts
  BY AccountsFacts
<1>2. v = w /\ usdc[v] - usdc'[v] = amount
  BY <1>1, OnlySourceLoses
<1>3. SessionCharged(s, amount)
  BY <1>1, SpendMoves
<1>4. session[s] \in SessionRecords
  BY <1>1 DEF TypeOK
<1>5. session'[s].nonce = session[s].nonce + 1 /\ session'[s].spent = session[s].spent + amount
  <2> HIDE DEF s
  <2> QED
    BY <1>3, <1>4 DEF SessionCharged, SessionRecords
<1>6. /\ amount <= session[s].per_action_limit
      /\ session[s].valid_after <= now /\ now <= session[s].valid_until
  BY DEF SessionUsable, WithinSessionLimits
<1> QED
  BY <1>2, <1>5, <1>6 DEF DebitAuthorized

LEMMA DebitStep ==
  ASSUME TypeOK, Next, NEW v \in Vaults, usdc'[v] < usdc[v]
  PROVE  DebitAuthorized(v)
<1> USE AccountsFacts
<1>0. /\ Amounts \subseteq Nat /\ v \in Accounts /\ usdc[v] \in Nat
      /\ usdc' # usdc
  BY ConstantsAssumption DEF TypeOK
<1>1. CASE Administration
  BY <1>0, <1>1 DEF Administration, InitializeProtocol, InitializeClaimAuthority
<1>2. CASE Environment
  <2>1. PICK a \in Vaults \cup Links, amount \in Amounts : DepositUsdc(a, amount)
    BY <1>0, <1>2 DEF Environment, OpenTokenAccount, DepositSol, Tick
  <2>2. a \in Accounts /\ a # Outside /\ amount \in Nat /\ usdc' = Moved(usdc, Outside, a, amount)
    BY <1>0, <2>1 DEF DepositUsdc
  <2>3. v = Outside
    BY <2>2, OnlySourceLoses
  <2> QED
    BY <2>3
<1>3. CASE WalletInstructions
  <2>1. PICK w \in Vaults :
          \/ InitializeVault(w)
          \/ \E k \in SessionKeys, p \in Policies : InitializeVaultAndGrantSession(w, k, p)
          \/ \E k \in SessionKeys, p \in Policies, n \in Nonces : GrantSession(w, k, p, n)
          \/ \E to \in Accounts, amount \in Amounts, n \in Nonces :
               TransferWithPasskey(w, to, amount, n)
          \/ \E k \in SessionKeys, to \in Accounts, amount \in Amounts, n \in Nonces :
               TransferWithSession(w, k, to, amount, n)
          \/ \E to \in Accounts, amount \in SolAmounts, n \in Nonces :
               TransferSolWithPasskey(w, to, amount, n)
    BY <1>3 DEF WalletInstructions
  <2>2. ASSUME NEW to \in Accounts, NEW amount \in Amounts, NEW n \in Nonces,
               TransferWithPasskey(w, to, amount, n)
        PROVE  DebitAuthorized(v)
    <3>1. v = w
      BY <1>0, <2>2, OnlySourceLoses DEF TransferWithPasskey
    <3>2. vault'[w].nonce = vault[w].nonce + 1
      BY <2>2 DEF TransferWithPasskey, ConsumeVaultNonce, TypeOK
    <3> QED
      BY <3>1, <3>2 DEF DebitAuthorized
  <2>3. ASSUME NEW k \in SessionKeys, NEW to \in Accounts, NEW amount \in Amounts,
               NEW n \in Nonces, TransferWithSession(w, k, to, amount, n)
        PROVE  DebitAuthorized(v)
    BY <1>0, <2>3, SessionDebit DEF TransferWithSession
  <2> QED
    BY <1>0, <2>1, <2>2, <2>3
    DEF InitializeVault, InitializeVaultAndGrantSession, GrantSession, TransferSolWithPasskey
<1>4. CASE LinkInstructions
  <2>1. PICK l \in Links :
          \/ \E k \in SessionKeys, amount \in Amounts, t \in Times, n \in Nonces :
               CreatePaymentLinkWithSession(l, k, amount, t, n)
          \/ \E signer \in Signers, r \in Vaults : ClaimPaymentLink(l, signer, r)
          \/ \E k \in SessionKeys, n \in Nonces : CancelPaymentLinkWithSession(l, k, n)
          \/ RefundExpiredPaymentLink(l)
          \/ \E amount \in SolAmounts, t \in Times, n \in Nonces :
               CreateSolPaymentLinkWithPasskey(l, amount, t, n)
          \/ \E signer \in Signers, r \in Vaults : ClaimSolPaymentLink(l, signer, r)
          \/ \E n \in Nonces : CancelSolPaymentLinkWithPasskey(l, n)
          \/ RefundExpiredSolPaymentLink(l)
    BY <1>4 DEF LinkInstructions
  <2>2. PICK w \in Vaults : w = l[1]
    OBVIOUS
  <2>3. l \in Accounts /\ l # v /\ l # w /\ link[l].amount \in Nat
    BY DEF TypeOK, LinkRecords
  <2>4. ASSUME NEW r \in Vaults, usdc' = Moved(usdc, l, r, link[l].amount) PROVE FALSE
    <3>1. r \in Accounts /\ l # r
      OBVIOUS
    <3>2. v = l
      BY <2>3, <2>4, <3>1, OnlySourceLoses
    <3> QED
      BY <2>3, <3>2
  <2>5. ASSUME NEW k \in SessionKeys, NEW amount \in Amounts, NEW t \in Times, NEW n \in Nonces,
               CreatePaymentLinkWithSession(l, k, amount, t, n)
        PROVE  DebitAuthorized(v)
    BY <1>0, <2>2, <2>3, <2>5, SessionDebit DEF CreatePaymentLinkWithSession
  <2> QED
    BY <1>0, <2>1, <2>2, <2>4, <2>5
    DEF ClaimPaymentLink, CancelPaymentLinkWithSession, RefundExpiredPaymentLink,
        CreateSolPaymentLinkWithPasskey, ClaimSolPaymentLink,
        CancelSolPaymentLinkWithPasskey, RefundExpiredSolPaymentLink
<1> QED
  BY <1>1, <1>2, <1>3, <1>4 DEF Next

\* USDC leaves a vault only against one nonce of the vault, or one nonce of a
\* session of the vault that is charged for it, within its limit and window.
THEOREM DebitsAuthorized == Spec => DebitsAreAuthorized
<1>1. TypeOK /\ [Next]_vars => [\A v \in Vaults : usdc'[v] < usdc[v] => DebitAuthorized(v)]_vars
  BY DebitStep
<1>2. Spec => [][\A v \in Vaults : usdc'[v] < usdc[v] => DebitAuthorized(v)]_vars
  BY <1>1, TypeCorrect, PTL DEF Spec
<1> QED
  BY <1>2 DEF DebitsAreAuthorized, DebitAuthorized

-----------------------------------------------------------------------------
(* The program implements LinkEscrow: each instruction that touches a      *)
(* payment link is a step of the abstract escrow, every other step a       *)
(* stutter or an advance of its clock.                                     *)

\* Link l becomes settled, every other term of every link staying as it is.
SettledTo(l, outcome, r) ==
  /\ link'[l].status = outcome
  /\ link'[l].amount = link[l].amount
  /\ link'[l].expires_at = link[l].expires_at
  /\ link'[l].claimed_destination = r
  /\ \A m \in Links \ {l} : link'[m] = link[m]

\* Settling a link maps to Settle: the measured payout is the promise.
LEMMA SettleMaps ==
  ASSUME TypeOK, EscrowInv, NEW l \in Links, NEW outcome, NEW r,
         link[l].status = "ACTIVE", SettledTo(l, outcome, r), now' = now,
         NEW before \in Nat, NEW after, after = before - link[l].amount,
         released' = [released EXCEPT ![l] = @ + (before - after)]
  PROVE  Escrow!Settle(l, outcome)
<1>1. released[l] = 0 /\ link[l].amount \in Nat /\ released \in [Links -> Int]
  BY DEF EscrowInv, ReleasedExactlyOnce, SettledStatuses, TypeOK, LinkRecords
<1>2. released[l] + (before - after) = link[l].amount
  BY <1>1
<1>3. released' = [released EXCEPT ![l] = link[l].amount]
  BY <1>1, <1>2
<1>4. /\ [m \in Links |-> link'[m].status]
           = [[m \in Links |-> link[m].status] EXCEPT ![l] = outcome]
      /\ [m \in Links |-> link'[m].amount] = [m \in Links |-> link[m].amount]
      /\ [m \in Links |-> link'[m].expires_at] = [m \in Links |-> link[m].expires_at]
  BY DEF SettledTo
<1> QED
  BY <1>3, <1>4 DEF Escrow!Settle

LEMMA PayeeMaps ==
  ASSUME NEW l \in Links, NEW outcome, NEW r, SettledTo(l, outcome, r)
  PROVE  /\ [m \in Links |-> link'[m].claimed_destination]
              = [[m \in Links |-> link[m].claimed_destination] EXCEPT ![l] = r]
         /\ r = link[l].claimed_destination =>
              [m \in Links |-> link'[m].claimed_destination]
                = [m \in Links |-> link[m].claimed_destination]
BY DEF SettledTo

\* Creating a link maps to Open.
LEMMA OpenMaps ==
  ASSUME TypeOK, EscrowInv, NEW l \in Links, NEW native \in BOOLEAN,
         NEW amount \in Amounts \cup SolAmounts, NEW t \in Times,
         link[l].status = "NONE", link[l].claimed_destination = NoKey,
         amount > 0, t > now, now' = now, released' = released,
         link' = [link EXCEPT ![l] = NewLink(native, amount, t)]
  PROVE  Escrow!Next
<1>1. /\ [m \in Links |-> link'[m].status]
           = [[m \in Links |-> link[m].status] EXCEPT ![l] = "ACTIVE"]
      /\ [m \in Links |-> link'[m].amount]
           = [[m \in Links |-> link[m].amount] EXCEPT ![l] = amount]
      /\ [m \in Links |-> link'[m].expires_at]
           = [[m \in Links |-> link[m].expires_at] EXCEPT ![l] = t]
      /\ [m \in Links |-> link'[m].claimed_destination]
           = [m \in Links |-> link[m].claimed_destination]
  BY DEF NewLink, TypeOK
<1>2. Escrow!Open(l, amount, t)
  BY <1>1 DEF Escrow!Open
<1> QED
  BY <1>2 DEF Escrow!Next

\* A link that is not claimed has no payee.
PayeeInv == \A l \in Links :
  link[l].status \in {"NONE", "ACTIVE"} => link[l].claimed_destination = NoKey

LEMMA LinkStepMaps ==
  ASSUME TypeOK, EscrowInv, PayeeInv, LinkInstructions
  PROVE  Escrow!Next
<1> USE AccountsFacts
<1>a. PICK l \in Links :
        \/ \E k \in SessionKeys, amount \in Amounts, t \in Times, n \in Nonces :
             CreatePaymentLinkWithSession(l, k, amount, t, n)
        \/ \E signer \in Signers, r \in Vaults : ClaimPaymentLink(l, signer, r)
        \/ \E k \in SessionKeys, n \in Nonces : CancelPaymentLinkWithSession(l, k, n)
        \/ RefundExpiredPaymentLink(l)
        \/ \E amount \in SolAmounts, t \in Times, n \in Nonces :
             CreateSolPaymentLinkWithPasskey(l, amount, t, n)
        \/ \E signer \in Signers, r \in Vaults : ClaimSolPaymentLink(l, signer, r)
        \/ \E n \in Nonces : CancelSolPaymentLinkWithPasskey(l, n)
        \/ RefundExpiredSolPaymentLink(l)
  BY DEF LinkInstructions
<1>0. /\ usdc \in [Accounts -> Nat] /\ lamports \in [Accounts -> Nat]
      /\ usdc[l] \in Nat /\ lamports[l] \in Nat /\ l[1] \in Vaults
      /\ link[l] \in LinkRecords /\ link[l].amount \in Nat
      /\ link \in [Links -> LinkRecords]
  BY DEF TypeOK, LinkRecords
<1>1. ASSUME NEW k \in SessionKeys, NEW amount \in Amounts, NEW t \in Times,
             NEW n \in Nonces, CreatePaymentLinkWithSession(l, k, amount, t, n)
      PROVE  Escrow!Next
  BY <1>1, OpenMaps DEF CreatePaymentLinkWithSession, ValidLinkExpiry, PayeeInv
<1>2. ASSUME NEW amount \in SolAmounts, NEW t \in Times, NEW n \in Nonces,
             CreateSolPaymentLinkWithPasskey(l, amount, t, n)
      PROVE  Escrow!Next
  BY <1>2, OpenMaps DEF CreateSolPaymentLinkWithPasskey, ValidLinkExpiry, PayeeInv
<1>3. ASSUME NEW signer \in Signers, NEW r \in Vaults,
             ClaimPaymentLink(l, signer, r)
      PROVE  Escrow!Next
  <2>1. /\ usdc' = Moved(usdc, l, r, link[l].amount)
        /\ released' = [released EXCEPT ![l] = @ + (usdc[l] - usdc'[l])]
        /\ r \in Vaults /\ now' = now /\ link[l].status = "ACTIVE"
    BY <1>0, <1>3 DEF ClaimPaymentLink, ReleasedUsdc
  <2>2. SettledTo(l, "CLAIMED", r)
    BY <1>0, <1>3, <2>1 DEF ClaimPaymentLink, SettledTo, TypeOK, LinkRecords
  <2>3. Escrow!Settle(l, "CLAIMED")
    <3>1. usdc'[l] = usdc[l] - link[l].amount
      BY <1>0, <2>1, EscrowMoves
    <3> QED
      BY <1>0, <2>1, <2>2, <3>1, SettleMaps
  <2> QED
    BY <1>0, <1>3, <2>2, <2>3, PayeeMaps
    DEF ClaimPaymentLink, Escrow!Claim, Escrow!Next
<1>4. ASSUME NEW k \in SessionKeys, NEW n \in Nonces,
             CancelPaymentLinkWithSession(l, k, n)
      PROVE  Escrow!Next
  <2>1. /\ usdc' = Moved(usdc, l, l[1], link[l].amount)
        /\ released' = [released EXCEPT ![l] = @ + (usdc[l] - usdc'[l])]
        /\ l[1] \in Vaults /\ now' = now /\ link[l].status = "ACTIVE"
    BY <1>0, <1>4 DEF CancelPaymentLinkWithSession, ReleasedUsdc
  <2>2. SettledTo(l, "CANCELLED", link[l].claimed_destination)
    BY <1>0, <1>4, <2>1 DEF CancelPaymentLinkWithSession, SettledTo, TypeOK, LinkRecords
  <2>3. Escrow!Settle(l, "CANCELLED")
    <3>1. usdc'[l] = usdc[l] - link[l].amount
      BY <1>0, <2>1, EscrowMoves
    <3> QED
      BY <1>0, <2>1, <2>2, <3>1, SettleMaps
  <2> QED
    BY <1>0, <2>2, <2>3, PayeeMaps DEF Escrow!Cancel, Escrow!Next
<1>5. ASSUME RefundExpiredPaymentLink(l)
      PROVE  Escrow!Next
  <2>1. /\ usdc' = Moved(usdc, l, l[1], link[l].amount)
        /\ released' = [released EXCEPT ![l] = @ + (usdc[l] - usdc'[l])]
        /\ l[1] \in Vaults /\ now' = now /\ link[l].status = "ACTIVE"
    BY <1>0, <1>5 DEF RefundExpiredPaymentLink, ReleasedUsdc
  <2>2. SettledTo(l, "REFUNDED", link[l].claimed_destination)
    BY <1>0, <1>5, <2>1 DEF RefundExpiredPaymentLink, SettledTo, TypeOK, LinkRecords
  <2>3. Escrow!Settle(l, "REFUNDED")
    <3>1. usdc'[l] = usdc[l] - link[l].amount
      BY <1>0, <2>1, EscrowMoves
    <3> QED
      BY <1>0, <2>1, <2>2, <3>1, SettleMaps
  <2> QED
    BY <1>0, <1>5, <2>2, <2>3, PayeeMaps
    DEF RefundExpiredPaymentLink, Escrow!Refund, Escrow!Next
<1>6. ASSUME NEW signer \in Signers, NEW r \in Vaults,
             ClaimSolPaymentLink(l, signer, r)
      PROVE  Escrow!Next
  <2>1. /\ lamports' = Moved(lamports, l, r, link[l].amount)
        /\ released' = [released EXCEPT ![l] = @ + (lamports[l] - lamports'[l])]
        /\ r \in Vaults /\ now' = now /\ link[l].status = "ACTIVE"
    BY <1>0, <1>6 DEF ClaimSolPaymentLink, ReleasedLamports
  <2>2. SettledTo(l, "CLAIMED", r)
    BY <1>0, <1>6, <2>1 DEF ClaimSolPaymentLink, SettledTo, TypeOK, LinkRecords
  <2>3. Escrow!Settle(l, "CLAIMED")
    <3>1. lamports'[l] = lamports[l] - link[l].amount
      BY <1>0, <2>1, EscrowMoves
    <3> QED
      BY <1>0, <2>1, <2>2, <3>1, SettleMaps
  <2> QED
    BY <1>0, <1>6, <2>2, <2>3, PayeeMaps
    DEF ClaimSolPaymentLink, Escrow!Claim, Escrow!Next
<1>7. ASSUME NEW n \in Nonces, CancelSolPaymentLinkWithPasskey(l, n)
      PROVE  Escrow!Next
  <2>1. /\ lamports' = Moved(lamports, l, l[1], link[l].amount)
        /\ released' = [released EXCEPT ![l] = @ + (lamports[l] - lamports'[l])]
        /\ l[1] \in Vaults /\ now' = now /\ link[l].status = "ACTIVE"
    BY <1>0, <1>7 DEF CancelSolPaymentLinkWithPasskey, ReleasedLamports
  <2>2. SettledTo(l, "CANCELLED", link[l].claimed_destination)
    BY <1>0, <1>7, <2>1 DEF CancelSolPaymentLinkWithPasskey, SettledTo, TypeOK, LinkRecords
  <2>3. Escrow!Settle(l, "CANCELLED")
    <3>1. lamports'[l] = lamports[l] - link[l].amount
      BY <1>0, <2>1, EscrowMoves
    <3> QED
      BY <1>0, <2>1, <2>2, <3>1, SettleMaps
  <2> QED
    BY <1>0, <2>2, <2>3, PayeeMaps DEF Escrow!Cancel, Escrow!Next
<1>8. ASSUME RefundExpiredSolPaymentLink(l)
      PROVE  Escrow!Next
  <2>1. /\ lamports' = Moved(lamports, l, l[1], link[l].amount)
        /\ released' = [released EXCEPT ![l] = @ + (lamports[l] - lamports'[l])]
        /\ l[1] \in Vaults /\ now' = now /\ link[l].status = "ACTIVE"
    BY <1>0, <1>8 DEF RefundExpiredSolPaymentLink, ReleasedLamports
  <2>2. SettledTo(l, "REFUNDED", link[l].claimed_destination)
    BY <1>0, <1>8, <2>1 DEF RefundExpiredSolPaymentLink, SettledTo, TypeOK, LinkRecords
  <2>3. Escrow!Settle(l, "REFUNDED")
    <3>1. lamports'[l] = lamports[l] - link[l].amount
      BY <1>0, <2>1, EscrowMoves
    <3> QED
      BY <1>0, <2>1, <2>2, <3>1, SettleMaps
  <2> QED
    BY <1>0, <1>8, <2>2, <2>3, PayeeMaps
    DEF RefundExpiredSolPaymentLink, Escrow!Refund, Escrow!Next
<1> QED
  BY <1>a, <1>1, <1>2, <1>3, <1>4, <1>5, <1>6, <1>7, <1>8

\* Outside the link instructions no link changes, and only the clock moves.
LEMMA OtherStepMaps ==
  ASSUME Administration \/ WalletInstructions \/ Environment \/ UNCHANGED vars
  PROVE  /\ link' = link
         /\ Escrow!Advance \/ UNCHANGED Escrow!escrowVars
<1>1. CASE Administration
  BY <1>1 DEF Administration, InitializeProtocol, InitializeClaimAuthority,
              history, Escrow!escrowVars
<1>2. CASE WalletInstructions
  <2>1. PICK v \in Vaults :
          \/ InitializeVault(v)
          \/ \E k, p : InitializeVaultAndGrantSession(v, k, p)
          \/ \E k, p, n : GrantSession(v, k, p, n)
          \/ \E to, amount, n : TransferWithPasskey(v, to, amount, n)
          \/ \E k, to, amount, n : TransferWithSession(v, k, to, amount, n)
          \/ \E to, amount, n : TransferSolWithPasskey(v, to, amount, n)
    BY <1>2 DEF WalletInstructions
  <2>2. link' = link /\ released' = released /\ now' = now
    BY <2>1, Zenon DEF InitializeVault, InitializeVaultAndGrantSession,
       GrantSession, TransferWithPasskey, TransferWithSession,
       TransferSolWithPasskey
  <2> QED
    BY <2>2 DEF Escrow!escrowVars
<1>3. CASE Environment
  BY <1>3 DEF Environment, OpenTokenAccount, DepositUsdc, DepositSol, Tick,
              history, Escrow!escrowVars, Escrow!Advance
<1>4. CASE UNCHANGED vars
  BY <1>4 DEF vars, Escrow!escrowVars
<1> QED
  BY <1>1, <1>2, <1>3, <1>4

\* After the step, link l has a payee only if it is settled, and no other
\* link has changed.
KeepsPayee(l) ==
  /\ link'[l].status \in {"NONE", "ACTIVE"} => link'[l].claimed_destination = NoKey
  /\ \A m \in Links \ {l} : link'[m] = link[m]

LEMMA PayeeInvStep ==
  ASSUME TypeOK, PayeeInv, [Next]_vars
  PROVE  PayeeInv'
<1>1. CASE LinkInstructions
  <2>a. PICK l \in Links :
          \/ \E k \in SessionKeys, amount \in Amounts, t \in Times, n \in Nonces :
               CreatePaymentLinkWithSession(l, k, amount, t, n)
          \/ \E signer \in Signers, r \in Vaults : ClaimPaymentLink(l, signer, r)
          \/ \E k \in SessionKeys, n \in Nonces : CancelPaymentLinkWithSession(l, k, n)
          \/ RefundExpiredPaymentLink(l)
          \/ \E amount \in SolAmounts, t \in Times, n \in Nonces :
               CreateSolPaymentLinkWithPasskey(l, amount, t, n)
          \/ \E signer \in Signers, r \in Vaults : ClaimSolPaymentLink(l, signer, r)
          \/ \E n \in Nonces : CancelSolPaymentLinkWithPasskey(l, n)
          \/ RefundExpiredSolPaymentLink(l)
    BY <1>1 DEF LinkInstructions
  <2>0. link \in [Links -> LinkRecords] /\ link[l] \in LinkRecords
    BY DEF TypeOK
  <2>1. ASSUME NEW k \in SessionKeys, NEW amount \in Amounts, NEW t \in Times,
               NEW n \in Nonces, CreatePaymentLinkWithSession(l, k, amount, t, n)
        PROVE  KeepsPayee(l)
    BY <2>0, <2>1 DEF CreatePaymentLinkWithSession, NewLink, KeepsPayee, LinkRecords
  <2>2. ASSUME NEW signer \in Signers, NEW r \in Vaults, ClaimPaymentLink(l, signer, r)
        PROVE  KeepsPayee(l)
    BY <2>0, <2>2 DEF ClaimPaymentLink, KeepsPayee, LinkRecords
  <2>3. ASSUME NEW k \in SessionKeys, NEW n \in Nonces,
               CancelPaymentLinkWithSession(l, k, n)
        PROVE  KeepsPayee(l)
    BY <2>0, <2>3 DEF CancelPaymentLinkWithSession, KeepsPayee, LinkRecords
  <2>4. ASSUME RefundExpiredPaymentLink(l)
        PROVE  KeepsPayee(l)
    BY <2>0, <2>4 DEF RefundExpiredPaymentLink, KeepsPayee, LinkRecords
  <2>5. ASSUME NEW amount \in SolAmounts, NEW t \in Times, NEW n \in Nonces,
               CreateSolPaymentLinkWithPasskey(l, amount, t, n)
        PROVE  KeepsPayee(l)
    BY <2>0, <2>5 DEF CreateSolPaymentLinkWithPasskey, NewLink, KeepsPayee, LinkRecords
  <2>6. ASSUME NEW signer \in Signers, NEW r \in Vaults, ClaimSolPaymentLink(l, signer, r)
        PROVE  KeepsPayee(l)
    BY <2>0, <2>6 DEF ClaimSolPaymentLink, KeepsPayee, LinkRecords
  <2>7. ASSUME NEW n \in Nonces, CancelSolPaymentLinkWithPasskey(l, n)
        PROVE  KeepsPayee(l)
    BY <2>0, <2>7 DEF CancelSolPaymentLinkWithPasskey, KeepsPayee, LinkRecords
  <2>8. ASSUME RefundExpiredSolPaymentLink(l)
        PROVE  KeepsPayee(l)
    BY <2>0, <2>8 DEF RefundExpiredSolPaymentLink, KeepsPayee, LinkRecords
  <2>9. KeepsPayee(l)
    BY <2>a, <2>1, <2>2, <2>3, <2>4, <2>5, <2>6, <2>7, <2>8
  <2> QED
    BY <2>9 DEF KeepsPayee, PayeeInv
<1>2. CASE ~LinkInstructions
  BY <1>2, OtherStepMaps DEF Next, PayeeInv
<1> QED
  BY <1>1, <1>2

\* The on-chain program keeps the promise of a payment link as LinkEscrow
\* states it, for every number of vaults, links, sessions and signers.
THEOREM Refinement == Spec => ImplementsLinkEscrow
<1>1. Init => Escrow!Init
  <2> SUFFICES ASSUME Init PROVE Escrow!Init
    OBVIOUS
  <2>1. \A l \in Links : link[l] = NoLink
    BY DEF Init
  <2>2. /\ NoLink.status = "NONE" /\ NoLink.amount = 0
        /\ NoLink.expires_at = 0 /\ NoLink.claimed_destination = NoKey
    BY DEF NoLink
  <2>3. /\ [l \in Links |-> link[l].status] = [l \in Links |-> "NONE"]
        /\ [l \in Links |-> link[l].amount] = [l \in Links |-> 0]
        /\ [l \in Links |-> link[l].expires_at] = [l \in Links |-> 0]
        /\ [l \in Links |-> link[l].claimed_destination] = [l \in Links |-> NoKey]
    BY <2>1, <2>2
  <2> QED
    BY <2>3 DEF Init, Escrow!Init
<1>2. Init => PayeeInv
  BY DEF Init, PayeeInv, NoLink
<1>3. TypeOK /\ EscrowInv /\ PayeeInv /\ [Next]_vars
        => [Escrow!Next]_(Escrow!escrowVars)
  BY LinkStepMaps, OtherStepMaps DEF Next, Escrow!Next
<1>4. TypeOK /\ PayeeInv /\ [Next]_vars => PayeeInv'
  BY PayeeInvStep
<1>5. Spec => []PayeeInv
  BY <1>2, <1>4, TypeCorrect, PTL DEF Spec
<1>6. Spec => []EscrowInv
  BY EscrowSafe, PTL DEF EscrowInv
<1> QED
  BY <1>1, <1>3, <1>5, <1>6, TypeCorrect, PTL
  DEF Spec, ImplementsLinkEscrow, Escrow!Spec

-----------------------------------------------------------------------------
(* Balances: no instruction brings a vault under its rent reserve, money is *)
(* neither created nor destroyed, and a refund that is due finds everything *)
(* it checks in order.                                                      *)

-----------------------------------------------------------------------------
(* The rent reserve.                                                       *)

\* What a step may do to a vault account: leave it without taking lamports,
\* or take lamports (or create it) and leave the reserve.
Untouched(w) ==
  /\ vault'[w].exists = vault[w].exists
  /\ lamports'[w] >= lamports[w]
LeftReserve(w) == lamports'[w] >= RentVault

LEMMA ReserveEffect ==
  ASSUME TypeOK, TypeOK', NEW w \in Vaults,
         vault[w].exists => lamports[w] >= RentVault,
         Untouched(w) \/ LeftReserve(w)
  PROVE  vault'[w].exists => lamports'[w] >= RentVault
<1>1. lamports[w] \in Nat /\ lamports'[w] \in Nat /\ RentVault \in Nat
  BY AccountsFacts, ConstantsAssumption DEF TypeOK
<1>2. CASE LeftReserve(w)
  BY <1>2 DEF LeftReserve
<1>3. ASSUME Untouched(w), vault'[w].exists
      PROVE  lamports'[w] >= RentVault
  <2>1. vault[w].exists /\ lamports'[w] >= lamports[w]
    BY <1>3, Zenon DEF Untouched
  <2> QED
    BY <1>1, <2>1
<1> QED
  BY <1>2, <1>3

LEMMA ConsumeKeepsVaults ==
  ASSUME TypeOK, NEW v \in Vaults, NEW n, ConsumeVaultNonce(v, n), NEW w \in Vaults
  PROVE  vault'[w].exists = vault[w].exists
BY DEF TypeOK, ConsumeVaultNonce

\* Creating a vault tops it up to the reserve and takes from nobody else.
LEMMA CreationLeavesReserve ==
  ASSUME TypeOK, NEW v \in Vaults, NEW n, lamports' = RentPaid(v, RentVault),
         vault' = [vault EXCEPT ![v] = [exists |-> TRUE, nonce |-> n]],
         NEW w \in Vaults
  PROVE  Untouched(w) \/ LeftReserve(w)
<1>1. /\ v \in Accounts \ {Outside} /\ w \in Accounts \ {Outside}
      /\ RentVault \in Nat
  BY AccountsFacts, ConstantsAssumption
<1>2. CASE w = v
  BY <1>1, <1>2, RentPaidValues DEF LeftReserve
<1>3. CASE w # v
  BY <1>1, <1>3, RentPaidValues DEF Untouched, TypeOK
<1> QED
  BY <1>2, <1>3

LEMMA WalletReserve ==
  ASSUME TypeOK, Administration \/ WalletInstructions \/ Environment,
         NEW w \in Vaults
  PROVE  Untouched(w) \/ LeftReserve(w)
<1> USE AccountsFacts
<1>0. /\ lamports \in [Accounts -> Nat] /\ lamports[w] \in Nat
      /\ w \in Accounts \ {Outside} /\ RentVault \in Nat
      /\ SolAmounts \subseteq Nat
  BY ConstantsAssumption DEF TypeOK
<1>1. CASE vault' = vault /\ lamports' = lamports
  BY <1>0, <1>1 DEF Untouched
<1>2. ASSUME NEW v \in Vaults, InitializeVault(v)
      PROVE  Untouched(w) \/ LeftReserve(w)
  BY <1>2, CreationLeavesReserve DEF InitializeVault
<1>3. ASSUME NEW v \in Vaults, NEW k \in SessionKeys, NEW p \in Policies,
             InitializeVaultAndGrantSession(v, k, p)
      PROVE  Untouched(w) \/ LeftReserve(w)
  BY <1>3, CreationLeavesReserve DEF InitializeVaultAndGrantSession
<1>4. ASSUME NEW v \in Vaults, NEW n \in Nonces, ConsumeVaultNonce(v, n),
             lamports' = lamports
      PROVE  Untouched(w)
  BY <1>0, <1>4, ConsumeKeepsVaults DEF Untouched
<1>5. ASSUME NEW v \in Vaults, NEW to \in Accounts, NEW amount \in SolAmounts,
             NEW n \in Nonces, TransferSolWithPasskey(v, to, amount, n)
      PROVE  Untouched(w) \/ LeftReserve(w)
  <2>0. /\ v \in Accounts /\ v # to /\ amount \in Nat
        /\ lamports' = Moved(lamports, v, to, amount)
        /\ lamports[v] - amount >= RentVault
        /\ vault'[w].exists = vault[w].exists
    BY <1>0, <1>5, ConsumeKeepsVaults DEF TransferSolWithPasskey, CanTransferLamports
  <2>1. /\ lamports'[v] = lamports[v] - amount
        /\ \A a \in Accounts \ {v} : lamports'[a] >= lamports[a]
    BY <1>0, <2>0, MovedValues
  <2> QED
    BY <1>0, <2>0, <2>1 DEF Untouched, LeftReserve
<1>6. ASSUME NEW a \in Vaults \cup Links, NEW amount \in SolAmounts,
             DepositSol(a, amount)
      PROVE  Untouched(w)
  <2>1. lamports'[w] >= lamports[w] /\ vault' = vault
    BY <1>0, <1>6, MovedValues DEF DepositSol
  <2> QED
    BY <2>1 DEF Untouched
<1>7. CASE Administration
  BY <1>1, <1>7 DEF Administration, InitializeProtocol, InitializeClaimAuthority
<1>8. CASE WalletInstructions
  <2>1. ASSUME NEW v \in Vaults, NEW k \in SessionKeys, NEW p \in Policies,
               NEW n \in Nonces, GrantSession(v, k, p, n)
        PROVE  Untouched(w)
    BY <1>4, <2>1 DEF GrantSession
  <2>2. ASSUME NEW v \in Vaults, NEW to \in Accounts, NEW amount \in Amounts,
               NEW n \in Nonces, TransferWithPasskey(v, to, amount, n)
        PROVE  Untouched(w)
    BY <1>4, <2>2 DEF TransferWithPasskey
  <2>3. ASSUME NEW v \in Vaults, NEW k \in SessionKeys, NEW to \in Accounts,
               NEW amount \in Amounts, NEW n \in Nonces,
               TransferWithSession(v, k, to, amount, n)
        PROVE  Untouched(w) \/ LeftReserve(w)
    BY <1>1, <2>3 DEF TransferWithSession
  <2> QED
    BY <1>2, <1>3, <1>5, <1>8, <2>1, <2>2, <2>3 DEF WalletInstructions
<1>9. CASE Environment
  BY <1>1, <1>6, <1>9
  DEF Environment, OpenTokenAccount, DepositUsdc, Tick
<1> QED
  BY <1>7, <1>8, <1>9

\* A payment link takes lamports from a vault only when the vault funds it.
LEMMA LinkReserve ==
  ASSUME TypeOK, LinkInstructions, NEW w \in Vaults
  PROVE  Untouched(w) \/ LeftReserve(w)
<1> USE AccountsFacts
<1>0. /\ lamports \in [Accounts -> Nat] /\ lamports[w] \in Nat
      /\ w \in Accounts \ {Outside} /\ RentVault \in Nat /\ RentLink \in Nat
      /\ SolAmounts \subseteq Nat
      /\ \A l \in Links : /\ l \in Accounts \ {Outside} /\ l # w
                          /\ link[l].amount \in Nat
  BY ConstantsAssumption DEF TypeOK, LinkRecords
\* Out of an escrow.
<1>1. ASSUME NEW l \in Links, NEW r \in Vaults,
             lamports' = Moved(lamports, l, r, link[l].amount),
             vault'[w].exists = vault[w].exists
      PROVE  Untouched(w)
  BY <1>0, <1>1, EscrowMoves DEF Untouched
<1>2. ASSUME NEW l \in Links, NEW k \in SessionKeys, NEW amount \in Amounts,
             NEW t \in Times, NEW n \in Nonces,
             CreatePaymentLinkWithSession(l, k, amount, t, n)
      PROVE  Untouched(w)
  <2>1. lamports' = RentPaid(l, RentLink) /\ vault' = vault
    BY <1>2 DEF CreatePaymentLinkWithSession
  <2> QED
    BY <1>0, <2>1, RentPaidValues DEF Untouched
<1>3. ASSUME NEW l \in Links, NEW amount \in SolAmounts, NEW t \in Times,
             NEW n \in Nonces, CreateSolPaymentLinkWithPasskey(l, amount, t, n)
      PROVE  Untouched(w) \/ LeftReserve(w)
  <2> DEFINE funded == RentPaid(l, RentLink)
             v == l[1]
  <2>1. /\ lamports' = Moved(funded, v, l, amount) /\ amount \in Nat
        /\ lamports[v] - amount >= RentVault
        /\ CanPayRent(l, RentLink) /\ ConsumeVaultNonce(v, n)
    BY <1>0, <1>3 DEF CreateSolPaymentLinkWithPasskey
  <2>2. /\ v \in Vaults /\ v \in Accounts \ {Outside} /\ v # l /\ l \in Accounts
        /\ funded \in [Accounts -> Nat]
        /\ funded[v] = lamports[v] /\ funded[w] = lamports[w]
    BY <1>0, <2>1, RentPaidType, RentPaidValues
  <2>3. /\ lamports'[v] = lamports[v] - amount
        /\ \A a \in Accounts \ {v} : lamports'[a] >= funded[a]
    BY <2>1, <2>2, MovedValues
  <2>4. vault'[w].exists = vault[w].exists
    BY <2>1, <2>2, ConsumeKeepsVaults
  <2> QED
    BY <1>0, <2>1, <2>2, <2>3, <2>4 DEF Untouched, LeftReserve
<1>4. ASSUME NEW l \in Links,
             \/ \E signer \in Signers, r \in Vaults : ClaimPaymentLink(l, signer, r)
             \/ \E k \in SessionKeys, n \in Nonces :
                  CancelPaymentLinkWithSession(l, k, n)
             \/ RefundExpiredPaymentLink(l)
      PROVE  Untouched(w)
  <2>1. lamports' = lamports /\ vault' = vault
    BY <1>4 DEF ClaimPaymentLink, CancelPaymentLinkWithSession,
                RefundExpiredPaymentLink
  <2> QED
    BY <1>0, <2>1 DEF Untouched
<1>5. ASSUME NEW l \in Links, NEW signer \in Signers, NEW r \in Vaults,
             ClaimSolPaymentLink(l, signer, r)
      PROVE  Untouched(w)
  BY <1>1, <1>5 DEF ClaimSolPaymentLink
<1>6. ASSUME NEW l \in Links, NEW n \in Nonces,
             CancelSolPaymentLinkWithPasskey(l, n)
      PROVE  Untouched(w)
  <2>1. vault'[w].exists = vault[w].exists
    BY <1>6, ConsumeKeepsVaults DEF CancelSolPaymentLinkWithPasskey
  <2> QED
    BY <1>1, <1>6, <2>1 DEF CancelSolPaymentLinkWithPasskey
<1>7. ASSUME NEW l \in Links, RefundExpiredSolPaymentLink(l)
      PROVE  Untouched(w)
  BY <1>1, <1>7 DEF RefundExpiredSolPaymentLink
<1> QED
  BY <1>2, <1>3, <1>4, <1>5, <1>6, <1>7 DEF LinkInstructions

LEMMA RentReserveInit == Init => RentReserveKept
BY DEF Init, RentReserveKept, NoVault

LEMMA RentReserveStep ==
  TypeOK /\ TypeOK' /\ RentReserveKept /\ [Next]_vars => RentReserveKept'
<1> SUFFICES ASSUME TypeOK, TypeOK', RentReserveKept, [Next]_vars,
                    NEW w \in Vaults
             PROVE  vault'[w].exists => lamports'[w] >= RentVault
  BY DEF RentReserveKept
<1>1. CASE UNCHANGED vars
  BY <1>1 DEF vars, RentReserveKept
<1>2. CASE Next
  <2>1. Untouched(w) \/ LeftReserve(w)
    BY <1>2, WalletReserve, LinkReserve DEF Next
  <2>2. vault[w].exists => lamports[w] >= RentVault
    BY DEF RentReserveKept
  <2> QED
    BY <2>1, <2>2, ReserveEffect
<1> QED
  BY <1>1, <1>2

\* No native transfer, native link, claim or deposit, in any order, brings an
\* existing vault account under its rent-exempt minimum
\* (native_sol.rs, transfer_program_lamports).
THEOREM ReserveSafe == Spec => []RentReserveKept
BY RentReserveInit, RentReserveStep, TypeCorrect, PTL DEF Spec

-----------------------------------------------------------------------------
(* Conservation.  Every step leaves the balances or moves an amount from   *)
(* one account to another.                                                 *)

Shifted(b, c) ==
  \E from, to \in Accounts, amount \in Nat :
    from # to /\ b[from] >= amount /\ c = Moved(b, from, to, amount)

LEMMA AccountsFinite == IsFiniteSet(Accounts)
<1>1. IsFiniteSet(Links)
  BY AddressAssumption, FS_Product DEF Links
<1>2. IsFiniteSet(Vaults \cup Links)
  BY <1>1, AddressAssumption, FS_Union
<1> QED
  BY <1>2, FS_AddElement DEF Accounts

LEMMA MovedSum ==
  ASSUME NEW b \in [Accounts -> Nat], NEW from \in Accounts, NEW to \in Accounts,
         NEW amount \in Nat, from # to
  PROVE  SumOf(Moved(b, from, to, amount), Accounts) = SumOf(b, Accounts)
<1> DEFINE mid == [b EXCEPT ![from] = @ - amount]
           c == Moved(b, from, to, amount)
<1>1. /\ mid[from] = b[from] - amount
      /\ \A a \in Accounts : a # from => mid[a] = b[a]
      /\ \A a \in Accounts : mid[a] \in Int
  OBVIOUS
<1>2. /\ c[to] = mid[to] + amount
      /\ \A a \in Accounts : a # to => c[a] = mid[a]
      /\ \A a \in Accounts : c[a] \in Int
  BY DEF Moved
<1>3. \A a \in Accounts : b[a] \in Int
  OBVIOUS
<1> HIDE DEF mid, c
<1>4. \A a \in Accounts : b[a] \in Int /\ mid[a] \in Int /\ c[a] \in Int
  BY <1>1, <1>2, <1>3
<1>5. SumOf(mid, Accounts) = SumOf(b, Accounts) + mid[from] - b[from]
  <2>1. \A a \in Accounts : b[a] \in Int /\ mid[a] \in Int
    BY <1>4
  <2> QED
    BY <1>1, <2>1, AccountsFinite, SumUpdate
<1>6. SumOf(c, Accounts) = SumOf(mid, Accounts) + c[to] - mid[to]
  <2>1. \A a \in Accounts : mid[a] \in Int /\ c[a] \in Int
    BY <1>4
  <2>2. \A a \in Accounts : a # to => c[a] = mid[a]
    BY <1>2
  <2> QED
    BY ONLY <2>1, <2>2, to \in Accounts, AccountsFinite, SumUpdate
<1>7. SumOf(b, Accounts) \in Int /\ SumOf(mid, Accounts) \in Int
  BY <1>1, <1>3, AccountsFinite, SumType
<1>8. SumOf(c, Accounts) = SumOf(b, Accounts)
  BY <1>1, <1>2, <1>4, <1>5, <1>6, <1>7
<1> QED
  BY <1>8 DEF c

LEMMA ShiftedSum ==
  ASSUME NEW b \in [Accounts -> Nat], NEW c, Shifted(b, c)
  PROVE  c \in [Accounts -> Nat] /\ SumOf(c, Accounts) = SumOf(b, Accounts)
<1>1. PICK from \in Accounts, to \in Accounts, amount \in Nat :
        from # to /\ b[from] >= amount /\ c = Moved(b, from, to, amount)
  BY DEF Shifted
<1>2. SumOf(Moved(b, from, to, amount), Accounts) = SumOf(b, Accounts)
  BY <1>1, MovedSum
<1>3. Moved(b, from, to, amount) \in [Accounts -> Nat]
  BY <1>1, MovedType
<1> QED
  BY <1>1, <1>2, <1>3

LEMMA RentShifts ==
  ASSUME TypeOK, NEW a \in Accounts \ {Outside}, NEW rent \in Nat, CanPayRent(a, rent)
  PROVE  Shifted(lamports, RentPaid(a, rent)) /\ RentPaid(a, rent) \in [Accounts -> Nat]
<1>1. Missing(a, rent) \in Nat /\ lamports \in [Accounts -> Nat] /\ Outside \in Accounts
  BY AccountsFacts DEF Missing, TypeOK
<1> QED
  BY <1>1, RentPaidType DEF Shifted, RentPaid, CanPayRent

UsdcShifts == usdc' = usdc \/ Shifted(usdc, usdc')
\* Two moves: creating a native link pays its rent and funds it.
LamportsShift ==
  \/ lamports' = lamports \/ Shifted(lamports, lamports')
  \/ \E mid \in [Accounts -> Nat] : Shifted(lamports, mid) /\ Shifted(mid, lamports')

LEMMA WalletShifts ==
  ASSUME TypeOK, Administration \/ WalletInstructions \/ Environment
  PROVE  UsdcShifts /\ LamportsShift
<1> USE AccountsFacts
<1>0. /\ usdc \in [Accounts -> Nat] /\ lamports \in [Accounts -> Nat]
      /\ RentVault \in Nat /\ Amounts \subseteq Nat /\ SolAmounts \subseteq Nat
      /\ \A v \in Vaults \cup Links : v \in Accounts \ {Outside}
  BY ConstantsAssumption DEF TypeOK
<1>1. CASE usdc' = usdc /\ lamports' = lamports
  BY <1>1 DEF UsdcShifts, LamportsShift
<1>2. ASSUME NEW v \in Vaults, lamports' = RentPaid(v, RentVault), CanPayRent(v, RentVault),
             usdc' = usdc
      PROVE  UsdcShifts /\ LamportsShift
  BY <1>0, <1>2, RentShifts DEF UsdcShifts, LamportsShift
<1>3. ASSUME NEW from \in Accounts, NEW to \in Accounts, NEW amount \in Amounts, from # to,
             CanTransfer(from, to, amount), usdc' = Moved(usdc, from, to, amount),
             lamports' = lamports
      PROVE  UsdcShifts /\ LamportsShift
  <2>1. amount \in Nat /\ usdc[from] >= amount
    BY <1>0, <1>3 DEF CanTransfer
  <2>2. Shifted(usdc, usdc')
    BY <1>3, <2>1 DEF Shifted
  <2> QED
    BY <1>3, <2>2 DEF UsdcShifts, LamportsShift
<1>4. ASSUME NEW from \in Accounts, NEW to \in Accounts, NEW amount \in SolAmounts, from # to,
             NEW reserve \in Nat,
             CanTransferLamports(from, to, amount, reserve),
             lamports' = Moved(lamports, from, to, amount), usdc' = usdc
      PROVE  UsdcShifts /\ LamportsShift
  <2>1. amount \in Nat /\ lamports[from] \in Nat
    BY <1>0
  <2>2. lamports[from] >= amount
    BY <1>4, <2>1 DEF CanTransferLamports
  <2>3. Shifted(lamports, lamports')
    BY <1>4, <2>1, <2>2 DEF Shifted
  <2> QED
    BY <1>4, <2>3 DEF UsdcShifts, LamportsShift
<1>5. CASE Administration
  BY <1>1, <1>5 DEF Administration, InitializeProtocol, InitializeClaimAuthority
<1>6. CASE WalletInstructions
  <2>1. PICK v \in Vaults :
          \/ InitializeVault(v)
          \/ \E k \in SessionKeys, p \in Policies : InitializeVaultAndGrantSession(v, k, p)
          \/ \E k \in SessionKeys, p \in Policies, n \in Nonces : GrantSession(v, k, p, n)
          \/ \E to \in Accounts, amount \in Amounts, n \in Nonces :
               TransferWithPasskey(v, to, amount, n)
          \/ \E k \in SessionKeys, to \in Accounts, amount \in Amounts, n \in Nonces :
               TransferWithSession(v, k, to, amount, n)
          \/ \E to \in Accounts, amount \in SolAmounts, n \in Nonces :
               TransferSolWithPasskey(v, to, amount, n)
    BY <1>6 DEF WalletInstructions
  <2>2. CASE InitializeVault(v)
    BY <1>2, <2>2 DEF InitializeVault
  <2>3. CASE \E k \in SessionKeys, p \in Policies : InitializeVaultAndGrantSession(v, k, p)
    BY <1>2, <2>3 DEF InitializeVaultAndGrantSession
  <2>4. CASE \E k \in SessionKeys, p \in Policies, n \in Nonces : GrantSession(v, k, p, n)
    BY <1>1, <2>4 DEF GrantSession
  <2>5. CASE \E to \in Accounts, amount \in Amounts, n \in Nonces :
               TransferWithPasskey(v, to, amount, n)
    BY <1>3, <2>5 DEF TransferWithPasskey
  <2>6. CASE \E k \in SessionKeys, to \in Accounts, amount \in Amounts, n \in Nonces :
               TransferWithSession(v, k, to, amount, n)
    BY <1>3, <2>6 DEF TransferWithSession
  <2>7. CASE \E to \in Accounts, amount \in SolAmounts, n \in Nonces :
               TransferSolWithPasskey(v, to, amount, n)
    BY <1>0, <1>4, <2>7 DEF TransferSolWithPasskey
  <2> QED
    BY <2>1, <2>2, <2>3, <2>4, <2>5, <2>6, <2>7
<1>7. CASE Environment
  <2>1. CASE \/ \E a \in Vaults \cup Links : OpenTokenAccount(a)
             \/ Tick
    BY <1>1, <2>1 DEF OpenTokenAccount, Tick
  <2>2. ASSUME NEW a \in Vaults \cup Links, NEW amount \in Amounts, DepositUsdc(a, amount)
        PROVE  UsdcShifts /\ LamportsShift
    <3>1. a \in Accounts /\ a # Outside
      BY <1>0
    <3> QED
      BY <1>3, <2>2, <3>1 DEF DepositUsdc
  <2>3. ASSUME NEW a \in Vaults \cup Links, NEW amount \in SolAmounts, DepositSol(a, amount)
        PROVE  UsdcShifts /\ LamportsShift
    <3>1. a \in Accounts /\ a # Outside /\ 0 \in Nat
      BY <1>0
    <3> QED
      BY <1>4, <2>3, <3>1 DEF DepositSol
  <2> QED
    BY <1>7, <2>1, <2>2, <2>3 DEF Environment
<1> QED
  BY <1>5, <1>6, <1>7

LEMMA LinkShifts ==
  ASSUME TypeOK, LinkInstructions
  PROVE  UsdcShifts /\ LamportsShift
<1> USE AccountsFacts
<1>0. /\ usdc \in [Accounts -> Nat] /\ lamports \in [Accounts -> Nat]
      /\ RentVault \in Nat /\ RentLink \in Nat
      /\ Amounts \subseteq Nat /\ SolAmounts \subseteq Nat
  BY ConstantsAssumption DEF TypeOK
<1>1. PICK l \in Links :
        \/ \E k \in SessionKeys, amount \in Amounts, t \in Times, n \in Nonces :
             CreatePaymentLinkWithSession(l, k, amount, t, n)
        \/ \E signer \in Signers, r \in Vaults : ClaimPaymentLink(l, signer, r)
        \/ \E k \in SessionKeys, n \in Nonces : CancelPaymentLinkWithSession(l, k, n)
        \/ RefundExpiredPaymentLink(l)
        \/ \E amount \in SolAmounts, t \in Times, n \in Nonces :
             CreateSolPaymentLinkWithPasskey(l, amount, t, n)
        \/ \E signer \in Signers, r \in Vaults : ClaimSolPaymentLink(l, signer, r)
        \/ \E n \in Nonces : CancelSolPaymentLinkWithPasskey(l, n)
        \/ RefundExpiredSolPaymentLink(l)
  BY DEF LinkInstructions
<1>2. PICK v \in Vaults : v = l[1]
  OBVIOUS
<1>3. /\ l \in Accounts \ {Outside} /\ v \in Accounts \ {Outside} /\ link[l].amount \in Nat
      /\ \A r \in Vaults : r # l /\ r \in Accounts
      /\ usdc[l] \in Nat /\ lamports[l] \in Nat /\ lamports[v] \in Nat
  BY <1>0 DEF TypeOK, LinkRecords
<1>4. ASSUME NEW r \in Vaults, usdc[l] >= link[l].amount,
             usdc' = Moved(usdc, l, r, link[l].amount), lamports' = lamports
      PROVE  UsdcShifts /\ LamportsShift
  <2>1. Shifted(usdc, usdc')
    BY <1>3, <1>4 DEF Shifted
  <2> QED
    BY <1>4, <2>1 DEF UsdcShifts, LamportsShift
<1>5. ASSUME NEW r \in Vaults, CanTransferLamports(l, r, link[l].amount, RentLink),
             lamports' = Moved(lamports, l, r, link[l].amount), usdc' = usdc
      PROVE  UsdcShifts /\ LamportsShift
  <2>1. lamports[l] >= link[l].amount
    BY <1>0, <1>3, <1>5 DEF CanTransferLamports
  <2>2. Shifted(lamports, lamports')
    BY <1>3, <1>5, <2>1 DEF Shifted
  <2> QED
    BY <1>5, <2>2 DEF UsdcShifts, LamportsShift
<1>6. ASSUME NEW k \in SessionKeys, NEW amount \in Amounts, NEW t \in Times, NEW n \in Nonces,
             CreatePaymentLinkWithSession(l, k, amount, t, n)
      PROVE  UsdcShifts /\ LamportsShift
  <2>1. Shifted(lamports, lamports')
    BY <1>0, <1>3, <1>6, RentShifts DEF CreatePaymentLinkWithSession
  <2>2. amount \in Nat /\ usdc[v] >= amount /\ usdc' = Moved(usdc, v, l, amount)
    BY <1>0, <1>2, <1>6 DEF CreatePaymentLinkWithSession
  <2>3. Shifted(usdc, usdc')
    BY <1>3, <2>2 DEF Shifted
  <2> QED
    BY <2>1, <2>3 DEF UsdcShifts, LamportsShift
<1>7. ASSUME NEW amount \in SolAmounts, NEW t \in Times, NEW n \in Nonces,
             CreateSolPaymentLinkWithPasskey(l, amount, t, n)
      PROVE  UsdcShifts /\ LamportsShift
  <2> DEFINE mid == RentPaid(l, RentLink)
  <2>1. /\ CanPayRent(l, RentLink) /\ lamports[v] - amount >= RentVault
        /\ lamports' = Moved(mid, v, l, amount) /\ usdc' = usdc /\ amount \in Nat
    BY <1>0, <1>2, <1>7 DEF CreateSolPaymentLinkWithPasskey
  <2>2. Shifted(lamports, mid) /\ mid \in [Accounts -> Nat]
    BY <1>0, <1>3, <2>1, RentShifts
  <2>3. mid[v] = lamports[v]
    BY <1>0, <1>3, RentPaidValues
  <2> HIDE DEF mid
  <2>4. mid[v] >= amount
    BY <1>0, <1>3, <2>1, <2>3
  <2>5. Shifted(mid, lamports')
    BY <1>3, <2>1, <2>2, <2>4 DEF Shifted
  <2> QED
    BY <2>1, <2>2, <2>5 DEF UsdcShifts, LamportsShift
<1>8. CASE \E signer \in Signers, r \in Vaults : ClaimPaymentLink(l, signer, r)
  BY <1>4, <1>8 DEF ClaimPaymentLink
<1>9. CASE \E k \in SessionKeys, n \in Nonces : CancelPaymentLinkWithSession(l, k, n)
  BY <1>2, <1>4, <1>9 DEF CancelPaymentLinkWithSession, CanTransfer
<1>10. CASE RefundExpiredPaymentLink(l)
  BY <1>2, <1>4, <1>10 DEF RefundExpiredPaymentLink, CanTransfer
<1>11. CASE \E signer \in Signers, r \in Vaults : ClaimSolPaymentLink(l, signer, r)
  BY <1>5, <1>11 DEF ClaimSolPaymentLink
<1>12. CASE \E n \in Nonces : CancelSolPaymentLinkWithPasskey(l, n)
  BY <1>2, <1>5, <1>12 DEF CancelSolPaymentLinkWithPasskey
<1>13. CASE RefundExpiredSolPaymentLink(l)
  BY <1>2, <1>5, <1>13 DEF RefundExpiredSolPaymentLink
<1> QED
  BY <1>1, <1>6, <1>7, <1>8, <1>9, <1>10, <1>11, <1>12, <1>13

\* The USDC and the lamports of all accounts together stay the supply, rent
\* payments included.
SumsKept == SumOf(usdc, Accounts) = UsdcSupply /\ SumOf(lamports, Accounts) = SolSupply

\* At the start everything is outside.
LEMMA MoneyInit == Init => SumsKept
<1> SUFFICES ASSUME Init PROVE SumsKept
  OBVIOUS
<1>1. ASSUME NEW b, NEW supply \in Nat, b = [a \in Accounts |-> IF a = Outside THEN supply ELSE 0]
      PROVE  SumOf(b, Accounts) = supply
  <2> DEFINE others == Accounts \ {Outside}
  <2>1. Outside \in Accounts
    BY AccountsFacts
  <2>2. /\ b[Outside] = supply /\ \A a \in others : b[a] = 0
        /\ \A a \in Accounts : b[a] \in Int
    BY <1>1, <2>1
  <2>3. IsFiniteSet(others)
    BY AccountsFinite, FS_Subset
  <2>4. SumOf(b, Accounts) = b[Outside] + SumOf(b, others)
    BY ONLY <2>1, <2>2, AccountsFinite, SumTake
  <2> HIDE DEF others
  <2>5. SumOf(b, others) = 0
    BY ONLY <2>2, <2>3, SumZero
  <2> QED
    BY <2>2, <2>4, <2>5
<1>2. UsdcSupply \in Nat /\ SolSupply \in Nat
  BY ConstantsAssumption DEF U64
<1>3. SumOf(usdc, Accounts) = UsdcSupply
  BY <1>1, <1>2 DEF Init
<1>4. SumOf(lamports, Accounts) = SolSupply
  BY <1>1, <1>2 DEF Init
<1> QED
  BY <1>3, <1>4 DEF SumsKept

LEMMA MoneyStep == TypeOK /\ SumsKept /\ [Next]_vars => SumsKept'
<1> SUFFICES ASSUME TypeOK, SumsKept, [Next]_vars PROVE SumsKept'
  OBVIOUS
<1>1. UsdcShifts /\ LamportsShift
  <2>1. CASE UNCHANGED vars
    BY <2>1 DEF vars, UsdcShifts, LamportsShift
  <2>2. CASE Next
    BY <2>2, WalletShifts, LinkShifts DEF Next
  <2> QED
    BY <2>1, <2>2
<1>2. usdc \in [Accounts -> Nat] /\ lamports \in [Accounts -> Nat]
  BY DEF TypeOK
<1>3. SumOf(usdc', Accounts) = SumOf(usdc, Accounts)
  <2>1. CASE usdc' = usdc
    BY <2>1
  <2>2. CASE Shifted(usdc, usdc')
    BY <1>2, <2>2, ShiftedSum
  <2> QED
    BY <1>1, <2>1, <2>2 DEF UsdcShifts
<1>4. SumOf(lamports', Accounts) = SumOf(lamports, Accounts)
  <2>1. CASE lamports' = lamports
    BY <2>1
  <2>2. CASE Shifted(lamports, lamports')
    BY <1>2, <2>2, ShiftedSum
  <2>3. ASSUME NEW mid \in [Accounts -> Nat], Shifted(lamports, mid), Shifted(mid, lamports')
        PROVE  SumOf(lamports', Accounts) = SumOf(lamports, Accounts)
    <3>1. SumOf(mid, Accounts) = SumOf(lamports, Accounts)
      BY <1>2, <2>3, ShiftedSum
    <3>2. SumOf(lamports', Accounts) = SumOf(mid, Accounts)
      BY <2>3, ShiftedSum
    <3> QED
      BY <3>1, <3>2
  <2> QED
    BY <1>1, <2>1, <2>2, <2>3 DEF LamportsShift
<1> QED
  BY <1>3, <1>4 DEF SumsKept

-----------------------------------------------------------------------------
(* Refunds.  What they need beside the escrow: the sender's vault and its  *)
(* token account, which no instruction takes away, and room in them, which *)
(* conservation leaves.                                                    *)

Founded ==
  /\ \A v \in Vaults : vault[v].exists => config.exists /\ v \in tokenAccounts
  /\ \A l \in Links : link[l].status # "NONE" => vault[l[1]].exists

\* What a step does to the accounts that exist, and to new ones.
AccountsGrow ==
  /\ config.exists => config'.exists
  /\ tokenAccounts \subseteq tokenAccounts'
  /\ \A v \in Vaults : vault[v].exists => vault'[v].exists
  /\ \A v \in Vaults : vault'[v].exists /\ ~vault[v].exists
                        => config.exists /\ v \in tokenAccounts'
  /\ \A l \in Links : link'[l].status # "NONE" /\ link[l].status = "NONE"
                       => vault[l[1]].exists

LEMMA OthersGrow ==
  ASSUME TypeOK, Administration \/ WalletInstructions \/ Environment
  PROVE  AccountsGrow
<1>1. CASE Administration
  BY <1>1 DEF Administration, InitializeProtocol, InitializeClaimAuthority, AccountsGrow, TypeOK
<1>2. CASE Environment
  BY <1>2 DEF Environment, OpenTokenAccount, DepositUsdc, DepositSol, Tick, AccountsGrow
<1>3. ASSUME NEW v \in Vaults, NEW n, Running, config' = config, link' = link,
             tokenAccounts' = tokenAccounts \cup {v},
             vault' = [vault EXCEPT ![v] = [exists |-> TRUE, nonce |-> n]]
      PROVE  AccountsGrow
  <2>1. /\ config.exists /\ vault'[v].exists
        /\ \A w \in Vaults : w # v => vault'[w] = vault[w]
    BY <1>3 DEF Running, TypeOK
  <2> QED
    BY <1>3, <2>1 DEF AccountsGrow
<1>4. ASSUME NEW v \in Vaults, NEW n, config' = config, link' = link,
             tokenAccounts' = tokenAccounts, ConsumeVaultNonce(v, n) \/ vault' = vault
      PROVE  AccountsGrow
  <2>1. \A w \in Vaults : vault'[w].exists = vault[w].exists
    BY <1>4, ConsumeKeepsVaults
  <2> QED
    BY <1>4, <2>1 DEF AccountsGrow
<1>5. CASE WalletInstructions
  <2>1. PICK v \in Vaults :
          \/ InitializeVault(v)
          \/ \E k \in SessionKeys, p \in Policies : InitializeVaultAndGrantSession(v, k, p)
          \/ \E k \in SessionKeys, p \in Policies, n \in Nonces : GrantSession(v, k, p, n)
          \/ \E to \in Accounts, amount \in Amounts, n \in Nonces :
               TransferWithPasskey(v, to, amount, n)
          \/ \E k \in SessionKeys, to \in Accounts, amount \in Amounts, n \in Nonces :
               TransferWithSession(v, k, to, amount, n)
          \/ \E to \in Accounts, amount \in SolAmounts, n \in Nonces :
               TransferSolWithPasskey(v, to, amount, n)
    BY <1>5 DEF WalletInstructions
  <2>2. CASE InitializeVault(v)
    BY <1>3, <2>2 DEF InitializeVault
  <2>3. CASE \E k \in SessionKeys, p \in Policies : InitializeVaultAndGrantSession(v, k, p)
    BY <1>3, <2>3 DEF InitializeVaultAndGrantSession
  <2>4. CASE \E k \in SessionKeys, p \in Policies, n \in Nonces : GrantSession(v, k, p, n)
    BY <1>4, <2>4 DEF GrantSession
  <2>5. CASE \E to \in Accounts, amount \in Amounts, n \in Nonces :
               TransferWithPasskey(v, to, amount, n)
    BY <1>4, <2>5 DEF TransferWithPasskey
  <2>6. CASE \E k \in SessionKeys, to \in Accounts, amount \in Amounts, n \in Nonces :
               TransferWithSession(v, k, to, amount, n)
    BY <1>4, <2>6 DEF TransferWithSession
  <2>7. CASE \E to \in Accounts, amount \in SolAmounts, n \in Nonces :
               TransferSolWithPasskey(v, to, amount, n)
    BY <1>4, <2>7 DEF TransferSolWithPasskey
  <2> QED
    BY <2>1, <2>2, <2>3, <2>4, <2>5, <2>6, <2>7
<1> QED
  BY <1>1, <1>2, <1>5

LEMMA LinksGrow ==
  ASSUME TypeOK, LinkInstructions
  PROVE  AccountsGrow
<1> USE AccountsFacts
<1>1. PICK l \in Links :
        \/ \E k \in SessionKeys, amount \in Amounts, t \in Times, n \in Nonces :
             CreatePaymentLinkWithSession(l, k, amount, t, n)
        \/ \E signer \in Signers, r \in Vaults : ClaimPaymentLink(l, signer, r)
        \/ \E k \in SessionKeys, n \in Nonces : CancelPaymentLinkWithSession(l, k, n)
        \/ RefundExpiredPaymentLink(l)
        \/ \E amount \in SolAmounts, t \in Times, n \in Nonces :
             CreateSolPaymentLinkWithPasskey(l, amount, t, n)
        \/ \E signer \in Signers, r \in Vaults : ClaimSolPaymentLink(l, signer, r)
        \/ \E n \in Nonces : CancelSolPaymentLinkWithPasskey(l, n)
        \/ RefundExpiredSolPaymentLink(l)
  BY DEF LinkInstructions
<1>2. ASSUME config' = config, tokenAccounts \subseteq tokenAccounts',
             \A v \in Vaults : vault'[v].exists = vault[v].exists,
             \A m \in Links : m # l => link'[m] = link[m],
             vault[l[1]].exists \/ link[l].status # "NONE"
      PROVE  AccountsGrow
  BY <1>2 DEF AccountsGrow
<1>3. ASSUME NEW r, link' = [link EXCEPT ![l] = r] PROVE \A m \in Links : m # l => link'[m] = link[m]
  BY <1>3 DEF TypeOK
<1>4. ASSUME NEW st, link' = [link EXCEPT ![l].status = st]
      PROVE  \A m \in Links : m # l => link'[m] = link[m]
  BY <1>4 DEF TypeOK
<1>5. ASSUME NEW st, NEW d,
             link' = [link EXCEPT ![l].status = st, ![l].claimed_destination = d]
      PROVE  \A m \in Links : m # l => link'[m] = link[m]
  BY <1>5 DEF TypeOK
<1>6. CASE \E k \in SessionKeys, amount \in Amounts, t \in Times, n \in Nonces :
             CreatePaymentLinkWithSession(l, k, amount, t, n)
  BY <1>2, <1>3, <1>6 DEF CreatePaymentLinkWithSession
<1>7. CASE \E signer \in Signers, r \in Vaults :
             ClaimPaymentLink(l, signer, r) \/ ClaimSolPaymentLink(l, signer, r)
  BY <1>2, <1>5, <1>7 DEF ClaimPaymentLink, ClaimSolPaymentLink
<1>8. CASE \E k \in SessionKeys, n \in Nonces : CancelPaymentLinkWithSession(l, k, n)
  BY <1>2, <1>4, <1>8 DEF CancelPaymentLinkWithSession
<1>9. CASE RefundExpiredPaymentLink(l) \/ RefundExpiredSolPaymentLink(l)
  BY <1>2, <1>4, <1>9 DEF RefundExpiredPaymentLink, RefundExpiredSolPaymentLink
<1>10. ASSUME NEW amount \in SolAmounts, NEW t \in Times, NEW n \in Nonces,
              CreateSolPaymentLinkWithPasskey(l, amount, t, n)
       PROVE  AccountsGrow
  <2>1. \A v \in Vaults : vault'[v].exists = vault[v].exists
    <3>1. PICK v \in Vaults : v = l[1]
      OBVIOUS
    <3> QED
      BY <1>10, <3>1, ConsumeKeepsVaults DEF CreateSolPaymentLinkWithPasskey
  <2> QED
    BY <1>2, <1>3, <1>10, <2>1 DEF CreateSolPaymentLinkWithPasskey
<1>11. ASSUME NEW n \in Nonces, CancelSolPaymentLinkWithPasskey(l, n)
       PROVE  AccountsGrow
  <2>1. \A v \in Vaults : vault'[v].exists = vault[v].exists
    <3>1. PICK v \in Vaults : v = l[1]
      OBVIOUS
    <3> QED
      BY <1>11, <3>1, ConsumeKeepsVaults DEF CancelSolPaymentLinkWithPasskey
  <2> QED
    BY <1>2, <1>4, <1>11, <2>1 DEF CancelSolPaymentLinkWithPasskey
<1> QED
  BY <1>1, <1>6, <1>7, <1>8, <1>9, <1>10, <1>11

LEMMA FoundedInit == Init => Founded
BY DEF Init, Founded, NoVault, NoLink

LEMMA FoundedStep == TypeOK /\ Founded /\ [Next]_vars => Founded'
<1> SUFFICES ASSUME TypeOK, Founded, [Next]_vars PROVE Founded'
  OBVIOUS
<1>1. CASE UNCHANGED vars
  BY <1>1 DEF vars, Founded
<1>2. CASE Next
  <2>1. AccountsGrow
    BY <1>2, OthersGrow, LinksGrow DEF Next
  <2>2. ASSUME NEW v \in Vaults, vault'[v].exists PROVE config'.exists /\ v \in tokenAccounts'
    BY <2>1, <2>2 DEF AccountsGrow, Founded
  <2>3. ASSUME NEW l \in Links, link'[l].status # "NONE" PROVE vault'[l[1]].exists
    <3>1. vault[l[1]].exists
      BY <2>1, <2>3 DEF AccountsGrow, Founded
    <3> QED
      BY <2>1, <3>1, AccountsFacts DEF AccountsGrow
  <2> QED
    BY <2>2, <2>3 DEF Founded
<1> QED
  BY <1>1, <1>2

\* Two accounts together hold no more than there is.
LEMMA PairBelowSum ==
  ASSUME NEW b \in [Accounts -> Nat], NEW x \in Accounts, NEW y \in Accounts, x # y
  PROVE  b[x] + b[y] <= SumOf(b, Accounts)
<1> DEFINE others == Accounts \ {x}
           rest == others \ {y}
<1>1. IsFiniteSet(others) /\ IsFiniteSet(rest) /\ y \in others
  BY AccountsFinite, FS_Subset
<1>2. \A a \in Accounts : b[a] \in Nat /\ b[a] \in Int
  OBVIOUS
<1>3. /\ \A a \in others : b[a] \in Int
      /\ \A a \in rest : b[a] \in Nat /\ b[a] \in Int
  OBVIOUS
<1>4. SumOf(b, Accounts) = b[x] + SumOf(b, others)
  BY <1>2, AccountsFinite, SumTake
<1> HIDE DEF others
<1>5. SumOf(b, others) = b[y] + SumOf(b, rest)
  BY <1>1, <1>3, SumTake
<1> HIDE DEF rest
<1>6. SumOf(b, rest) \in Nat
  BY <1>1, <1>3, SumType
<1>7. b[x] \in Nat /\ b[y] \in Nat
  OBVIOUS
<1> QED
  BY <1>4, <1>5, <1>6, <1>7

\* Everything the refund instructions check beside the status and the clock.
RefundReady(l) ==
  /\ config.exists /\ vault[l[1]].exists
  /\ IF link[l].native THEN CanTransferLamports(l, l[1], link[l].amount, RentLink)
                       ELSE CanTransfer(l, l[1], link[l].amount)

LEMMA ActiveIsReady ==
  ASSUME TypeOK, EscrowInv, SumsKept, Founded, NEW l \in Links, link[l].status = "ACTIVE"
  PROVE  RefundReady(l)
<1>1. PICK v \in Vaults : v = l[1]
  BY AccountsFacts
<1>2. vault[v].exists
  BY <1>1 DEF Founded
<1>3. config.exists /\ v \in tokenAccounts
  BY <1>2 DEF Founded
<1>4. Backed(l)
  BY DEF EscrowInv, EscrowBacked
<1>5. l \in Accounts /\ v \in Accounts /\ l # v
  BY AccountsFacts
<1>6. /\ usdc \in [Accounts -> Nat] /\ lamports \in [Accounts -> Nat]
      /\ link[l].amount \in Nat /\ RentLink \in Nat
  BY ConstantsAssumption DEF TypeOK, LinkRecords
<1>7. usdc[l] + usdc[v] <= U64Max
  <2>1. usdc[l] + usdc[v] <= SumOf(usdc, Accounts)
    BY <1>5, <1>6, PairBelowSum
  <2>2. UsdcSupply \in Nat /\ UsdcSupply <= U64Max /\ U64Max \in Nat
    BY ConstantsAssumption DEF U64
  <2>3. usdc[l] \in Nat /\ usdc[v] \in Nat
    BY <1>5, <1>6
  <2> QED
    BY <2>1, <2>2, <2>3 DEF SumsKept
<1>8. lamports[l] + lamports[v] <= U64Max
  <2>1. lamports[l] + lamports[v] <= SumOf(lamports, Accounts)
    BY <1>5, <1>6, PairBelowSum
  <2>2. SolSupply \in Nat /\ SolSupply <= U64Max /\ U64Max \in Nat
    BY ConstantsAssumption DEF U64
  <2>3. lamports[l] \in Nat /\ lamports[v] \in Nat
    BY <1>5, <1>6
  <2> QED
    BY <2>1, <2>2, <2>3 DEF SumsKept
<1>9. /\ usdc[l] \in Nat /\ usdc[v] \in Nat /\ lamports[l] \in Nat /\ lamports[v] \in Nat
      /\ U64Max \in Nat
  BY <1>5, <1>6, ConstantsAssumption
<1>10. CASE link[l].native
  <2>1. lamports[l] >= RentLink + link[l].amount
    BY <1>4, <1>10 DEF Backed
  <2>2. lamports[l] - link[l].amount >= RentLink /\ lamports[v] + link[l].amount <= U64Max
    BY <1>6, <1>8, <1>9, <2>1
  <2> QED
    BY <1>1, <1>2, <1>3, <1>10, <2>2 DEF RefundReady, CanTransferLamports
<1>11. CASE ~link[l].native
  <2>1. l \in tokenAccounts /\ usdc[l] >= link[l].amount
    BY <1>4, <1>11 DEF Backed
  <2>2. usdc[v] + link[l].amount <= U64Max
    BY <1>6, <1>7, <1>9, <2>1
  <2> QED
    BY <1>1, <1>2, <1>3, <1>11, <2>1, <2>2 DEF RefundReady, CanTransfer
<1> QED
  BY <1>10, <1>11

\* The sender of an active link can always be paid back: every check that
\* refund_expired_payment_link and refund_expired_sol_payment_link make,
\* their clock aside, passes in every reachable state.  With the expiry this
\* is what RefundNeverBlocked says with ENABLED.
THEOREM RefundsReady ==
  Spec => [](\A l \in Links : link[l].status = "ACTIVE" => RefundReady(l))
<1>1. Spec => []SumsKept
  BY MoneyInit, MoneyStep, TypeCorrect, PTL DEF Spec
<1>2. Spec => []Founded
  BY FoundedInit, FoundedStep, TypeCorrect, PTL DEF Spec
<1>3. Spec => []EscrowInv
  BY EscrowInvInit, EscrowInvStep, TypeCorrect, PTL DEF Spec
<1>4. TypeOK /\ EscrowInv /\ SumsKept /\ Founded
        => \A l \in Links : link[l].status = "ACTIVE" => RefundReady(l)
  BY ActiveIsReady
<1> QED
  BY <1>1, <1>2, <1>3, <1>4, TypeCorrect, PTL
=============================================================================
