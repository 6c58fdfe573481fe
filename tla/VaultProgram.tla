---------------------------- MODULE VaultProgram ----------------------------
(***************************************************************************)
(* The veriagent_pay Anchor program: protocol configuration, passkey-owned *)
(* vaults, delegated session keys, and payment links in USDC and in native *)
(* SOL.  One action per instruction of the program, in the order of        *)
(* protocol.rs, wallet.rs, native_sol.rs and payment_links.rs, plus what   *)
(* other programs do to the same accounts (deposits, opening a token       *)
(* account) and the cluster clock.                                         *)
(*                                                                         *)
(* A Solana instruction is atomic: when any check fails nothing is         *)
(* written.  So a failed instruction is a stutter, and each action below   *)
(* is the successful execution, its require! checks being its guard.       *)
(*                                                                         *)
(* A passkey signature is an input: the owner of a vault may sign any      *)
(* challenge, and whoever holds a signed challenge may submit it at any    *)
(* time and as often as they like.                                         *)
(***************************************************************************)
EXTENDS Integers, FiniteSets

CONSTANTS
  Vaults,             \* addresses of vault PDAs (root key hash + user salt)
  SessionKeys,        \* public keys a vault owner may delegate to
  LinkIds,            \* link_id arguments
  Signers,            \* keys that sign as protocol or claim authority
  NoKey,              \* Pubkey::default(), also "no vault"
  Outside,            \* every account the program does not own, taken together
  Policies,           \* session policies an owner may sign, valid or not
  Amounts,            \* USDC amounts tried by the instructions
  SolAmounts,         \* lamport amounts tried by the instructions
  UsdcSupply,         \* atomic USDC units in existence
  SolSupply,          \* lamports in existence
  RentVault,          \* rent-exempt minimum of a vault account
  RentLink,           \* rent-exempt minimum of a payment-link account
  U64Max,             \* largest u64 amount
  NonceMax,           \* largest u64 nonce (checked_add fails there)
  MaxAuthorizationTtl,
  MaxSessionDuration,
  MaxPaymentLinkDuration,
  MaxTime             \* bound: the last value of the cluster clock

Links == Vaults \X LinkIds          \* PDA seeds: sender vault, link_id
Sessions == Vaults \X SessionKeys   \* PDA seeds: vault, session key
Accounts == Vaults \cup Links \cup {Outside}
U64 == 0 .. U64Max
Nonces == 0 .. NonceMax
Times == 0 .. MaxTime
SupportedSessionActions == {"TRANSFER"}
RootActions ==                      \* the action byte of a challenge
  {"INITIALIZE_VAULT", "GRANT_SESSION", "INITIALIZE_VAULT_AND_GRANT_SESSION",
   "TRANSFER", "TRANSFER_SOL", "CREATE_SOL_PAYMENT_LINK",
   "CANCEL_SOL_PAYMENT_LINK"}
SettledStatuses == {"CLAIMED", "CANCELLED", "REFUNDED"}
LinkStatuses == {"NONE", "ACTIVE"} \cup SettledStatuses

ASSUME ConstantsAssumption ==
  /\ U64Max \in Nat /\ NonceMax \in Nat \ {0} /\ MaxTime \in Nat
  /\ MaxAuthorizationTtl \in Nat
  /\ MaxSessionDuration \in Nat
  /\ MaxPaymentLinkDuration \in Nat
  /\ UsdcSupply \in U64 /\ SolSupply \in U64
  /\ RentVault \in Nat /\ RentLink \in Nat
  /\ Amounts \subseteq Nat /\ SolAmounts \subseteq Nat
  /\ Policies \subseteq [actions : SUBSET STRING, per_action_limit : U64,
                         cumulative_limit : U64,
                         valid_after : Times, valid_until : Times]

\* The addresses are those of distinct accounts, finitely many of them.
ASSUME AddressAssumption ==
  /\ IsFiniteSet(Vaults) /\ IsFiniteSet(LinkIds)
  /\ Vaults \cap Links = {}
  /\ Outside \notin Vaults /\ Outside \notin Links
  /\ NoKey \notin Vaults /\ NoKey \notin Signers

VARIABLES
  config,          \* the ProtocolConfig account
  claimAuthority,  \* ClaimAuthorityConfig.authority, NoKey before it exists
  vault,           \* the Vault accounts: whether they exist, and the nonce
  session,         \* the Session accounts
  link,            \* the PaymentLink accounts
  usdc,            \* balance of each owner's associated token account
  tokenAccounts,   \* owners whose associated token account exists
  lamports,        \* lamport balance of each account
  now,             \* Clock::unix_timestamp
  executed,        \* history: the authorizations executed so far
  drawn,           \* history: USDC that left the vault under each session
  released         \* history: what left the escrow of each link

chain == <<config, claimAuthority, vault, session, link,
           usdc, tokenAccounts, lamports, now>>
history == <<executed, drawn, released>>
vars == <<config, claimAuthority, vault, session, link, usdc,
          tokenAccounts, lamports, now, executed, drawn, released>>

-----------------------------------------------------------------------------
NoVault == [exists |-> FALSE, nonce |-> 0]

NoSession ==
  [exists |-> FALSE, revoked |-> FALSE, actions |-> {},
   per_action_limit |-> 0, cumulative_limit |-> 0, spent |-> 0,
   valid_after |-> 0, valid_until |-> 0, nonce |-> 0]

NoLink ==
  [status |-> "NONE", native |-> FALSE, amount |-> 0, expires_at |-> 0,
   claimed_destination |-> NoKey]

Init ==
  /\ config = [exists |-> FALSE, paused |-> FALSE, authority |-> NoKey]
  /\ claimAuthority = NoKey
  /\ vault = [v \in Vaults |-> NoVault]
  /\ session = [s \in Sessions |-> NoSession]
  /\ link = [l \in Links |-> NoLink]
  /\ usdc = [a \in Accounts |-> IF a = Outside THEN UsdcSupply ELSE 0]
  /\ tokenAccounts = {Outside}
  /\ lamports = [a \in Accounts |-> IF a = Outside THEN SolSupply ELSE 0]
  /\ now = 0
  /\ executed = {}
  /\ drawn = [s \in Sessions |-> 0]
  /\ released = [l \in Links |-> 0]

-----------------------------------------------------------------------------
(* Helpers of the instructions.                                            *)

\* The constraint !config.paused on every account struct that loads config.
Running == config.exists /\ ~config.paused

\* token::transfer_checked: both accounts exist, the balance covers it.
CanTransfer(from, to, amount) ==
  /\ from \in tokenAccounts /\ to \in tokenAccounts
  /\ usdc[from] >= amount
  /\ from # to => usdc[to] + amount <= U64Max

Moved(balance, from, to, amount) ==
  LET debited == [balance EXCEPT ![from] = @ - amount]
  IN  [debited EXCEPT ![to] = @ + amount]

\* Faulty variant: the rent reserve is not kept.
IgnoresReserve(from, to, amount, rentReserve) ==
  /\ lamports[from] >= amount
  /\ lamports[to] + amount <= U64Max

\* transfer_program_lamports: the source keeps its rent reserve.
CanTransferLamports(from, to, amount, rentReserve) ==
  /\ lamports[from] - amount >= rentReserve
  /\ lamports[to] + amount <= U64Max

\* Faulty variant: the new account is created without its rent.
RentNotCharged(a, rent) == 0

\* Anchor's init: the payer tops the new account up to the rent minimum.
Missing(a, rent) == IF lamports[a] < rent THEN rent - lamports[a] ELSE 0
CanPayRent(a, rent) == lamports[Outside] >= Missing(a, rent)
RentPaid(a, rent) == Moved(lamports, Outside, a, Missing(a, rent))

\* An authorization expires within the TTL and has not expired yet.
ValidateAuthorizationExpiry(expires_at) ==
  /\ expires_at >= now
  /\ expires_at <= now + MaxAuthorizationTtl

\* verify_root_authorization: some signed challenge that has not expired.  The
\* owner may sign a new one at any time, so the window alone refuses nothing
\* here; that a challenge is not used again rests on its nonce.
RootAuthorized == \E t \in Times : ValidateAuthorizationExpiry(t)

\* The challenge binds the action, the vault, every argument and the nonce.
Record(v, action, nonce) ==
  executed' = executed \cup {[vault |-> v, action |-> action, nonce |-> nonce]}

\* Faulty variants: wrapping_add, and a nonce that is checked but not consumed.
UncheckedNonce(v, nonce) ==
  /\ vault[v].nonce = nonce
  /\ vault' = [vault EXCEPT ![v].nonce = nonce + 1]
ReusableNonce(v, nonce) ==
  /\ vault[v].nonce = nonce
  /\ nonce < NonceMax
  /\ UNCHANGED vault

\* vault.nonce.checked_add(1)
ConsumeVaultNonce(v, nonce) ==
  /\ vault[v].nonce = nonce
  /\ nonce < NonceMax
  /\ vault' = [vault EXCEPT ![v].nonce = nonce + 1]

ValidateSessionPolicy(p) ==
  /\ p.valid_after <= p.valid_until
  /\ p.valid_until - p.valid_after <= MaxSessionDuration
  /\ p.actions # {} /\ p.actions \subseteq SupportedSessionActions
  /\ p.per_action_limit > 0
  /\ p.per_action_limit <= p.cumulative_limit

WriteSession(p) ==
  [exists |-> TRUE, revoked |-> FALSE, actions |-> p.actions,
   per_action_limit |-> p.per_action_limit,
   cumulative_limit |-> p.cumulative_limit, spent |-> 0,
   valid_after |-> p.valid_after, valid_until |-> p.valid_until, nonce |-> 0]

\* The checks shared by the three instructions a session key may sign.
SessionUsable(s, nonce) ==
  /\ session[s].exists
  /\ ~session[s].revoked
  /\ session[s].valid_after <= now /\ now <= session[s].valid_until
  /\ "TRANSFER" \in session[s].actions
  /\ session[s].nonce = nonce
  /\ nonce < NonceMax

\* Faulty variant: only the single payment is checked.
IgnoresCumulativeLimit(s, amount) ==
  /\ amount <= session[s].per_action_limit
  /\ session[s].spent + amount <= U64Max

\* The spending checks of a session transfer and of a session-funded link.
WithinSessionLimits(s, amount) ==
  /\ amount <= session[s].per_action_limit
  /\ session[s].spent + amount <= U64Max
  /\ session[s].spent + amount <= session[s].cumulative_limit

\* Faulty variant: the session nonce is not consumed.
SpendWithoutNonce(s, amount) ==
  session' = [session EXCEPT ![s].spent = @ + amount]

SpendFromSession(s, amount) ==
  session' = [session EXCEPT ![s].spent = @ + amount, ![s].nonce = @ + 1]

ValidLinkExpiry(expires_at) ==
  expires_at > now /\ expires_at - now <= MaxPaymentLinkDuration

NewLink(native, amount, expires_at) ==
  [status |-> "ACTIVE", native |-> native, amount |-> amount,
   expires_at |-> expires_at, claimed_destination |-> NoKey]

\* History: what the step took out of the balance of an account.
DrawnBy(s) ==
  drawn' = [drawn EXCEPT ![s] = @ + (usdc[s[1]] - usdc'[s[1]])]
ReleasedUsdc(l) ==
  released' = [released EXCEPT ![l] = @ + (usdc[l] - usdc'[l])]
ReleasedLamports(l) ==
  released' = [released EXCEPT ![l] = @ + (lamports[l] - lamports'[l])]

-----------------------------------------------------------------------------
(* protocol.rs                                                             *)

InitializeProtocol(authority) ==
  /\ ~config.exists
  /\ config' = [exists |-> TRUE, paused |-> FALSE, authority |-> authority]
  /\ UNCHANGED <<claimAuthority, vault, session, link, usdc,
                 tokenAccounts, lamports, now, history>>

(* wallet.rs                                                               *)

InitializeVault(v) ==
  /\ Running
  /\ ~vault[v].exists
  /\ RootAuthorized
  /\ CanPayRent(v, RentVault)
  /\ lamports' = RentPaid(v, RentVault)
  /\ tokenAccounts' = tokenAccounts \cup {v}
  /\ vault' = [vault EXCEPT ![v] = [exists |-> TRUE, nonce |-> 0]]
  /\ Record(v, "INITIALIZE_VAULT", 0)
  /\ UNCHANGED <<config, claimAuthority, session, link, usdc, now,
                 drawn, released>>

\* Faulty variant: init_if_needed instead of init.
RegrantSession(v, k, p, nonce) ==
  /\ Running
  /\ vault[v].exists
  /\ ConsumeVaultNonce(v, nonce)
  /\ ValidateSessionPolicy(p)
  /\ RootAuthorized
  /\ session' = [session EXCEPT ![<<v, k>>] = WriteSession(p)]
  /\ Record(v, "GRANT_SESSION", nonce)
  /\ UNCHANGED <<config, claimAuthority, link, usdc, tokenAccounts,
                 lamports, now, drawn, released>>

GrantSession(v, k, p, nonce) ==
  /\ Running
  /\ vault[v].exists
  /\ ~session[<<v, k>>].exists
  /\ ConsumeVaultNonce(v, nonce)
  /\ ValidateSessionPolicy(p)
  /\ RootAuthorized
  /\ session' = [session EXCEPT ![<<v, k>>] = WriteSession(p)]
  /\ Record(v, "GRANT_SESSION", nonce)
  /\ UNCHANGED <<config, claimAuthority, link, usdc, tokenAccounts,
                 lamports, now, drawn, released>>

InitializeVaultAndGrantSession(v, k, p) ==
  /\ Running
  /\ ~vault[v].exists
  /\ ~session[<<v, k>>].exists
  /\ ValidateSessionPolicy(p)
  /\ RootAuthorized
  /\ CanPayRent(v, RentVault)
  /\ lamports' = RentPaid(v, RentVault)
  /\ tokenAccounts' = tokenAccounts \cup {v}
  /\ vault' = [vault EXCEPT ![v] = [exists |-> TRUE, nonce |-> 1]]
  /\ session' = [session EXCEPT ![<<v, k>>] = WriteSession(p)]
  /\ Record(v, "INITIALIZE_VAULT_AND_GRANT_SESSION", 0)
  /\ UNCHANGED <<config, claimAuthority, link, usdc, now, drawn, released>>

TransferWithPasskey(v, to, amount, nonce) ==
  /\ Running
  /\ vault[v].exists
  /\ amount > 0
  /\ to # v
  /\ ConsumeVaultNonce(v, nonce)
  /\ RootAuthorized
  /\ CanTransfer(v, to, amount)
  /\ usdc' = Moved(usdc, v, to, amount)
  /\ Record(v, "TRANSFER", nonce)
  /\ UNCHANGED <<config, claimAuthority, session, link, tokenAccounts,
                 lamports, now, drawn, released>>

TransferWithSession(v, k, to, amount, nonce) ==
  /\ Running
  /\ vault[v].exists
  /\ amount > 0
  /\ to # v
  /\ SessionUsable(<<v, k>>, nonce)
  /\ WithinSessionLimits(<<v, k>>, amount)
  /\ CanTransfer(v, to, amount)
  /\ SpendFromSession(<<v, k>>, amount)
  /\ usdc' = Moved(usdc, v, to, amount)
  /\ DrawnBy(<<v, k>>)
  /\ UNCHANGED <<config, claimAuthority, vault, link, tokenAccounts,
                 lamports, now, executed, released>>

(* native_sol.rs                                                           *)

TransferSolWithPasskey(v, to, amount, nonce) ==
  /\ Running
  /\ vault[v].exists
  /\ amount > 0
  /\ to # v
  /\ ConsumeVaultNonce(v, nonce)
  /\ RootAuthorized
  /\ CanTransferLamports(v, to, amount, RentVault)
  /\ lamports' = Moved(lamports, v, to, amount)
  /\ Record(v, "TRANSFER_SOL", nonce)
  /\ UNCHANGED <<config, claimAuthority, session, link, usdc,
                 tokenAccounts, now, drawn, released>>

(* payment_links.rs                                                        *)

InitializeClaimAuthority(signer, authority) ==
  /\ config.exists /\ signer = config.authority
  /\ claimAuthority = NoKey
  /\ authority # NoKey
  /\ claimAuthority' = authority
  /\ UNCHANGED <<config, vault, session, link, usdc, tokenAccounts,
                 lamports, now, history>>

CreatePaymentLinkWithSession(l, k, amount, expires_at, nonce) ==
  LET v == l[1] IN
  /\ Running
  /\ vault[v].exists
  /\ link[l].status = "NONE"         \* init: the PDA does not exist yet
  /\ l \notin tokenAccounts          \* init: nor does its escrow account
  /\ amount > 0
  /\ ValidLinkExpiry(expires_at)
  /\ SessionUsable(<<v, k>>, nonce)
  /\ WithinSessionLimits(<<v, k>>, amount)
  /\ v \in tokenAccounts
  /\ usdc[v] >= amount
  /\ usdc[l] + amount <= U64Max
  /\ CanPayRent(l, RentLink)
  /\ lamports' = RentPaid(l, RentLink)
  /\ tokenAccounts' = tokenAccounts \cup {l}
  /\ SpendFromSession(<<v, k>>, amount)
  /\ link' = [link EXCEPT ![l] = NewLink(FALSE, amount, expires_at)]
  /\ usdc' = Moved(usdc, v, l, amount)
  /\ DrawnBy(<<v, k>>)
  /\ UNCHANGED <<config, claimAuthority, vault, now, executed, released>>

\* Faulty variant: pays out whatever the escrow account holds.
ClaimWholeBalance(l, signer, recipient) ==
  /\ Running
  /\ signer = claimAuthority
  /\ vault[recipient].exists
  /\ link[l].status = "ACTIVE" /\ ~link[l].native
  /\ now <= link[l].expires_at
  /\ tokenAccounts' = tokenAccounts \cup {recipient}
  /\ usdc' = Moved(usdc, l, recipient, usdc[l])
  /\ link' = [link EXCEPT ![l].status = "CLAIMED",
                          ![l].claimed_destination = recipient]
  /\ ReleasedUsdc(l)
  /\ UNCHANGED <<config, claimAuthority, vault, session, lamports, now,
                 executed, drawn>>

ClaimPaymentLink(l, signer, recipient) ==
  /\ Running
  /\ signer = claimAuthority
  /\ vault[recipient].exists
  /\ link[l].status = "ACTIVE" /\ ~link[l].native
  /\ now <= link[l].expires_at
  /\ tokenAccounts' = tokenAccounts \cup {recipient}   \* init_if_needed
  /\ usdc[l] >= link[l].amount
  /\ usdc[recipient] + link[l].amount <= U64Max
  /\ usdc' = Moved(usdc, l, recipient, link[l].amount)
  /\ link' = [link EXCEPT ![l].status = "CLAIMED",
                          ![l].claimed_destination = recipient]
  /\ ReleasedUsdc(l)
  /\ UNCHANGED <<config, claimAuthority, vault, session, lamports, now,
                 executed, drawn>>

CancelPaymentLinkWithSession(l, k, nonce) ==
  LET v == l[1] IN
  /\ Running
  /\ vault[v].exists
  /\ link[l].status = "ACTIVE" /\ ~link[l].native
  /\ SessionUsable(<<v, k>>, nonce)
  /\ CanTransfer(l, v, link[l].amount)
  /\ session' = [session EXCEPT ![<<v, k>>].nonce = @ + 1]
  /\ usdc' = Moved(usdc, l, v, link[l].amount)
  /\ link' = [link EXCEPT ![l].status = "CANCELLED"]
  /\ ReleasedUsdc(l)
  /\ UNCHANGED <<config, claimAuthority, vault, tokenAccounts, lamports,
                 now, executed, drawn>>

\* Faulty variant: the status is not updated.
RefundWithoutSettling(l) ==
  /\ config.exists
  /\ vault[l[1]].exists
  /\ link[l].status = "ACTIVE" /\ ~link[l].native
  /\ now > link[l].expires_at
  /\ CanTransfer(l, l[1], link[l].amount)
  /\ usdc' = Moved(usdc, l, l[1], link[l].amount)
  /\ ReleasedUsdc(l)
  /\ UNCHANGED <<config, claimAuthority, vault, session, link, tokenAccounts,
                 lamports, now, executed, drawn>>

RefundExpiredPaymentLink(l) ==
  /\ config.exists
  /\ vault[l[1]].exists
  /\ link[l].status = "ACTIVE" /\ ~link[l].native
  /\ now > link[l].expires_at
  /\ CanTransfer(l, l[1], link[l].amount)
  /\ usdc' = Moved(usdc, l, l[1], link[l].amount)
  /\ link' = [link EXCEPT ![l].status = "REFUNDED"]
  /\ ReleasedUsdc(l)
  /\ UNCHANGED <<config, claimAuthority, vault, session, tokenAccounts,
                 lamports, now, executed, drawn>>

CreateSolPaymentLinkWithPasskey(l, amount, expires_at, nonce) ==
  LET v == l[1]
      funded == RentPaid(l, RentLink)
  IN
  /\ Running
  /\ vault[v].exists
  /\ link[l].status = "NONE"
  /\ amount > 0
  /\ ConsumeVaultNonce(v, nonce)
  /\ ValidLinkExpiry(expires_at)
  /\ RootAuthorized
  /\ CanPayRent(l, RentLink)
  /\ lamports[v] - amount >= RentVault
  /\ funded[l] + amount <= U64Max
  /\ link' = [link EXCEPT ![l] = NewLink(TRUE, amount, expires_at)]
  /\ lamports' = Moved(funded, v, l, amount)
  /\ Record(v, "CREATE_SOL_PAYMENT_LINK", nonce)
  /\ UNCHANGED <<config, claimAuthority, session, usdc, tokenAccounts, now,
                 drawn, released>>

ClaimSolPaymentLink(l, signer, recipient) ==
  /\ Running
  /\ signer = claimAuthority
  /\ vault[recipient].exists
  /\ link[l].status = "ACTIVE" /\ link[l].native
  /\ now <= link[l].expires_at
  /\ CanTransferLamports(l, recipient, link[l].amount, RentLink)
  /\ lamports' = Moved(lamports, l, recipient, link[l].amount)
  /\ link' = [link EXCEPT ![l].status = "CLAIMED",
                          ![l].claimed_destination = recipient]
  /\ ReleasedLamports(l)
  /\ UNCHANGED <<config, claimAuthority, vault, session, usdc,
                 tokenAccounts, now, executed, drawn>>

CancelSolPaymentLinkWithPasskey(l, nonce) ==
  LET v == l[1] IN
  /\ Running
  /\ vault[v].exists
  /\ link[l].status = "ACTIVE" /\ link[l].native
  /\ ConsumeVaultNonce(v, nonce)
  /\ RootAuthorized
  /\ CanTransferLamports(l, v, link[l].amount, RentLink)
  /\ lamports' = Moved(lamports, l, v, link[l].amount)
  /\ link' = [link EXCEPT ![l].status = "CANCELLED"]
  /\ ReleasedLamports(l)
  /\ Record(v, "CANCEL_SOL_PAYMENT_LINK", nonce)
  /\ UNCHANGED <<config, claimAuthority, session, usdc, tokenAccounts, now,
                 drawn>>

\* Faulty variant: the status is not updated.
RefundSolWithoutSettling(l) ==
  /\ config.exists
  /\ vault[l[1]].exists
  /\ link[l].status = "ACTIVE" /\ link[l].native
  /\ now > link[l].expires_at
  /\ CanTransferLamports(l, l[1], link[l].amount, RentLink)
  /\ lamports' = Moved(lamports, l, l[1], link[l].amount)
  /\ ReleasedLamports(l)
  /\ UNCHANGED <<config, claimAuthority, vault, session, link, usdc,
                 tokenAccounts, now, executed, drawn>>

RefundExpiredSolPaymentLink(l) ==
  /\ config.exists
  /\ vault[l[1]].exists
  /\ link[l].status = "ACTIVE" /\ link[l].native
  /\ now > link[l].expires_at
  /\ CanTransferLamports(l, l[1], link[l].amount, RentLink)
  /\ lamports' = Moved(lamports, l, l[1], link[l].amount)
  /\ link' = [link EXCEPT ![l].status = "REFUNDED"]
  /\ ReleasedLamports(l)
  /\ UNCHANGED <<config, claimAuthority, vault, session, usdc,
                 tokenAccounts, now, executed, drawn>>

-----------------------------------------------------------------------------
(* Other programs and the cluster.                                         *)

\* Anyone may create the associated token account of any address.
OpenTokenAccount(a) ==
  /\ a \notin tokenAccounts
  /\ tokenAccounts' = tokenAccounts \cup {a}
  /\ UNCHANGED <<config, claimAuthority, vault, session, link, usdc,
                 lamports, now, history>>

\* Anyone may send USDC to an open token account, an escrow's included.
DepositUsdc(a, amount) ==
  /\ CanTransfer(Outside, a, amount)
  /\ usdc' = Moved(usdc, Outside, a, amount)
  /\ UNCHANGED <<config, claimAuthority, vault, session, link,
                 tokenAccounts, lamports, now, history>>

\* Anyone may send lamports to any address, a PDA not yet created included.
DepositSol(a, amount) ==
  /\ CanTransferLamports(Outside, a, amount, 0)
  /\ lamports' = Moved(lamports, Outside, a, amount)
  /\ UNCHANGED <<config, claimAuthority, vault, session, link, usdc,
                 tokenAccounts, now, history>>

Tick ==
  /\ now < MaxTime
  /\ now' = now + 1
  /\ UNCHANGED <<config, claimAuthority, vault, session, link, usdc,
                 tokenAccounts, lamports, history>>

-----------------------------------------------------------------------------
Administration ==
  \/ \E a \in Signers : InitializeProtocol(a)
  \/ \E signer, a \in Signers : InitializeClaimAuthority(signer, a)

WalletInstructions ==
  \E v \in Vaults :
    \/ InitializeVault(v)
    \/ \E k \in SessionKeys, p \in Policies :
         InitializeVaultAndGrantSession(v, k, p)
    \/ \E k \in SessionKeys, p \in Policies, n \in Nonces :
         GrantSession(v, k, p, n)
    \/ \E to \in Accounts, amount \in Amounts, n \in Nonces :
         TransferWithPasskey(v, to, amount, n)
    \/ \E k \in SessionKeys, to \in Accounts, amount \in Amounts, n \in Nonces :
         TransferWithSession(v, k, to, amount, n)
    \/ \E to \in Accounts, amount \in SolAmounts, n \in Nonces :
         TransferSolWithPasskey(v, to, amount, n)

LinkInstructions ==
  \E l \in Links :
    \/ \E k \in SessionKeys, amount \in Amounts, t \in Times, n \in Nonces :
         CreatePaymentLinkWithSession(l, k, amount, t, n)
    \/ \E signer \in Signers, r \in Vaults : ClaimPaymentLink(l, signer, r)
    \/ \E k \in SessionKeys, n \in Nonces : CancelPaymentLinkWithSession(l, k, n)
    \/ RefundExpiredPaymentLink(l)
    \/ \E amount \in SolAmounts, t \in Times, n \in Nonces :
         CreateSolPaymentLinkWithPasskey(l, amount, t, n)
    \/ \E signer \in Signers, r \in Vaults : ClaimSolPaymentLink(l, signer, r)
    \/ \E n \in Nonces : CancelSolPaymentLinkWithPasskey(l, n)
    \/ RefundExpiredSolPaymentLink(l)

Environment ==
  \/ \E a \in Vaults \cup Links : OpenTokenAccount(a)
  \/ \E a \in Vaults \cup Links, amount \in Amounts : DepositUsdc(a, amount)
  \/ \E a \in Vaults \cup Links, amount \in SolAmounts : DepositSol(a, amount)
  \/ Tick

Next == Administration \/ WalletInstructions \/ LinkInstructions \/ Environment

Spec == Init /\ [][Next]_vars

-----------------------------------------------------------------------------
(* Properties.                                                             *)

SessionRecords ==
  [exists : BOOLEAN, revoked : BOOLEAN, actions : SUBSET STRING,
   per_action_limit : U64, cumulative_limit : U64, spent : U64,
   valid_after : Times, valid_until : Times, nonce : Nonces]

LinkRecords ==
  [status : LinkStatuses, native : BOOLEAN, amount : Nat,
   expires_at : Times, claimed_destination : Vaults \cup {NoKey}]

Authorizations == [vault : Vaults, action : RootActions, nonce : Nonces]

\* Every account of the program keeps the layout of state.rs, every balance
\* is a natural number and the clock stays within its bound.
TypeOK ==
  /\ config \in [exists : BOOLEAN, paused : BOOLEAN,
                 authority : Signers \cup {NoKey}]
  /\ claimAuthority \in Signers \cup {NoKey}
  /\ vault \in [Vaults -> [exists : BOOLEAN, nonce : Nonces]]
  /\ session \in [Sessions -> SessionRecords]
  /\ link \in [Links -> LinkRecords]
  /\ usdc \in [Accounts -> Nat]
  /\ tokenAccounts \subseteq Accounts
  /\ lamports \in [Accounts -> Nat]
  /\ now \in Times
  /\ executed \subseteq Authorizations
  /\ drawn \in [Sessions -> Int]
  /\ released \in [Links -> Int]

\* While l is active its escrow covers it.
Backed(l) ==
  link[l].status = "ACTIVE" =>
    IF link[l].native
      THEN lamports[l] >= RentLink + link[l].amount
      ELSE l \in tokenAccounts /\ usdc[l] >= link[l].amount

\* The escrow of an active link holds at least what the link promises: the
\* escrow token account for a USDC link, the link account above its own rent
\* reserve for a native link.  No sequence of claims, cancels, refunds,
\* transfers and deposits on other links can dip into it
\* (payment_links.rs, transfer_from_link and transfer_program_lamports).
EscrowBacked == \A l \in Links : Backed(l)

\* What has left the escrow of a link, measured on the balances, is nothing
\* while it is active and exactly its amount once it is claimed, cancelled
\* or refunded: a link pays once, whichever of the three came first.
ReleasedExactlyOnce ==
  \A l \in Links :
    released[l] = IF link[l].status \in SettledStatuses
                    THEN link[l].amount ELSE 0

\* All the USDC that ever left a vault under a session key, links that were
\* cancelled afterwards included, stays within the cumulative limit the
\* owner signed for that key (wallet.rs transfer_with_session,
\* payment_links.rs create_payment_link_with_session).
SessionWithinLimit ==
  \A s \in Sessions : drawn[s] <= session[s].cumulative_limit

\* The passkey authorizations of v that consumed a nonce.
Spends(v) == {c \in executed : c.vault = v /\ c.action # "INITIALIZE_VAULT"}

NonceCounts(v) ==
  /\ \A n \in 0 .. vault[v].nonce - 1 : \E c \in Spends(v) : c.nonce = n
  /\ \A c \in Spends(v) : c.nonce < vault[v].nonce
  /\ \A c, d \in Spends(v) : c.nonce = d.nonce => c = d

\* A vault's nonce counts its executed passkey authorizations: each value
\* below the current nonce was consumed by exactly one of them.  A signed
\* challenge submitted twice, or two challenges signed for one nonce, cannot
\* both execute (auth.rs, and the vault.nonce checks of every passkey
\* instruction).
AuthorizationsExecuteOnce == \A v \in Vaults : NonceCounts(v)

\* A vault account never falls below its rent-exempt minimum, so native
\* transfers and native links cannot make the runtime reclaim it.
RentReserveKept ==
  \A v \in Vaults : vault[v].exists => lamports[v] >= RentVault

\* Once a link's time is over, anyone can return the money to its sender:
\* no state of the escrow, of the sender's vault or of the protocol makes
\* refund_expired_payment_link or refund_expired_sol_payment_link fail.
RefundNeverBlocked ==
  \A l \in Links :
    (link[l].status = "ACTIVE" /\ now > link[l].expires_at)
      => ENABLED (RefundExpiredPaymentLink(l) \/ RefundExpiredSolPaymentLink(l))

\* USDC leaves a vault only in a step that consumes one nonce of that vault
\* or one nonce of a session of that vault, and in the second case what left
\* is charged to the session, is at most its per-action limit and leaves
\* inside its validity window.
DebitsAreAuthorized ==
  [][\A v \in Vaults : usdc'[v] < usdc[v] =>
       \/ vault'[v].nonce = vault[v].nonce + 1
       \/ \E k \in SessionKeys :
            LET s == <<v, k>> IN
            /\ session'[s].nonce = session[s].nonce + 1
            /\ session'[s].spent = session[s].spent + (usdc[v] - usdc'[v])
            /\ usdc[v] - usdc'[v] <= session[s].per_action_limit
            /\ session[s].valid_after <= now /\ now <= session[s].valid_until]_vars

\* A granted session is never widened: its limits and its window stay as the
\* owner signed them, and what it has spent is never forgotten, so granting
\* the same key again cannot restart its budget.
SessionNeverWidened ==
  [][\A s \in Sessions : session[s].exists =>
       /\ session'[s].exists
       /\ session'[s].cumulative_limit = session[s].cumulative_limit
       /\ session'[s].per_action_limit = session[s].per_action_limit
       /\ session'[s].valid_until = session[s].valid_until
       /\ session'[s].spent >= session[s].spent
       /\ session'[s].nonce >= session[s].nonce]_vars

(***************************************************************************)
(* The program carries the promise of a payment link.  What has been paid  *)
(* is measured on the balances (released), not read from the status.       *)
(***************************************************************************)
Escrow == INSTANCE LinkEscrow WITH
  Parties <- Vaults,
  Nobody <- NoKey,
  Promises <- Amounts \cup SolAmounts,
  Instants <- Times,
  status <- [l \in Links |-> link[l].status],
  promise <- [l \in Links |-> link[l].amount],
  deadline <- [l \in Links |-> link[l].expires_at],
  payee <- [l \in Links |-> link[l].claimed_destination],
  paid <- released,
  clock <- now

\* Every behaviour of the program is one LinkEscrow allows: terms are fixed
\* when the link is created, each link pays its amount once, a claim never
\* comes after the expiry and a permissionless refund never before.
ImplementsLinkEscrow == Escrow!Spec
=============================================================================
