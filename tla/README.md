# A TLA+ verification project for VeriAgent Pay (Solana edition)

VeriAgent Pay lets users of chat platforms hold USDC and SOL in passkey-owned
vaults on Solana and pay each other by message, by claim link and through
delegated session keys. Money is held by an Anchor program
(`src/contracts/anchor/programs/veriagent_pay`). A NestJS backend
(`src/backend`) keeps a database of links, sessions and spending, relays
transactions and signs with delegated keys. A web frontend (`src/frontend`)
asks users for their passkey.

This project models the code that decides where money goes and what users are
told about it. It checks the models with TLC on small instances and proves the
safety properties of the on-chain program and of the backend's services with
TLAPS for every instance.

## 1. Inventory

| Component | State | Operations | Talks to | What is hard | What makes it correct |
|---|---|---|---|---|---|
| Anchor program: vaults, sessions, transfers (`wallet.rs`, `native_sol.rs`, `protocol.rs`) | config, vault nonce, session limits and nonce, token and lamport balances | initialise, grant, transfer by passkey, transfer by session | SPL token program, cluster clock | replays, limits at equality, u64 edges, rent reserve | each nonce used once; a session stays within what its owner signed; no account below its rent |
| Anchor program: payment links (`payment_links.rs`, `native_sol.rs`) | one link account and one escrow per link | create, claim, cancel, refund, in USDC and in SOL | the same | claim, cancel and refund compete; stray deposits | funded while active; paid out once, in full |
| Anchor program: passkey verification (`auth.rs`) | none | verify a challenge against a secp256r1 instruction | instructions sysvar | replay, expiry window | a challenge is bound to action, vault, arguments and nonce |
| Backend USDC links (`escrow/solana-payment-links.service.ts`, `cron/expiry.cron.ts`) | `ShortLink` rows | createClaimLink, claim, cancelClaimLink, sweepExpired | relayer, chain client, database | check-then-act across awaits, lost confirmations, sweeps without a lock, restarts | a row never says what the chain does not; active links end |
| Solana chain client (`chains/solana/solana-chain.service.ts`) | none | simulate, send, confirm, read accounts | RPC node | a confirmation that times out while the transaction lands | an error does not mean that nothing moved |
| Solana relayer (`relayer/solana-relayer.service.ts`) | `SessionKey` and `SpendingRecord` rows | session transfers, link creation and cancellation, revocation | chain client, database | session nonce read before it is used; daily limit is check-then-act | session signs only while active |
| Passkey approvals (`relayer/solana-passkey-execution.service.ts`) | staged approvals in Redis, `ShortLink` and `SessionKey` rows | prepare*, executeAction | Redis, chain client, database | stale nonce, one approval executed twice, partial failure | one execution per approval and per nonce; rows follow the chain |
| Session spending limits (`relayer/solana-relayer.service.ts`; `core/hot-state.service.ts` for the EVM relayer) | spending rows, Redis counters | check, record | Redis, database, chain client | check-then-act, unrecorded spending | the daily limit bounds what leaves the vault |
| Deposit listener (`deposits/`) | block cursor, `Deposit` rows | tick, scanOnce | RPC node, database, notifications | a log that fails, a scan that fails, two instances during a deployment | every deposit credited once |
| EVM relayer and hot state (`relayer/relayer.service.ts`, `core/hot-state.service.ts`) | session keys and spending counters in Redis, `SpendingRecord` rows | executeLocalSessionAction, revokeSessionKey, warm-up | Redis, database, EVM vaults | a payment given up after 60 seconds lands later; a restart rebuilds counters from rows, or fails to; Redis calls that fail | a key pays one daily limit per restart at most; a revoked key does not come back |
| Red envelopes (`envelopes/`, `relayer/claim-retry.service.ts`) | `RedEnvelope`, `EnvelopeClaim`, `PendingClaim` rows | create, claim, cancel, retry job | relayer, escrow contract | claims overwrite each other's count; claims that land and cannot be recorded | recorded claims were paid; nobody is turned away early |
| Pools and loans (`pools/`) | `GroupPool`, `PoolMember`, `LoanApplication`, `LoanVote` rows | create, invite, join, deposit, withdraw, request, vote, execute, repay, extend, write off, close, reminder job | relayer, lending contract | rows claimed before the chain call, rolled back after it; snapshots; lost receipts | a REPAID loan is repaid; a vote counts as cast; a closed pool is empty |
| Split bills, payment requests, yield vault (`splits/`, `requests/`, `vault/`) | `BillSplit`, `SplitParticipant`, `PaymentRequest`, `VaultDeposit` rows | paySplit, payRequest, cancelRequest, deposit, withdraw | relayer | status written in several statements after the payment | only payments that landed are recorded |
| Referrals (`referral/`) | `Referral`, `RewardPoint` rows | processReferral, three milestones, daily job | database | milestones reported twice, a restart between claim and reward | a milestone pays once, in order |
| Login challenges (`auth/`) | challenges in Redis | issue, verify | Redis | one-time use | a challenge logs in once |
| Chat platforms, parser, admin, frontend and the rest | mostly single rows or none | formatting, wording, administration | all of the above | little protocol of their own | — |

`PROJECT.json` lists every component with its sources and its status, and, as
*hazards*, the places of the code where an order of events that a test hardly
reaches could go wrong, each with the properties that would notice.

## 2. Modules

```
LinkEscrow  (abstract: what a payment link promises)
   ^ refined by                          ^ used as the chain by, and refined by
VaultProgram (the Anchor program)      PaymentLinkService (backend, USDC links)
   ^ EXTENDS                             ^ EXTENDS
MCVaultProgram, VaultProgramProofs     MCPaymentLinkService, PaymentLinkServiceProofs,
                                       MCSettlement -- INSTANCE -> DepositListener
                                          ^ SettlementProofs
                                       MCChatPayments -- INSTANCE -> RedEnvelopes,
                                          ^           SessionPayments, Referrals
PasskeyExecution                       ChatPaymentsProofs
   ^ MCPasskeyExecution,
     PasskeyExecutionProofs            SessionSpending <- SessionSpendingProofs

GroupPools                             SumTheorems (sums over finite sets; used by
   ^ MCGroupPools, GroupPoolsProofs    VaultProgram-, SessionSpending-,
                                       ChatPayments- and GroupPoolsProofs)
```

### VaultProgram
One action per instruction, named after it, with the instruction's `require!`
checks and account constraints as its guard and its writes as its primed
variables. State: `config` and `claimAuthority` (the two configuration
accounts), `vault`, `session`, `link` (the accounts of `state.rs`), `usdc` and
`tokenAccounts` (associated token accounts), `lamports`, and `now` (the
cluster clock). Three history variables are measured on balances or
record what executed, so properties do not trust the program's own counters:
`executed` (authorizations), `drawn` (USDC that left a vault under a session)
and `released` (what left an escrow).

* A Solana instruction is atomic, so a failed one is a stutter.
* A passkey signature is an input: a vault's owner may sign anything, and
  anyone may submit a signed challenge, any number of times.
* `Environment` is what other programs do: opening token accounts, sending
  USDC or lamports to any address (also one that does not exist yet), time.
* Left out because nothing reads it back: `recipient_commitment` (its non-zero
  check is taken to have passed), `created_at`, `settled_at`. `revoked` and
  `paused` are state but no instruction ever sets them.
* `U64Max` and `NonceMax` keep the `checked_add` failures.

### LinkEscrow
The promise: terms fixed at creation; one payout of the whole amount; claims
until the deadline, permissionless refunds only after it; the sender may
cancel at any time before settlement. `ImplementsLinkEscrow` maps its `paid`
to the measured `released`, not to a status.

### PaymentLinkService
The handlers of `SolanaPaymentLinksService` as processes: each action runs from
one `await` to the next, and `handler[h]` holds what the code keeps in local
variables across it. `submit` is split into simulation and sending (`Submit`),
inclusion by the cluster (`Land`), refusal (`ChainRefuses`) and
`LoseConfirmation`: the caller sees an error although the transaction is on
its way (it joins `orphans`, to land or expire later) or has landed. `Abort` is
a restart of the process or a failing database call. On chain a link is
`LinkEscrow`, which `VaultProgram` is proved to implement, plus the session
nonce that creation and cancellation consume. Simplifications: one sender with
one session that is not granted again after it ends; backend and cluster share
one clock; every link has amount 1, so the comparison of amounts and of the
recipient commitment in `claim` holds; the rate limiter of `claim` is left out.

### PasskeyExecution
`prepare*` reads the vault nonce and stages an approval; `executeAction` takes
it (GETDEL), submits it and records the outcome. Same treatment of
transactions. `SettleElsewhere` and `SyncElsewhere` stand for what claims and
sweeps do to native links, which `PaymentLinkService` has in full for USDC. `RecordOutcome`
takes the update of a link's row and the closing transaction in one step. Of
what the latter writes only a session's activatedAt is modelled, and no kind of
approval writes both a link and a session.

### SessionSpending
One granted session key and the requests that spend with it. `records` is what
the SpendingRecord rows add up to per timestamp, `drawn` what really left the
vault, so the gap that check-then-act, lost confirmations and failing inserts
open between the two is visible. The chain part is the session account of
`VaultProgram`: nonce, `spent`, and the cumulative limit that
`prepareSessionGrant` puts in the grant. Vault balance, the biometric check and
failing reads only refuse a request (`ChainRefuses`, or a request that never
begins). A cancellation consumes a nonce and spends (and records) nothing.

### DepositListener
One action per statement of `scanOnce` that reads or writes shared state: the
finalized head, the cursor, the wallet index, each log with its row and its
announcement, the cursor again. Two instances share the cursor row, as they do
while one replaces the other; the slower one may save an older cursor over a
newer one. `LogFails` is the error of one log, which is passed over; `TickFails`
any other error or a restart.

### GroupPools
One pool with its rows and its contract. Every operation of `PoolsService`
reads the pool first (`findOne`), so a handler acts on a snapshot; where the
code claims a row before its vault call and gives it back when the call throws
(repayments, votes, `executeLoan`), the claim, the call, the result and the
rollback are separate steps. The call itself may land, be refused, or be given
up by the relayer while its transaction is on its way (`LoseReceipt`); `Abort`
is a restart. The lending contract is not part of the repository; its part
(`Contract*`) is written from the calls, the reads and the comments of the
service. Its nonce is left out because it only adds refusals. `disturbed` is a
history variable: money came in, or somebody who holds a share got a member row
(`ListMember`), after a wind-down had taken its list of members.
`ClosedPoolIsEmpty` leaves such wind-downs out, because closePool pays the
members it listed. Votes to write a loan off have their rows in the table of
the approvals and never go to the chain; `pardons` remembers them, so that
`VotesAreCast` can speak of every other recorded vote. `lostClaims` names the
one claim or vote a restart cut off (`Claims`), so that a restart excuses that
row only.

The `executeVaultCall` of the pools, and the vault calls of RedEnvelopes and
SessionPayments, go through the EVM `RelayerService`, which these services were
written for. In the wiring of this commit that name is bound to
`SolanaRelayerService` (`relayer.module.ts:45`), whose
`executeLocalSessionAction` throws at once (`solana-relayer.service.ts:424`), and
the repository's README calls the EVM services dormant. The three modules are
therefore about the services' own code with a relayer that executes calls;
refusal is always possible in them, so their safety properties also hold of the
shipped wiring, where every call is refused.

### RedEnvelopes
One envelope with the creator's vault nonce, which create and cancel depend on:
an approval and the creation with consecutive nonces, a notice and, an hour
later, the refund. A claim computes the new count from what it read before its
call. `pending` is the queue of the retry job.

### SessionPayments
What `executeLocalSessionAction` does for the chat services: the nonce (0 when
it cannot be read), the reservation in Redis (one Lua script, so one step), the
grant check, the transaction, the 60 seconds, the asynchronous spending row.
Three callers write their own rows afterwards: `paySplit`, `payRequest` and the
yield vault. Every payment costs 1.

Redis may fail at every call. A reservation that throws may have been made
(`RefuseReserve`). A grant that is missing, or cannot be read, takes the key out
of the row and of Redis, and nobody waits for either write (`RefuseGrant`).
revokeSessionKey writes the row and then removes the key outside any try
(`Uncache`): if that throws, the row is revoked and the key is still cached, and
the history variable `uncleared` says so. A restart ends every request and
warms Redis. `onModuleInit` catches its errors and only logs them, so the
backend starts however far it got: everything (`Restart` with all keys and
counters), some keys and no counters, or Redis emptied and nothing set
(`Restart` with less), or Redis not even emptied (`RestartUncleared`, which
keeps any of the old keys and counters). `forgotten` is what the counters lost
by restarts.

A revoked key that stays cached is of little use: the services choose keys by
their rows and find it revoked, so it serves only requests that had read the row
before. Two things are stated about the failures instead of excused away:
`RevokedKeysAreNotCached` names them as the only ways for a revoked key to be
cached, and `LimitPerRestart` bounds what a key can pay by one daily limit for
every restart, however little of the counters survived it.

`Stories` says which payments and disturbances happen together in one
behaviour, so that the instance stays small: restarts with revocations and
requests, restarts with splits, and splits and requests with ended grants, a
passed deadline, a cancelled request or yield deposits.

### Referrals
Referral rows, the anti-sybil count, and the milestones with their conditional
update and the reward rows that follow it.

### The composed instances
MCSettlement and MCChatPayments put services side by side that share no state.
A behaviour belongs to one of them, so their state spaces add up; the point is
to check each under one set of handlers, transactions and restarts without
repeating the instance.

## 3. Runs

| Run | Instance | Question |
|---|---|---|
| `vault_usdc` | 2 vaults, 1 session key, 1 link id per vault, 5 policies (3 invalid), amounts 1–2, supply 2 | sessions and USDC links under every order of instructions |
| `vault_sol` | 2 vaults, rents of 1, supply 5 | passkey nonces and native links sharing lamports with rent: are active links covered, and refundable? |
| `link_races` | 2 links, 2 users, 2 handlers, up to 2 late transactions | does the row ever say what the chain does not? |
| `settlement` | 1 link, 2 handlers, 2 late transactions; 2 listeners, 2 blocks, 1 fault; fairness | does an active link always end? is every deposit credited, once? |
| `passkey_races` | 4 approvals, 2 handlers, 1 late transaction | one execution per approval and nonce; rows follow the chain |
| `spending_races` | 2 requests, daily limit 2, a window shorter than the session; fairness | does more than the daily limit ever leave within 24 hours? does a revocation end the key's use? |
| `pools` | 4 members, 2 requests at a time, 2 loan rows, 1 late transaction, 1 restart, six workloads | are claims on rows given back, votes cast, closed pools empty? |
| `chat_payments` | 2 handlers; 2 claimers and 2 shares; 2 payers, a limit of 1 and 1 restart; 2 referrers and referees | are only payments recorded that landed? does a key stay within its limit per restart, and a revoked one out of the cache? are rewards given once? |
| `link_failed_creation` | 1 link, 2 handlers | expected violation, see findings |
| `spending_renewal` | 1 request, session longer than a day | expected violation, see findings |
| `pool_instalments` | 1 loan, no failures | expected violation, see findings |
| `envelope_cancel` | 1 envelope, 1 share | expected violation, see findings |

**Bounds.** Vaults and escrows interact in pairs (a sender and a recipient), so
two vaults are enough for every instruction to be applied to itself and to
another. Supply 2 with amounts 1 and 2 lets balances, per-action and cumulative
limits be met exactly and exceeded by one. `NonceMax` 2 reaches `checked_add`'s
failure after two authorizations. The clock runs to 2, so a link or a session
of duration 1 has a moment before, at and after its limit. Two handlers on two
links let a claim, a cancel or a sweep overlap with each other and with two
transactions left behind by earlier ones, and two links share the session
nonce and a sweep's list. Four approvals allow grant, link, cancellation, and a
rival for one of their nonces. Two blocks with a span of 1 make a scan stop
short of the head. Three members are the fewest a pool may have
(`MIN_POOL_MEMBERS`), so a loan needs both others or is refused by both; the
fourth joins or is invited later, and is the one who has not approved a loan
when it is to be written off. A principal of 2 has two instalments. A
`workload` of GroupPools is where a behaviour starts and which operations it calls together: custody from nothing,
voting, wind-down, repayment against wind-down, defaults, extensions. A daily
limit of 1 makes every second payment of a key meet the limit; with one restart
TLC reaches two payments of such a key, which `LimitPerRestart` allows, and a
third is what it excludes. Deadlock
checking is off because a run really ends: everything is settled and the
bounds are reached. Symmetry is used for vaults, users, codes, handlers,
members and approvals in runs that check safety only; the values are
interchangeable there (the MC modules leave out constants the configuration
distinguishes).

**Fairness** (`SettlementSpec`). For links, as `FairSpec` of PaymentLinkService:
the clock advances, awaits of the cron handler end, and the daily job
(`expiry.cron.ts`) is started again and again. Strong fairness of the sweep's
own steps says that none of them fails on every attempt: a refund that is
simulated and sent day after day lands some day. No fairness is assumed of user
requests, of late transactions or of other handlers. Without it a cluster that
rejects every refund forever would keep a link active, and no code could help.
For deposits, weak fairness of the scan of one instance, the `Survivor`: `tick`
sets its timer again in `finally`, whatever became of the scan, and awaits end.
The other instance may stop for good anywhere, and may still save a stale cursor.

`FairSpec` of SessionSpending (`spending_races`) assumes only that the
awaits of a request end, with an answer or an error (the HTTP and RPC clients
time out), and that a transaction with an old blockhash is dropped.

Every property has a mutant in `PROJECT.json`: a version of the code with a
plausible mistake (defined in the modules as a *faulty variant* in front of
the definition it replaces) under which TLC finds the property violated.

## 4. Findings

* **A failed creation may have moved funds** (`link_failed_creation`).
  `createClaimLink` marks the row FAILED, without `envelopeId`, whenever the
  funding call throws, also when only the confirmation was lost. The bot then
  answers "No funds were moved." The escrow may be funded, and claim, cancel
  and sweep all ignore the row. On chain the money is not lost:
  `refund_expired_payment_link` is permissionless (`RefundNeverBlocked`), but
  nothing in the backend calls it for a FAILED row.
* **The daily limit does not renew** (`spending_renewal`). The grant's
  cumulative limit, which the program never resets, is set to the daily limit.
  This is also why `DailyLimitHolds` holds although the backend's own check can
  be raced: with a larger cumulative limit TLC finds two concurrent
  transfers over the daily limit. But a seven-day session with a $100 daily
  limit spends $100 in all, and the session page promises otherwise.

* **Instalments never close a loan** (`pool_instalments`). `repayLoan` compares
  each payment with the whole debt, so no instalment is a settlement, while the
  contract closes the loan with the last of them. The row stays EXECUTED, which
  blocks new loans and `closePool`, until the reminder job makes it DEFAULTED.
* **The refund of an envelope is refused** (`envelope_cancel`). After the
  hour's notice the refund is signed with the vault's nonce plus one, as if the
  notice were part of the same request. It succeeds only when another call of
  the creator happens to land in between.

The last two lie in `pools.service.ts` and `envelopes.service.ts` and show as
soon as the relayer executes their calls. In the shipped wiring
`SolanaRelayerService.executeLocalSessionAction` refuses them first (section 2).

Seen while modelling, and not the subject of a run: votes to write a loan off
share a table with its approvals, so that one new vote forgives the loan and,
in a pool where everybody approved it, nobody can. The comment above the
threshold says otherwise: "forgiving a debt should be no easier than granting
it" (`pools.service.ts:2149`). `RepaidIsSettled` takes a loan that was written
off by any count as settled.

Seen while modelling, without a line of the repository that states the
contrary: the claim page reports an expired link's funds as returned before the
sweep has run; a slower vote writes its tally over a loan that a faster one has
disbursed; `paySplit` does not look at `hasPaid`, so a share can be paid twice,
and a slower payment writes PARTIAL over COMPLETED (TLC reaches both, and
`RecordedPaymentsLanded` does not exclude them); a claim that landed but was
not recorded is retried against an escrow that refuses it; a restart gives back
to a session key what was reserved for payments still on their way, and one
whose warm-up fails may give back the whole day; a revocation whose removal from
Redis fails leaves the key cached until Redis is emptied or the key expires.
PROJECT.json lists them under hazards.

## 5. Proofs

A run of TLC settles a question for a few vaults, handlers and links; the
theorems settle it for any number of them and any limits. Every module has the
same plan: an invariant that is inductive (`IInv`, checked with TLC on the run's
instance before it was proved), its three facts `Init => IInv`,
`IInv /\ [Next]_vars => IInv'` and `IInv => property`, and one line of temporal
logic. What makes each inductive is named below; it is what the code relies on
and does not say.

**Assumptions.** Each is about constants, is named in the module that declares
them, and TLC evaluates it in the runs. Numbers are naturals and "none" values
are not members of the sets they stand outside of. `ConstantsAssumption`:
supplies fit in u64, policies are records of the right type.
`AddressAssumption`: vaults, links, outside accounts and the null key are
different addresses, finitely many. `ServiceAssumption`, `PasskeyAssumption`,
`SpendingAssumption`, `ChatAssumption`: finitely many links, approvals,
requests, users. `ListenerAssumption`: bounds are naturals. `SpendingAssumption` also has the
per-transaction limit within the daily one. `PoolAssumption`: finitely many
members and loans, at least one request at a time, a positive principal, and
workloads that start from one of the three starting points.

### The program (VaultProgramProofs)

* `TypeCorrect`: `Spec => []TypeOK`. One lemma per group of instructions.
* `EscrowSafe`, `PaysOnce`: EscrowBacked and ReleasedExactlyOnce. The two are
  inductive together, given `TypeOK`: `released` equals the amount only because
  a payout takes exactly the amount, and it can because the escrow is backed.
  `LinkStepEffect` shows that a link instruction opens or pays one link and
  leaves every other undisturbed; `OtherStepsUndisturbed` that no other step
  touches an escrow except by adding to it.
* `SessionsBounded`: SessionWithinLimit. The limit speaks of `drawn`, measured
  on balances. The strengthening `SessionInv` links it to the program's own
  counter: what was drawn is what `spent` says, and `spent` is within the
  cumulative limit.
* `NoReplay`: AuthorizationsExecuteOnce, strengthened with: a vault that does
  not exist has nonce 0, so the instruction that creates it at nonce 1 is the
  first to consume nonce 0.
* `SessionsNotWidened`, `DebitsAuthorized`: the action properties, one step per
  instruction, from the invariants above.
* `ReserveSafe`: RentReserveKept, inductive given `TypeOK`: each step leaves a
  vault account alone, adds to it, or takes from it and leaves the reserve.
* `RefundsReady`: every check of the two refund instructions except the clock
  passes for every active link. It needs that every instruction is a chain of
  transfers, rent payments included, so that the sums of the balances stay
  (`SumsKept`): the supply fits in u64, and so does every balance a refund adds
  to. `RefundNeverBlocked` says the same with
  ENABLED, which the prover does not handle, and stays with TLC.
* `Refinement`: `Spec => ImplementsLinkEscrow`. Initial states map to initial
  states; each instruction maps to Open, Claim, Cancel or Refund of one link, or
  to a stutter, the clock to Advance. It uses `EscrowInv` (so that the released
  amount is the promise) and `PayeeInv` (a link that is not settled has no
  destination).

### Payment links of the backend (PaymentLinkServiceProofs)

`TypeCorrect`, `RecordsFollowChain`, `ClaimantPaid`, `FinalRecords`. The
updates of the service go by key and look at no status, so what keeps a record
true is where each handler may be. `Places` says so: createClaimLink works on a
PENDING record of its own (`OneCreator`); every other handler, and every code
on the sweep's list, has a record that once was ACTIVE; and a handler whose
transaction was confirmed finds the escrow settled in its own way, by its own
user. `OrphansHaveRecords` keeps abandoned transactions apart from links that
do not exist yet. `Nonces` counts the session nonce (links opened plus links
cancelled), which bounds it in `TypeOK`. `ServiceImplementsEscrow` is the
refinement of `LinkEscrow` by the chain the service drives.

`OverdueLinksEnd` is the safety half of `ActiveLinksSettle`: nothing but the
scheduler stands between an overdue link and its refund. `DeadlineInv`: from
the funding on the record's expiresAt is the escrow's deadline, a record that
is ACTIVE has its envelope and so is in the sweep's query, and a sweep or refund
at work holds only codes whose time is over, which stays so.

### Passkey approvals (PasskeyExecutionProofs)

`TypeCorrect`, `OneExecution`, `TakenOnce`, `SessionsGranted`,
`RowsFollowChain`, `ClosedRowsStay`. `Nonces`: the vault nonce is the number of
executed approvals, no approval was prepared on a later one, and what executed
was prepared on an earlier one. `Held`: who holds an approval took it out of
Redis, alone. `PendingRows` is what makes the update by code safe: while an
approval for a new link is staged or held, its row is PENDING. `Targets` and
`Landed` tie cancellations and confirmed requests to the escrow.

### Spending limits (SessionSpendingProofs)

`TypeCorrect`, `DailyLimitSafe`, `RowsAreBacked`. `SpentIsDrawn`: Session.spent
is the sum of everything drawn, so a window of it is at most the cumulative
limit, which is the daily limit (see the finding). `Covered`: the rows, with
what landed for requests that have not written theirs, are within `spent`.
`NothingAhead` and `Backed` make the comparison hold up to every instant.

`RevocationCaps` is the safety half of `RevocationEndsSpending`. revokeSessionKey
changes a row and nothing else, so requests past their check still spend;
`Exposure` adds up what was spent, what is at stake in those requests and what
abandoned transactions may still take. A step moves an amount from one of the
three sums to another or drops it (`RevokedRequest`, `RevokedElsewhere`), and a
request that starts later is refused before it puts anything at stake.

### Deposits (SettlementProofs)

`CreditedOnce`, from `ListenerInv`. A member's payment is recognised by its
sender being in the wallet index; that is enough only because scanOnce reads
the head before the wallets, so every sender in the scanned blocks had its row
by then (`SendersKnown`, `ScanHolds`). A scan that announces a block has just
written its row, which nobody announced before, and no other scan is about to
(`OneAnnouncer`): the row is unique per log. A scan that dies in between leaves
a row that is never announced. The saved cursor plays no part here: a stale one
only repeats.

`NothingSkipped` is about that cursor, the safety half of `DepositsArrive`: it
never passes an owed transfer whose log was neither recorded nor failed.
`CursorInv`: the saved cursor, and the place each scan has reached, have
everything owed before them handled (`Covered`, `ScanCovers`), so whichever
scan saves last saves a true cursor; and a scan knows every recipient it must
credit, because it read the wallets after the head (`RecipientsKnown`).

### Chat services (ChatPaymentsProofs)

One inductive invariant per service; a step of one leaves the other two alone.

* Referrals, `MilestonesOnce`: whoever won the conditional update of a stage
  owes a reward that is not written yet, and nobody else owes it
  (`OneRewarder`); points are the worth of the stages reached.
* Red envelopes, `ClaimsPaid` and `NotShutEarly`: the count a claim read covers
  the shares that were left, and after its payment its own share too, so the
  count it writes covers what is left then (`EnvHolds`). A claimer in the queue
  was paid, so the escrow refuses the retry; a claimer has one paid request and
  a queued claim one worker (`EnvApart`).
* Session payments, `RecordsLanded`, `LimitWithRestarts`, `RevokedStayOut`.
  Two counts per key (`PayCounters`): what landed, plus the requests that may
  still send, plus the abandoned transactions, is within the counter and what
  restarts dropped of it; the yield rows plus the requests about to write one
  are within the transfers. `PayCollected` is the same for the collected sum of
  a split. `PayChange` is the step: a request that moves changes each count by
  its weight before and after. `Quota` bounds the first count: what restarts
  dropped is within one daily limit per restart, and with the counter within
  one more. A restart only shifts between the two, whatever the warm-up sets,
  and a reservation needs the counter under the limit. `LimitWithRestarts`
  follows from both. For `RevokedStayOut`: a warm-up reads only keys that are
  not revoked, and one that fails to empty Redis puts nothing in.
* `TypeCorrect` for all three.

### Pools and loans (GroupPoolsProofs)

`BooksBalance`, `RepaidLoansSettled`, `RecordedVotesCast`, `ClosedPoolsEmpty`,
all from one inductive invariant, `PoolInv` (`PoolInvariant`). The rows are
claimed before the chain call and given back after it, so a row is true only
together with the request that is at work on it.

* `HandlerHolds`, `OrphanHolds`: what each request, and each transaction left
  behind, relies on. The row it works on exists, or does not exist yet; a
  settlement whose call landed has settled the loan; a vote past its insert is
  in the table, and past its call on chain too.
* `Apart`: a new loan has one request, and a recorded vote one voter. This is
  what makes a rollback safe: nobody else's vote or row is taken back.
* `LoanHolds`: every REPAID row and every recorded vote has a witness: the
  chain, a vote to write off, the request that owes the rollback, or the restart
  that cut off this very claim. A step of another request leaves that witness in
  place (`StaysPut`, `RowKept`).
* `DebtHolds` and the last conjunct of `TypeOK`: shares are the balance plus
  what is owed, with the sums of SumTheorems; a contract call changes both
  sides alike (`CallEffect`).
* `Founding`: a pool without its row has only the request that creates it.
* `WindDownInv`: a wind-down has paid everybody it has visited, is paying one
  of them, or has skipped somebody and will not close the pool. With nothing
  lent out a member's part of the balance is the whole share (`AllThere`), so
  who was paid has none left. It also shows that `ClosedPoolIsEmpty` needs no
  exception for restarts, and that it needs one for members who are listed
  during the wind-down.

### Sums (SumTheorems)

MapThenSumSet is a recursion over finite sets that takes an arbitrary element
each time. The induction theorems of the library have an operator parameter and
cannot be used, so each induction is the search for a minimal counterexample
among the subsets of the set (`MinimalSubset`, from well-foundedness). Shown:
the recursion has a solution, the order does not matter, and how a sum follows
an update of one term (`SumUpdate`) or a split of the set (`SumSplit`).

### Only model-checked

Liveness (`ActiveLinksSettle`, `DepositsArrive`, `RevocationEndsSpending`) and
`RefundNeverBlocked`: fairness and ENABLED are out of the prover's reach. What
each of them needs of every reachable state is proved: `OverdueLinksEnd`,
`NothingSkipped`, `RevocationCaps` and `RefundsReady`. The properties of the
first three (`OverdueLinksCanEnd`, `NothingPassedOver`, `RevocationCapsSpending`)
are in no cfg; TLC found no violation of them on the instances of link_races,
settlement and spending_races before they were proved. Every other invariant and action property of the passing runs is a
theorem.

## 6. Not modelled, and the plan

The map covers the services that move money and a small share of the
repository's lines: more than a third of them are user interface, and most of
the backend's other files are chat wording, command parsing, administration,
analytics and single-row reads and writes, which have no order of events to get
wrong. Left out, and why:

* Cryptography and byte layouts (secp256r1 data, WebAuthn ceremonies, codecs,
  key wrapping): data the models abstract to what is bound and checked.
* Login challenges: one entry taken atomically; PasskeyExecution has that
  protocol in full. Interactive chat actions: taken once, then dispatched to a
  service that is modelled.
* Subscriptions: `processDueSubscriptions` has no caller. Fiat ramp, oracle and
  price pusher: adapters to external services. Recovery listener: disabled by
  default.
* The EVM variants of payment links and of passkey approvals, which have the
  shape of the Solana ones.
* Interest, fees and reputation in pools; random shares of envelopes; chain
  reorganisations behind the listener's latest-6 fallback.

Planned:

1. The native (SOL) variants of the link handlers composed with
   PasskeyExecution instead of `SettleElsewhere` and `SyncElsewhere`.
