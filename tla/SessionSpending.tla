--------------------------- MODULE SessionSpending ---------------------------
(***************************************************************************)
(* SolanaRelayerService under one delegated session key: session transfers *)
(* (executeSessionTransfer), session-funded links                          *)
(* (createPaymentLinkWithSession) and their cancellation                   *)
(* (cancelPaymentLinkWithSession).                                         *)
(*                                                                         *)
(* The daily limit is checked against the SpendingRecord rows before the   *)
(* transaction and the row is written after its confirmation, so           *)
(* concurrent requests, lost confirmations and restarts leave the rows     *)
(* behind the chain.  The chain's own limit is the cumulative limit of the *)
(* session grant, which prepareSessionGrant sets.                          *)
(*                                                                         *)
(* Transactions are treated as in PaymentLinkService.                      *)
(***************************************************************************)
EXTENDS Integers, FiniteSets, FiniteSetsExt

CONSTANTS
  Handlers,     \* concurrent requests
  Amounts,      \* amounts users ask for
  PerTxLimit,   \* perTxLimitUSD
  DailyLimit,   \* dailyLimitUSD
  Window,       \* 24 hours
  Expiry,       \* expiryAt, and valid_until on chain
  MaxOrphans,   \* bound: abandoned transactions on their way at a time
  MaxNonce,     \* bound: transactions a session signs
  MaxTime       \* bound: the last value of the clock

ASSUME SpendingAssumption ==
  /\ IsFiniteSet(Handlers)
  /\ Amounts \subseteq Nat \ {0}
  /\ PerTxLimit \in Nat /\ DailyLimit \in Nat /\ PerTxLimit <= DailyLimit
  /\ Window \in Nat /\ Expiry \in Nat /\ MaxOrphans \in Nat
  /\ MaxNonce \in Nat /\ MaxTime \in Nat

VARIABLES
  sessionRow,    \* the SessionKey row: "ACTIVE", then "REVOKED"
  records,       \* SpendingRecord rows: what they add up to per timestamp
  handler,       \* where each request is, and what it holds across awaits
  orphans,       \* transactions still on their way that nobody waits for
  sessionNonce,  \* on chain: Session.nonce
  spent,         \* on chain: Session.spent
  openLinks,     \* on chain: links of this session that may be cancelled
  drawn,         \* history: what left the vault at each instant
  clock

db == <<sessionRow, records>>
chain == <<sessionNonce, spent, openLinks, drawn>>
vars == <<sessionRow, records, handler, orphans,
          sessionNonce, spent, openLinks, drawn, clock>>

Times == 0 .. MaxTime
SpendingOps == {"transfer", "link"}

Idle == [op |-> "none", at |-> "idle", amount |-> 0, nonce |-> 0]

\* Faulty variant: one daily limit for every day of the session.
LimitPerDay == DailyLimit * (1 + Expiry)

\* cumulativeLimit of the grant: the daily limit, for the whole session.
CumulativeLimit == DailyLimit

\* The session has just been granted and activated (PasskeyExecution).
Init ==
  /\ sessionRow = "ACTIVE"
  /\ records = [t \in Times |-> 0]
  /\ handler = [h \in Handlers |-> Idle]
  /\ orphans = {}
  /\ sessionNonce = 0 /\ spent = 0 /\ openLinks = 0
  /\ drawn = [t \in Times |-> 0]
  /\ clock = 0

\* What a table of amounts per instant adds up to over some instants, and
\* over the 24 hours that end at t.
Total(table, instants) == MapThenSumSet(LAMBDA t : table[t], instants)
Recent(table, t) == Total(table, {u \in Times : t - Window <= u /\ u <= t})

Goto(h, place) == handler' = [handler EXCEPT ![h].at = place]
Return(h) == handler' = [handler EXCEPT ![h] = Idle]

-----------------------------------------------------------------------------
(* The requests.                                                           *)

\* Faulty variant: the row is not looked at.
BeginUnchecked(h, op, amount) ==
  /\ handler[h] = Idle
  /\ op \in SpendingOps => amount <= PerTxLimit
  /\ handler' = [handler EXCEPT ![h] =
       [op |-> op, at |-> IF op \in SpendingOps THEN "limit" ELSE "session",
        amount |-> IF op \in SpendingOps THEN amount ELSE 0, nonce |-> 0]]
  /\ UNCHANGED <<db, orphans, chain, clock>>

\* The session row is read: requireActiveSession, then the per-payment limit.
\* A cancellation spends nothing and has no limit to check.
Begin(h, op, amount) ==
  /\ handler[h] = Idle
  /\ sessionRow = "ACTIVE" /\ clock < Expiry
  /\ op \in SpendingOps => amount <= PerTxLimit
  /\ handler' = [handler EXCEPT ![h] =
       [op |-> op, at |-> IF op \in SpendingOps THEN "limit" ELSE "session",
        amount |-> IF op \in SpendingOps THEN amount ELSE 0, nonce |-> 0]]
  /\ UNCHANGED <<db, orphans, chain, clock>>

\* assertAvailableDailyLimit
CheckDailyLimit(h) ==
  /\ handler[h].at = "limit"
  /\ IF Recent(records, clock) + handler[h].amount <= DailyLimit
       THEN Goto(h, "session") ELSE Return(h)
  /\ UNCHANGED <<db, orphans, chain, clock>>

\* readSession: the session's nonce is held until the transaction is built.
ReadSession(h) ==
  /\ handler[h].at = "session"
  /\ handler' = [handler EXCEPT ![h].nonce = sessionNonce, ![h].at = "submit"]
  /\ UNCHANGED <<db, orphans, chain, clock>>

\* Faulty variant: the row is written when the transaction is sent.
RecordOnSend(h) ==
  /\ handler[h].at \in {"sent", "landed"}
  /\ records' = [records EXCEPT ![clock] = @ + handler[h].amount]
  /\ Return(h)
  /\ UNCHANGED <<sessionRow, orphans, chain, clock>>

\* spendingRecord.create, with the time of its own.
RecordSpending(h) ==
  /\ handler[h].at = "landed"
  /\ records' = [records EXCEPT ![clock] = @ + handler[h].amount]
  /\ Return(h)
  /\ UNCHANGED <<sessionRow, orphans, chain, clock>>

-----------------------------------------------------------------------------
(* Transactions.                                                           *)

Transaction(h) ==
  [op |-> handler[h].op, amount |-> handler[h].amount, nonce |-> handler[h].nonce]

\* Faulty variant: the program only looks at the single payment.
IgnoresSpent(tx) ==
  /\ tx.nonce = sessionNonce
  /\ clock <= Expiry
  /\ tx.amount <= PerTxLimit
  /\ tx.op = "cancel" => openLinks > 0

\* What the program requires of the session and of the link.
Executable(tx) ==
  /\ tx.nonce = sessionNonce
  /\ clock <= Expiry
  /\ tx.amount <= PerTxLimit
  /\ spent + tx.amount <= CumulativeLimit
  /\ tx.op = "cancel" => openLinks > 0

Execute(tx) ==
  /\ Executable(tx)
  /\ sessionNonce < MaxNonce
  /\ sessionNonce' = sessionNonce + 1
  /\ spent' = spent + tx.amount
  /\ openLinks' = CASE tx.op = "link" -> openLinks + 1
                    [] tx.op = "cancel" -> openLinks - 1
                    [] OTHER -> openLinks
  /\ drawn' = [drawn EXCEPT ![clock] = @ + tx.amount]

Submit(h) ==
  /\ handler[h].at = "submit"
  /\ Executable(Transaction(h))
  /\ Goto(h, "sent")
  /\ UNCHANGED <<db, orphans, chain, clock>>

Land(h) ==
  /\ handler[h].at = "sent"
  /\ Execute(Transaction(h))
  /\ Goto(h, "landed")
  /\ UNCHANGED <<db, orphans, clock>>

\* A read fails, the balance is too small, the simulation or the cluster
\* refuses the transaction: the request throws and nothing moved.
ChainRefuses(h) ==
  /\ handler[h].at \in {"session", "submit", "sent"}
  /\ Return(h)
  /\ UNCHANGED <<db, orphans, chain, clock>>

\* Nobody waits any longer for the transaction the request sent.
Abandon(h) ==
  IF handler[h].at = "sent"
    THEN /\ Cardinality(orphans) < MaxOrphans
         /\ orphans' = orphans \cup {Transaction(h)}
    ELSE UNCHANGED orphans

\* The confirmation is lost, the process restarts, or a database call throws:
\* the request is gone, what it sent is not.
Abort(h) ==
  /\ handler[h] # Idle
  /\ Return(h)
  /\ Abandon(h)
  /\ UNCHANGED <<db, chain, clock>>

LandOrphan(tx) ==
  /\ Execute(tx)
  /\ orphans' = orphans \ {tx}
  /\ UNCHANGED <<db, handler, clock>>

ExpireOrphan(tx) ==
  /\ orphans' = orphans \ {tx}
  /\ UNCHANGED <<db, handler, chain, clock>>

-----------------------------------------------------------------------------
\* The link is claimed or refunded: it cannot be cancelled any more.
SettleLink ==
  /\ openLinks > 0
  /\ openLinks' = openLinks - 1
  /\ UNCHANGED <<db, handler, orphans, sessionNonce, spent, drawn, clock>>

\* Only the row is revoked: no instruction sets Session.revoked.
RevokeSessionKey ==
  /\ sessionRow = "ACTIVE"
  /\ sessionRow' = "REVOKED"
  /\ UNCHANGED <<records, handler, orphans, chain, clock>>

Tick ==
  /\ clock < MaxTime
  /\ clock' = clock + 1
  /\ UNCHANGED <<db, handler, orphans, chain>>

Request(h) ==
  \/ \E op \in SpendingOps \cup {"cancel"}, amount \in Amounts :
       Begin(h, op, amount)
  \/ CheckDailyLimit(h) \/ ReadSession(h) \/ RecordSpending(h)
  \/ Submit(h) \/ Land(h) \/ ChainRefuses(h) \/ Abort(h)

Next ==
  \/ \E h \in Handlers : Request(h)
  \/ \E tx \in orphans : LandOrphan(tx) \/ ExpireOrphan(tx)
  \/ SettleLink \/ RevokeSessionKey \/ Tick

Spec == Init /\ [][Next]_vars

(***************************************************************************)
(* Every await of a request ends some time (with an answer or an error),   *)
(* and a transaction whose blockhash is too old is dropped.                *)
(***************************************************************************)
Progress(h) == handler[h] # Idle /\ Request(h)
FairSpec ==
  /\ Spec
  /\ \A h \in Handlers : WF_vars(Progress(h))
  /\ WF_vars(\E tx \in orphans : LandOrphan(tx) \/ ExpireOrphan(tx))

-----------------------------------------------------------------------------
(* Properties.                                                             *)

\* The session row, the spending rows, the requests and the session account
\* keep their shape; the spending of a session fits its grant.
TypeOK ==
  /\ sessionRow \in {"ACTIVE", "REVOKED"}
  /\ records \in [Times -> Nat] /\ drawn \in [Times -> Nat]
  /\ handler \in [Handlers ->
       [op : SpendingOps \cup {"none", "cancel"},
        at : {"idle", "limit", "session", "submit", "sent", "landed"},
        amount : Amounts \cup {0}, nonce : 0 .. MaxNonce]]
  /\ orphans \subseteq
       [op : SpendingOps \cup {"cancel"}, amount : Amounts \cup {0},
        nonce : 0 .. MaxNonce]
  /\ sessionNonce \in 0 .. MaxNonce
  /\ spent \in 0 .. CumulativeLimit
  /\ openLinks \in 0 .. MaxNonce
  /\ clock \in Times

\* In no 24 hours does more than the daily limit leave the vault under the
\* session key, although executeSessionTransfer checks the limit before the
\* transfer and records the spending after it, and may never record it.
DailyLimitHolds == \A t \in Times : Recent(drawn, t) <= DailyLimit

\* The rows never claim more than the chain has moved: a request that failed,
\* or whose transaction is still on its way, uses up none of the daily limit.
RecordsAreBacked ==
  \A t \in Times : Total(records, 0 .. t) <= Total(drawn, 0 .. t)

InFlight == {h \in Handlers : handler[h] # Idle}

\* Revoking the row ends the key: although the session account itself is
\* never revoked, some time after revokeSessionKey nothing is being signed
\* with the key, or is on its way to the cluster, ever again.
RevocationEndsSpending ==
  sessionRow = "REVOKED" ~> [](InFlight = {} /\ orphans = {})

\* What has left the vault, and what may still leave it for the requests and
\* the transactions that are on their way.
AtStake ==
  [h \in Handlers |-> IF handler[h].at \in {"limit", "session", "submit", "sent"}
                     THEN handler[h].amount ELSE 0]
Exposure ==
  spent + Total(AtStake, Handlers) + Total([tx \in orphans |-> tx.amount], orphans)

\* A revocation caps the loss: from then on no step, and no restart or late
\* transaction, adds to what has left the vault or may still leave it, although
\* revokeSessionKey neither waits for requests nor touches the session account.
RevocationCapsSpending ==
  [][sessionRow = "REVOKED" => sessionRow' = "REVOKED" /\ Exposure' <= Exposure]_vars

\* "Longer sessions keep the same daily spending limit" (the session page):
\* while nothing is in flight, what the daily limit leaves is accepted.
DailyBudgetRenews ==
  (sessionRow = "ACTIVE" /\ clock < Expiry /\ InFlight = {} /\ orphans = {})
    => \A amount \in Amounts :
         (amount <= PerTxLimit /\ Recent(drawn, clock) + amount <= DailyLimit)
           => Executable([op |-> "transfer", amount |-> amount,
                          nonce |-> sessionNonce])
=============================================================================
