--------------------------- MODULE SessionPayments ---------------------------
(***************************************************************************)
(* Shares of a bill split (SplitsService), a payment request               *)
(* (RequestsService) and deposits into the yield vault (VaultService) that *)
(* are paid with session keys through                                      *)
(* RelayerService.executeLocalSessionAction and HotStateService.           *)
(*                                                                         *)
(* A payment reads the vault's nonce, reserves its amount in the Redis     *)
(* counter of the key, is sent, and is given up 60 seconds later; only     *)
(* then do the services write their rows.  A restart warms Redis from the  *)
(* database again, which knows only the payments that were confirmed.  Any *)
(* call to Redis may fail, those of the warm-up included.                  *)
(*                                                                         *)
(* Every payment costs one unit, and all of them happen on one day.        *)
(*                                                                         *)
(* This is the EVM RelayerService.  relayer.module.ts binds that name to   *)
(* SolanaRelayerService, whose executeLocalSessionAction refuses every     *)
(* call, so in the shipped wiring a payment ends before Redis is asked     *)
(* (RefuseReserve with an unchanged counter).                              *)
(***************************************************************************)
EXTENDS Integers, FiniteSets, FiniteSetsExt

CONSTANTS
  Handlers,     \* concurrent requests
  Payers,       \* the participants of the split, each with a vault and a key
  Debtor,       \* the participant who was also sent a payment request
  DailyLimit,   \* dailyLimitUSD of every key
  MaxOrphans,   \* bound: abandoned transactions on their way at a time
  MaxRestarts,  \* bound: restarts of the backend
  Stories       \* what may happen together: kinds of payments, and what disturbs them

VARIABLES
  story,        \* the kinds of payments and events of this behaviour
  split,        \* the BillSplit row
  hasPaid,      \* SplitParticipant rows with hasPaid
  request,      \* status of the PaymentRequest row
  yieldRows,    \* VaultDeposit and VaultWithdrawal rows, per payer
  overdue,      \* the split's deadline has passed
  keyRow,       \* SessionKey rows
  cached,       \* keys in Redis
  uncleared,    \* history: keys whose removal from Redis failed, and no later one got through
  spent,        \* the counter in Redis, per key
  spendRows,    \* SpendingRecord rows, per key
  forgotten,    \* history: what restarts dropped from the counter
  restarts,     \* restarts so far
  payHandler,   \* where each request is, and what it holds across awaits
  payOrphans,   \* transactions still on their way that nobody waits for
  moved,        \* on chain: payments that landed, per payer and purpose
  granted       \* on chain: keys with a session grant

rows == <<story, split, hasPaid, request, yieldRows, overdue>>
keys == <<keyRow, cached, uncleared, spent, spendRows, forgotten, restarts>>
chain == <<moved, granted>>
vars == <<rows, keys, payHandler, payOrphans, chain>>

Purposes == {"split", "request", "yield"}
Idle == [op |-> "none", at |-> "idle", payer |-> Debtor, nonce |-> 0, all |-> FALSE]

Init ==
  /\ story \in Stories
  /\ split = [status |-> "PENDING", collected |-> 0]
  /\ hasPaid = {} /\ request = "PENDING" /\ overdue = FALSE
  /\ yieldRows = [p \in Payers |-> 0]
  /\ keyRow = [p \in Payers |-> "ACTIVE"] /\ cached = Payers /\ uncleared = {}
  /\ spent = [p \in Payers |-> 0]
  /\ spendRows = [p \in Payers |-> 0] /\ forgotten = [p \in Payers |-> 0]
  /\ restarts = 0
  /\ payHandler = [h \in Handlers |-> Idle]
  /\ payOrphans = {}
  /\ moved = [p \in Payers |-> [purpose \in Purposes |-> 0]]
  /\ granted = Payers

At(h, place) == payHandler[h].at = place
Goto(h, place) == payHandler' = [payHandler EXCEPT ![h].at = place]
Return(h) == payHandler' = [payHandler EXCEPT ![h] = Idle]

\* localSessionNonces: the calls a vault has executed.
VaultNonce(p) == moved[p]["split"] + moved[p]["request"] + moved[p]["yield"]
Landed(p) == VaultNonce(p)
InFlight(p) == {h \in Handlers : At(h, "sent") /\ payHandler[h].payer = p}
Late(p) == {tx \in payOrphans : tx.payer = p}

\* The key is taken out of Redis.
Remove(p) == cached' = cached \ {p} /\ uncleared' = uncleared \ {p}

-----------------------------------------------------------------------------
(* The services' checks.                                                   *)

\* paySplit looks at the status and the deadline, then for a key, and not at
\* hasPaid.  It refuses a CANCELLED split too, but nothing writes that status.
BeginSplit(h, p) ==
  /\ "split" \in story /\ payHandler[h] = Idle
  /\ split.status # "COMPLETED"
  /\ overdue \/ keyRow[p] = "ACTIVE"
  /\ payHandler' = [payHandler EXCEPT ![h] =
       [Idle EXCEPT !.op = "split", !.payer = p, !.at = IF overdue THEN "expire" ELSE "nonce"]]
  /\ UNCHANGED <<rows, keys, payOrphans, chain>>

ExpireSplit(h) ==
  /\ At(h, "expire")
  /\ split' = [split EXCEPT !.status = "EXPIRED"]
  /\ Return(h)
  /\ UNCHANGED <<story, hasPaid, request, yieldRows, overdue, keys, payOrphans, chain>>

BeginRequest(h) ==
  /\ "request" \in story /\ payHandler[h] = Idle
  /\ request = "PENDING"
  /\ keyRow[Debtor] = "ACTIVE"
  /\ payHandler' = [payHandler EXCEPT ![h] = [Idle EXCEPT !.op = "request", !.at = "nonce"]]
  /\ UNCHANGED <<rows, keys, payOrphans, chain>>

\* cancelRequest: whatever the status is.
CancelRequest ==
  /\ "cancel" \in story /\ request # "CANCELLED"
  /\ request' = "CANCELLED"
  /\ UNCHANGED <<story, split, hasPaid, yieldRows, overdue, keys, payHandler, payOrphans, chain>>

\* deposit and withdraw of the yield vault.
BeginYield(h, p) ==
  /\ "yield" \in story /\ payHandler[h] = Idle
  /\ keyRow[p] = "ACTIVE"
  /\ payHandler' = [payHandler EXCEPT ![h] =
       [Idle EXCEPT !.op = "yield", !.payer = p, !.at = "nonce"]]
  /\ UNCHANGED <<rows, keys, payOrphans, chain>>

\* A nonce that cannot be read is taken to be 0.
ReadNonce(h, answered) ==
  /\ At(h, "nonce")
  /\ payHandler' = [payHandler EXCEPT ![h].at = "policy",
       ![h].nonce = IF answered THEN VaultNonce(payHandler[h].payer) ELSE 0]
  /\ UNCHANGED <<rows, keys, payOrphans, chain>>

-----------------------------------------------------------------------------
(* executeLocalSessionAction.                                              *)

\* A cached key, with the amount within what is left of its day.
Allowed(p) == p \in cached /\ spent[p] + 1 <= DailyLimit

\* Faulty variant: the amount is added without looking at the limit.
ReserveUnchecked(h) ==
  LET p == payHandler[h].payer IN
  /\ At(h, "policy") /\ p \in cached
  /\ spent' = [spent EXCEPT ![p] = @ + 1]
  /\ Goto(h, "grant")
  /\ UNCHANGED <<rows, keyRow, cached, uncleared, spendRows, forgotten, restarts, payOrphans, chain>>

\* The amount is reserved, in one atomic step of Redis.  Payments that are not
\* sent in the end do not give it back.
Reserve(h) ==
  LET p == payHandler[h].payer IN
  /\ At(h, "policy") /\ Allowed(p)
  /\ spent' = [spent EXCEPT ![p] = @ + 1]
  /\ Goto(h, "grant")
  /\ UNCHANGED <<rows, keyRow, cached, uncleared, spendRows, forgotten, restarts, payOrphans, chain>>

\* The policy refuses, or Redis does not answer: the script may have run.
RefuseReserve(h) ==
  LET p == payHandler[h].payer IN
  /\ At(h, "policy")
  /\ \/ UNCHANGED spent
     \/ Allowed(p) /\ spent' = [spent EXCEPT ![p] = @ + 1]
  /\ Return(h)
  /\ UNCHANGED <<rows, keyRow, cached, uncleared, spendRows, forgotten, restarts, payOrphans, chain>>

\* assertSessionGrantActive.
CheckGrant(h) ==
  /\ At(h, "grant") /\ payHandler[h].payer \in granted
  /\ Goto(h, "sent")
  /\ UNCHANGED <<rows, keys, payOrphans, chain>>

\* There is no grant, or it cannot be read: the key is not handed out again,
\* unless the row or the cache cannot be written; nobody waits for either.
RefuseGrant(h, cleared, removed) ==
  LET p == payHandler[h].payer IN
  /\ At(h, "grant")
  /\ keyRow' = IF cleared /\ keyRow[p] = "ACTIVE" THEN [keyRow EXCEPT ![p] = "INACTIVE"]
                                                  ELSE keyRow
  /\ IF removed THEN Remove(p) ELSE UNCHANGED <<cached, uncleared>>
  /\ Return(h)
  /\ UNCHANGED <<rows, spent, spendRows, forgotten, restarts, payOrphans, chain>>

Transaction(h) ==
  [payer |-> payHandler[h].payer, op |-> payHandler[h].op, nonce |-> payHandler[h].nonce]

\* The vault's own check and the transfer.
Execute(tx) ==
  /\ tx.nonce = VaultNonce(tx.payer) /\ tx.payer \in granted
  /\ moved' = [moved EXCEPT ![tx.payer][tx.op] = @ + 1]
  /\ UNCHANGED granted

Land(h) ==
  /\ At(h, "sent") /\ Execute(Transaction(h))
  /\ Goto(h, "landed")
  /\ UNCHANGED <<rows, keys, payOrphans>>

\* Faulty variant: a payment that failed gives its reservation back.
GiveBack(h, sent) ==
  LET p == payHandler[h].payer IN
  /\ At(h, "sent")
  /\ sent => Cardinality(payOrphans) < MaxOrphans
  /\ payOrphans' = IF sent THEN payOrphans \cup {Transaction(h)} ELSE payOrphans
  /\ spent' = [spent EXCEPT ![p] = @ - 1]
  /\ Return(h)
  /\ UNCHANGED <<rows, keyRow, cached, uncleared, spendRows, forgotten, restarts, chain>>

\* The call is refused, or its confirmation takes longer than 60 seconds.
GiveUp(h, sent) ==
  /\ At(h, "sent")
  /\ sent => Cardinality(payOrphans) < MaxOrphans
  /\ payOrphans' = IF sent THEN payOrphans \cup {Transaction(h)} ELSE payOrphans
  /\ Return(h)
  /\ UNCHANGED <<rows, keys, chain>>

\* recordSpendingAsync; its failure is only logged.
Confirm(h, recorded) ==
  /\ At(h, "landed")
  /\ spendRows' = IF recorded THEN [spendRows EXCEPT ![payHandler[h].payer] = @ + 1]
                              ELSE spendRows
  /\ Goto(h, "confirmed")
  /\ UNCHANGED <<rows, keyRow, cached, uncleared, spent, forgotten, restarts, payOrphans, chain>>

LandOrphan(tx) ==
  /\ Execute(tx)
  /\ payOrphans' = payOrphans \ {tx}
  /\ UNCHANGED <<rows, keys, payHandler>>

DropOrphan(tx) ==
  /\ payOrphans' = payOrphans \ {tx}
  /\ UNCHANGED <<rows, keys, payHandler, chain>>

-----------------------------------------------------------------------------
(* The services' records.                                                  *)

\* The status is written whatever it has become; a write that fails leaves the
\* request payable.
RecordRequest(h, persisted) ==
  /\ At(h, "confirmed") /\ payHandler[h].op = "request"
  /\ request' = IF persisted THEN "PAID" ELSE request
  /\ Return(h)
  /\ UNCHANGED <<story, split, hasPaid, yieldRows, overdue, keys, payOrphans, chain>>

\* Faulty variant: the participant is marked before the payment is confirmed.
MarkEarly(h) ==
  /\ payHandler[h].op = "split" /\ (At(h, "confirmed") \/ At(h, "sent"))
  /\ hasPaid' = hasPaid \cup {payHandler[h].payer}
  /\ Goto(h, "collect")
  /\ UNCHANGED <<story, split, request, yieldRows, overdue, keys, payOrphans, chain>>

MarkPaid(h) ==
  /\ At(h, "confirmed") /\ payHandler[h].op = "split"
  /\ hasPaid' = hasPaid \cup {payHandler[h].payer}
  /\ Goto(h, "collect")
  /\ UNCHANGED <<story, split, request, yieldRows, overdue, keys, payOrphans, chain>>

\* The increment returns the participants as they are now.
Collect(h) ==
  /\ At(h, "collect")
  /\ split' = [split EXCEPT !.collected = @ + 1]
  /\ payHandler' = [payHandler EXCEPT ![h].at = "status", ![h].all = (hasPaid = Payers)]
  /\ UNCHANGED <<story, hasPaid, request, yieldRows, overdue, keys, payOrphans, chain>>

SplitStatus(h) ==
  /\ At(h, "status")
  /\ split' = [split EXCEPT !.status = IF payHandler[h].all THEN "COMPLETED" ELSE "PARTIAL"]
  /\ Return(h)
  /\ UNCHANGED <<story, hasPaid, request, yieldRows, overdue, keys, payOrphans, chain>>

RecordYield(h) ==
  /\ At(h, "confirmed") /\ payHandler[h].op = "yield"
  /\ yieldRows' = [yieldRows EXCEPT ![payHandler[h].payer] = @ + 1]
  /\ Return(h)
  /\ UNCHANGED <<story, split, hasPaid, request, overdue, keys, payOrphans, chain>>

-----------------------------------------------------------------------------
(* Keys, restarts and time.                                                *)

\* revokeSessionKey: the row, whatever it says, then the cache.
RevokeRow(h, p) ==
  /\ "revoke" \in story /\ payHandler[h] = Idle
  /\ keyRow' = [keyRow EXCEPT ![p] = "REVOKED"]
  /\ payHandler' = [payHandler EXCEPT ![h] = [Idle EXCEPT !.op = "revoke", !.payer = p,
                                                          !.at = "uncache"]]
  /\ UNCHANGED <<rows, cached, uncleared, spent, spendRows, forgotten, restarts, payOrphans, chain>>

\* The removal throws when Redis cannot be reached, after the row was written.
Uncache(h, removed) ==
  LET p == payHandler[h].payer IN
  /\ At(h, "uncache")
  /\ IF removed THEN Remove(p)
                ELSE uncleared' = uncleared \cup {p} /\ UNCHANGED cached
  /\ Return(h)
  /\ UNCHANGED <<rows, keyRow, spent, spendRows, forgotten, restarts, payOrphans, chain>>

\* The grant is revoked on chain, or runs out there.
EndGrant(p) ==
  /\ "grant" \in story /\ p \in granted
  /\ granted' = granted \ {p}
  /\ UNCHANGED <<rows, keys, payHandler, payOrphans, moved>>

\* A restart ends every request and leaves Redis with these keys and counters.
\* Transactions on their way are lost in this step, so a restart that leaves
\* them is GiveUp and then this one.
Resume(c, counter) ==
  /\ "restart" \in story /\ restarts < MaxRestarts
  /\ \A p \in Payers : InFlight(p) = {}
  /\ cached' = c /\ spent' = counter
  /\ forgotten' = [p \in Payers |-> forgotten[p] + spent[p] - counter[p]]
  /\ restarts' = restarts + 1
  /\ payHandler' = [h \in Handlers |-> Idle]
  /\ UNCHANGED <<rows, keyRow, spendRows, payOrphans, chain>>

\* The keys onModuleInit reads: those that are not revoked.
WarmKeys == {p \in Payers : keyRow[p] # "REVOKED"}

\* Faulty variant: the cache is warmed with every key.
WarmAll(c, filled) ==
  /\ Resume(Payers, [p \in Payers |-> IF p \in filled THEN spendRows[p] ELSE 0])
  /\ uncleared' = {}

\* onModuleInit, before the first new request: Redis is emptied, then the keys
\* are set, then the counters from the SpendingRecord rows.  A failure ends it
\* there and is only logged, so that it may leave keys with no counter.
Restart(c, filled) ==
  /\ c \subseteq WarmKeys /\ (filled # {} => c = WarmKeys)
  /\ Resume(c, [p \in Payers |-> IF p \in filled THEN spendRows[p] ELSE 0])
  /\ uncleared' = {}

\* onModuleInit fails while it empties Redis: keys and counters it did not get
\* to are as they were, those of a revocation it cut off included.
RestartUncleared(c, kept) ==
  /\ c \subseteq cached
  /\ Resume(c, [p \in Payers |-> IF p \in kept THEN spent[p] ELSE 0])
  /\ uncleared' = uncleared \cup {payHandler[h].payer : h \in {g \in Handlers : At(g, "uncache")}}

DeadlinePasses ==
  /\ "deadline" \in story /\ ~overdue
  /\ overdue' = TRUE
  /\ UNCHANGED <<story, split, hasPaid, request, yieldRows, keys, payHandler, payOrphans, chain>>

-----------------------------------------------------------------------------
Step(h) ==
  \/ ExpireSplit(h) \/ \E answered \in BOOLEAN : ReadNonce(h, answered)
  \/ Reserve(h) \/ RefuseReserve(h) \/ CheckGrant(h) \/ Land(h)
  \/ \E cleared, removed \in BOOLEAN : RefuseGrant(h, cleared, removed)
  \/ \E recorded \in BOOLEAN : Confirm(h, recorded)
  \/ \E persisted \in BOOLEAN : RecordRequest(h, persisted)
  \/ MarkPaid(h) \/ Collect(h) \/ SplitStatus(h) \/ RecordYield(h)
  \/ \E removed \in BOOLEAN : Uncache(h, removed)

Next ==
  \/ \E h \in Handlers : Step(h) \/ BeginRequest(h)
  \/ \E h \in Handlers, p \in Payers : BeginSplit(h, p) \/ BeginYield(h, p) \/ RevokeRow(h, p)
  \/ \E h \in Handlers, sent \in BOOLEAN : GiveUp(h, sent)
  \/ \E tx \in payOrphans : LandOrphan(tx) \/ DropOrphan(tx)
  \/ \E p \in Payers : EndGrant(p)
  \/ \E c, p \in SUBSET Payers : Restart(c, p) \/ RestartUncleared(c, p)
  \/ CancelRequest \/ DeadlinePasses

Spec == Init /\ [][Next]_vars

-----------------------------------------------------------------------------
(* Properties.                                                             *)

\* The rows and the counters keep their shape.  A counter is above the limit
\* only when it was warmed from rows that are: payments made on a counter that
\* an earlier warm-up had left at zero.
TypeOK ==
  /\ story \in Stories
  /\ split.status \in {"PENDING", "PARTIAL", "COMPLETED", "EXPIRED"}
  /\ hasPaid \subseteq Payers
  /\ request \in {"PENDING", "PAID", "CANCELLED"}
  /\ keyRow \in [Payers -> {"ACTIVE", "INACTIVE", "REVOKED"}]
  /\ cached \subseteq Payers /\ uncleared \subseteq Payers /\ granted \subseteq Payers
  /\ \A p \in Payers : /\ spent[p] >= 0 /\ spendRows[p] >= 0
                       /\ spent[p] <= DailyLimit \/ spent[p] <= spendRows[p]

\* What the services record was paid: a participant who is marked, a unit that
\* is counted as collected, a request that is PAID and a movement of the yield
\* vault each have a transfer that landed for that purpose, and a split is
\* COMPLETED only when everybody has paid.
RecordedPaymentsLanded ==
  /\ \A p \in hasPaid : moved[p]["split"] > 0
  /\ split.collected <= MapThenSumSet(LAMBDA p : moved[p]["split"], Payers)
  /\ \A p \in Payers : yieldRows[p] <= moved[p]["yield"]
  /\ request = "PAID" => moved[Debtor]["request"] > 0
  /\ split.status = "COMPLETED" => hasPaid = Payers

\* What a key has paid, and what may still be paid in its name, stays within
\* its daily limit, and within one more daily limit for every restart: those
\* lose at most one counter each, however far the warm-up gets.  A counter that
\* gave failed payments back would not cover the ones that land late.
LimitPerRestart ==
  \A p \in Payers :
    Landed(p) + Cardinality(InFlight(p)) + Cardinality(Late(p)) <= DailyLimit * (restarts + 1)

\* A revoked key is in Redis only while its revocation is on its way there, or
\* after a removal that Redis did not carry out: a revocation whose second half
\* failed or was cut off, and no restart that emptied Redis since.  No warm-up
\* puts it back, complete or not.
RevokedKeysAreNotCached ==
  \A p \in cached :
    keyRow[p] = "REVOKED" =>
      p \in uncleared \/ \E h \in Handlers : At(h, "uncache") /\ payHandler[h].payer = p
=============================================================================
