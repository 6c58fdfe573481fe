----------------------------- MODULE GroupPools -----------------------------
(***************************************************************************)
(* PoolsService: one lending pool, its rows (GroupPool, PoolMember,        *)
(* LoanApplication, LoanVote) and the GroupLendingPool contract behind it. *)
(*                                                                         *)
(* Every operation reads the pool with findOne, checks what it read, calls *)
(* the contract from a member's vault and writes the rows afterwards, so   *)
(* two operations act on snapshots of each other.  A vault call            *)
(* (executeVaultCall) may land, be refused, or throw although its          *)
(* transaction is still on its way: it is then an orphan that may land at  *)
(* any later time.  The vault's nonce only makes the chain refuse more     *)
(* calls, and a refusal is always possible here.                           *)
(*                                                                         *)
(* Amounts: every loan has the same principal, a deposit is one principal, *)
(* an instalment is one unit.  Fees and interest are left out, so a share  *)
(* of the contract is worth one unit.  findOne refreshes the pool's        *)
(* recorded balance from the contract, so the contract's is the one read.  *)
(*                                                                         *)
(* The relayer is the EVM RelayerService.  relayer.module.ts binds that    *)
(* name to SolanaRelayerService, whose executeLocalSessionAction refuses   *)
(* every call: in the shipped wiring each call that moves money is Refuse. *)
(***************************************************************************)
EXTENDS Integers, FiniteSets, FiniteSetsExt

CONSTANTS
  Members,        \* users of the pool
  Creator,        \* pool.creatorId
  Handlers,       \* concurrent requests
  Loans,          \* ids of LoanApplication rows
  Requests,       \* bound: the ids that loan requests take; extensions take any
  NoLoan,
  Principal,      \* what a loan lends
  MinPoolMembers, \* MIN_POOL_MEMBERS
  MaxExtensions,  \* MAX_EXTENSIONS_PER_LOAN
  MaxOrphans,     \* bound: abandoned transactions on their way at a time
  MaxAborts,      \* bound: requests cut off by a restart
  MaxDeposits,    \* bound: principals the members may put in
  Workloads       \* bound: what a behaviour starts from, and what it calls

ASSUME PoolAssumption ==
  /\ Handlers # {} /\ Creator \in Members /\ NoLoan \notin Loans /\ Requests \subseteq Loans
  /\ {Principal, MinPoolMembers, MaxExtensions, MaxOrphans, MaxAborts, MaxDeposits}
       \subseteq Nat
  /\ Principal > 0
  /\ IsFiniteSet(Members) /\ IsFiniteSet(Loans)
  /\ \A w \in Workloads : w.from \in {"nothing", "deposit", "loan"}

VARIABLES
  workload,     \* where this behaviour starts and what it calls
  poolRow,      \* the GroupPool row: "none", "open", then "closed" (closedAt)
  memberRows,   \* users with a PoolMember row
  loanRow,      \* LoanApplication rows
  voteRows,     \* LoanVote rows: per loan, what each member voted
  cronLoans,    \* overdue loans the reminder job has read and not looked at
  handler,      \* where each request is, and what it holds across awaits
  orphans,      \* transactions still on their way that nobody waits for
  chainMembers, \* on chain: the members of the pool
  shares,       \* on chain: memberShares
  balance,      \* on chain: poolBalance
  debt,         \* on chain: the loan requests and loans
  aborts,       \* history: requests cut off so far
  lostClaims,   \* history: the settlements and votes that were cut off
  forgiven,     \* history: loans written off by vote
  pardons,      \* history: the vote rows that are votes to write a loan off
  disturbed     \* history: money came in, or a member who had some was listed,
                \* after the wind-down had begun

db == <<poolRow, memberRows, loanRow, voteRows>>
contract == <<chainMembers, shares, balance, debt>>
chain == <<contract, disturbed>>
history == <<aborts, lostClaims, forgiven, pardons>>
vars == <<workload, db, cronLoans, handler, orphans, chain, history>>

NoRow == [status |-> "NONE", borrower |-> Creator, hasId |-> FALSE,
          target |-> NoLoan, deadline |-> "none"]
NoDebt == [state |-> "none", borrower |-> Creator, ayes |-> {}, noes |-> {}, owed |-> 0]
Idle == [op |-> "none", at |-> "idle", who |-> Creator, loan |-> NoLoan, yes |-> FALSE,
         status |-> "NONE", hasId |-> FALSE, group |-> {}, amount |-> 0]

\* More than half of the members who are not the borrower.
Majority(members, borrower) ==
  Max({1, Cardinality(members \ {borrower})}) \div 2 + 1

\* The pool a behaviour starts from: none yet, one of workload.size members
\* that the creator has deposited in, or one that has lent that deposit to
\* another member, after as many approvals as it takes.
Init ==
  /\ workload \in Workloads
  /\ poolRow = IF workload.from = "nothing" THEN "none" ELSE "open"
  /\ memberRows \in {group \in SUBSET Members :
       IF workload.from = "nothing" THEN group = {}
       ELSE Creator \in group /\ Cardinality(group) = workload.size}
  /\ chainMembers = memberRows
  /\ shares = [m \in Members |-> IF m = Creator /\ m \in memberRows THEN Principal ELSE 0]
  /\ balance = IF workload.from = "deposit" THEN Principal ELSE 0
  /\ \/ /\ workload.from # "loan"
        /\ loanRow = [l \in Loans |-> NoRow]
        /\ debt = [l \in Loans |-> NoDebt]
     \/ /\ workload.from = "loan"
        /\ \E b \in memberRows \ {Creator}, l \in Requests :
           \E voters \in SUBSET (memberRows \ {b}) :
             /\ Cardinality(voters) = Majority(memberRows, b)
             /\ loanRow = [x \in Loans |-> IF x = l
                  THEN [NoRow EXCEPT !.status = "EXECUTED", !.borrower = b, !.hasId = TRUE,
                                     !.deadline = "ahead"]
                  ELSE NoRow]
             /\ debt = [x \in Loans |-> IF x = l
                  THEN [NoDebt EXCEPT !.state = "funded", !.borrower = b, !.ayes = voters,
                                      !.owed = Principal]
                  ELSE NoDebt]
  /\ voteRows = [l \in Loans |-> [m \in Members |->
       IF m \in debt[l].ayes THEN "yes" ELSE "none"]]
  /\ cronLoans = {}
  /\ handler = [h \in Handlers |-> Idle]
  /\ orphans = {}
  /\ aborts = 0 /\ lostClaims = {} /\ forgiven = {} /\ pardons = {}
  /\ disturbed = FALSE

Outstanding == {"PENDING", "APPROVED", "EXECUTED", "DEFAULTED"}
TotalShares == MapThenSumSet(LAMBDA m : shares[m], Members)
Owed == [l \in Loans |-> debt[l].owed]
TotalOwed == MapThenSumSet(LAMBDA l : Owed[l], Loans)

\* getWithdrawableAmount: a member's part of what is not lent out.
Withdrawable(m) ==
  IF TotalShares = 0 THEN 0 ELSE (shares[m] * balance) \div TotalShares

\* A request begins: it has read the pool with findOne.
Start(h, request) ==
  /\ handler[h] = Idle
  /\ request.op \in workload.calls
  /\ (poolRow = "none") = (request.op = "create")
  /\ handler' = [handler EXCEPT ![h] = request]
  /\ UNCHANGED <<workload, db, cronLoans, orphans, chain, history>>

Step(h, place) ==
  /\ handler' = [handler EXCEPT ![h].at = place]
  /\ UNCHANGED <<workload, cronLoans, orphans, chain, history>>

Finish(h) ==
  /\ handler' = [handler EXCEPT ![h] = Idle]
  /\ UNCHANGED <<workload, cronLoans, orphans, chain, history>>

At(h, op, place) == handler[h].op = op /\ handler[h].at = place
WindingDown == poolRow = "closed" \/ \E h \in Handlers : handler[h].op = "close"

-----------------------------------------------------------------------------
(* Membership and custody.                                                 *)

\* Enough members with a wallet, the creator among them.
CreatePoolOnChain(h, group) ==
  /\ Creator \in group /\ Cardinality(group) >= MinPoolMembers
  /\ Start(h, [Idle EXCEPT !.op = "create", !.at = "sent", !.group = group])

\* createPool: the pool is created on chain first.
BeginCreate(h, group) ==
  /\ chainMembers = {} /\ \A g \in Handlers : handler[g].op # "create"
  /\ CreatePoolOnChain(h, group)

CreateRow(h) ==
  /\ At(h, "create", "landed")
  /\ poolRow' = "open" /\ memberRows' = handler[h].group
  /\ Finish(h) /\ UNCHANGED <<loanRow, voteRows>>

\* A PoolMember row for somebody who may hold a share already.
ListMember(m) ==
  /\ memberRows' = memberRows \cup {m}
  /\ disturbed' = (disturbed \/ (WindingDown /\ shares[m] > 0))
  /\ UNCHANGED <<workload, poolRow, loanRow, voteRows, cronLoans, orphans, contract, history>>

\* inviteMembers writes a row only: the contract hears nothing of it.
InviteMembers(m) ==
  /\ "invite" \in workload.calls /\ poolRow # "none" /\ m \notin memberRows
  /\ ListMember(m) /\ UNCHANGED handler

AddMemberOnChain(h, m) ==
  Start(h, [Idle EXCEPT !.op = "join", !.at = "sent", !.who = m])

\* joinPool: somebody with a row is a member already.
BeginJoin(h, m) == m \notin memberRows /\ AddMemberOnChain(h, m)

JoinRow(h) ==
  /\ At(h, "join", "landed")
  /\ ListMember(handler[h].who)
  /\ handler' = [handler EXCEPT ![h] = Idle]

\* deposit: the pool that was read is open.  The token approval that precedes
\* the deposit call moves nothing.
BeginDeposit(h, m) ==
  /\ poolRow = "open"
  /\ Start(h, [Idle EXCEPT !.op = "deposit", !.at = "sent", !.who = m, !.amount = Principal])

DepositRow(h) ==
  /\ At(h, "deposit", "landed")
  /\ ListMember(handler[h].who)
  /\ handler' = [handler EXCEPT ![h] = Idle]

WithdrawOnChain(h, m, amount) ==
  Start(h, [Idle EXCEPT !.op = "withdraw", !.at = "sent", !.who = m, !.amount = amount])

BeginWithdraw(h, m) == balance >= Principal /\ WithdrawOnChain(h, m, Principal)

WithdrawRow(h) ==
  /\ At(h, "withdraw", "landed")
  /\ Finish(h) /\ UNCHANGED db

-----------------------------------------------------------------------------
(* closePool.                                                              *)

\* The creator's snapshot shows an open pool with a settled book.  group holds
\* the members still to be paid, yes whether somebody was skipped.
BeginClose(h) ==
  /\ poolRow = "open"
  /\ \A l \in Loans : loanRow[l].status \notin Outstanding
  /\ Start(h, [Idle EXCEPT !.op = "close", !.at = "visit", !.group = memberRows])

\* The next member: nothing to return, skipped (no wallet, as only an invited
\* user may be, or no session key), or paid by a call of the member's own vault.
CloseVisit(h, m) ==
  /\ At(h, "close", "visit") /\ m \in handler[h].group
  /\ LET left == handler[h].group \ {m} IN
       \/ /\ Withdrawable(m) = 0
          /\ handler' = [handler EXCEPT ![h].group = left]
       \/ /\ Withdrawable(m) > 0 \/ m \notin chainMembers
          /\ handler' = [handler EXCEPT ![h].group = left, ![h].yes = TRUE]
       \/ /\ Withdrawable(m) > 0
          /\ handler' = [handler EXCEPT ![h].group = left, ![h].who = m,
                           ![h].amount = Withdrawable(m), ![h].at = "sent"]
  /\ UNCHANGED <<workload, db, cronLoans, orphans, chain, history>>

\* The loop goes on with the next member.
NextMember(h, skipped) ==
  handler' = [handler EXCEPT ![h].at = "visit", ![h].who = Creator, ![h].amount = 0,
                             ![h].yes = @ \/ skipped]

CloseReturned(h) ==
  /\ At(h, "close", "landed")
  /\ NextMember(h, FALSE)
  /\ UNCHANGED <<workload, db, cronLoans, orphans, chain, history>>

\* Faulty variant: a member whose balance stayed behind is not reported.
CloseAnyway(h) ==
  /\ At(h, "close", "visit") /\ handler[h].group = {}
  /\ poolRow' = "closed"
  /\ Finish(h) /\ UNCHANGED <<memberRows, loanRow, voteRows>>

CloseFinish(h) ==
  /\ At(h, "close", "visit") /\ handler[h].group = {}
  /\ poolRow' = IF handler[h].yes THEN poolRow ELSE "closed"
  /\ Finish(h) /\ UNCHANGED <<memberRows, loanRow, voteRows>>

-----------------------------------------------------------------------------
(* Loans: requestLoan, voteLoan, executeLoan.                              *)

Unused(l) == /\ loanRow[l] = NoRow /\ debt[l] = NoDebt
             /\ \A h \in Handlers : handler[h].loan # l
             /\ \A tx \in orphans : tx.loan # l

BeginRequest(h, m, l) ==
  /\ poolRow = "open" /\ balance >= Principal /\ l \in Requests /\ Unused(l)
  /\ Start(h, [Idle EXCEPT !.op = "request", !.at = "check", !.who = m, !.loan = l])

RequestLoanOnChain(h) == Step(h, "sent")

\* One outstanding loan per member.
CheckOutstanding(h) ==
  /\ At(h, "request", "check")
  /\ IF \E l \in Loans : /\ loanRow[l].borrower = handler[h].who
                         /\ loanRow[l].target = NoLoan
                         /\ loanRow[l].status \in Outstanding
       THEN Finish(h) ELSE RequestLoanOnChain(h)
  /\ UNCHANGED db

RequestRow(h) ==
  /\ At(h, "request", "landed")
  /\ loanRow' = [loanRow EXCEPT ![handler[h].loan] =
       [NoRow EXCEPT !.status = "PENDING", !.borrower = handler[h].who]]
  /\ Finish(h) /\ UNCHANGED <<poolRow, memberRows, voteRows>>

BeginVote(h, m, l, approve) ==
  /\ loanRow[l].status = "PENDING" /\ m # loanRow[l].borrower /\ m \in memberRows
  /\ Start(h, [Idle EXCEPT !.op = "vote", !.at = "row", !.who = m, !.loan = l,
                           !.yes = approve, !.group = memberRows])

Ballot(approve) == IF approve THEN "yes" ELSE "no"

\* loanVote.create: the unique key lets one row per member in.
VoteRow(h) ==
  /\ At(h, "vote", "row")
  /\ LET l == handler[h].loan  m == handler[h].who IN
       IF voteRows[l][m] # "none"
         THEN Finish(h) /\ UNCHANGED voteRows
         ELSE /\ voteRows' = [voteRows EXCEPT ![l][m] = Ballot(handler[h].yes)]
              /\ Step(h, "count")
  /\ UNCHANGED <<poolRow, memberRows, loanRow>>

Count(l, ballot) == Cardinality({m \in Members : voteRows[l][m] = ballot})

\* The tally is read and kept across the vault call.
CountVotes(h) ==
  /\ At(h, "vote", "count")
  /\ LET l == handler[h].loan
         threshold == Majority(handler[h].group, loanRow[l].borrower)
     IN handler' = [handler EXCEPT
          ![h].at = "call",
          ![h].status = CASE Count(l, "yes") >= threshold -> "APPROVED"
                          [] Count(l, "no") >= threshold  -> "REJECTED"
                          [] OTHER -> "PENDING"]
  /\ UNCHANGED <<workload, db, cronLoans, orphans, chain, history>>

\* An extension request has no request on chain and cannot be voted on.
VoteOnLoanOnChain(h) ==
  /\ At(h, "vote", "call")
  /\ Step(h, IF loanRow[handler[h].loan].target = NoLoan THEN "sent" ELSE "failed")
  /\ UNCHANGED db

\* The tally, or EXECUTED with the loan's id when this vote disbursed it, is
\* written over whatever the row says by now.
VoteResult(h) ==
  /\ At(h, "vote", "landed")
  /\ loanRow' = [loanRow EXCEPT ![handler[h].loan] =
       IF handler[h].hasId
         THEN [@ EXCEPT !.status = "EXECUTED", !.hasId = TRUE, !.deadline = "ahead"]
         ELSE [@ EXCEPT !.status = handler[h].status]]
  /\ Finish(h) /\ UNCHANGED <<poolRow, memberRows, voteRows>>

\* Faulty variant: a vote the chain never saw stays.
VoteKept(h) ==
  /\ At(h, "vote", "failed")
  /\ Finish(h) /\ UNCHANGED db

\* The vault call threw: the vote row is taken back.
VoteFailed(h) ==
  /\ At(h, "vote", "failed")
  /\ voteRows' = [voteRows EXCEPT ![handler[h].loan][handler[h].who] = "none"]
  /\ Finish(h) /\ UNCHANGED <<poolRow, memberRows, loanRow>>

\* executeLoan's snapshot, with the deadline an extension computes from it.
BeginExecute(h, l, deadline) ==
  /\ loanRow[l].status \in {"PENDING", "APPROVED"}
  /\ IF loanRow[l].target = NoLoan THEN deadline = "none"
       ELSE deadline = "ahead" \/ deadline = loanRow[loanRow[l].target].deadline
  /\ deadline = "none" => loanRow[l].target = NoLoan
  /\ Start(h, [Idle EXCEPT !.op = "execute", !.loan = l, !.hasId = loanRow[l].hasId,
                 !.at = IF loanRow[l].target = NoLoan THEN "claim" ELSE "extend",
                 !.status = deadline])

\* An extension moves the deadline of its target, then is done itself.
ExecuteExtension(h) ==
  /\ At(h, "execute", "extend")
  /\ loanRow' = [loanRow EXCEPT
       ![loanRow[handler[h].loan].target].deadline = handler[h].status]
  /\ Step(h, "extended") /\ UNCHANGED <<poolRow, memberRows, voteRows>>

ExtensionDone(h) ==
  /\ At(h, "execute", "extended")
  /\ loanRow' = [loanRow EXCEPT ![handler[h].loan].status = "EXECUTED",
                                ![handler[h].loan].deadline = handler[h].status]
  /\ Finish(h) /\ UNCHANGED <<poolRow, memberRows, voteRows>>

ExecuteClaim(h) ==
  /\ At(h, "execute", "claim")
  /\ IF loanRow[handler[h].loan].status \in {"PENDING", "APPROVED"}
       THEN /\ loanRow' = [loanRow EXCEPT ![handler[h].loan].status = "EXECUTED"]
            /\ IF handler[h].hasId THEN Finish(h) ELSE Step(h, "release")
       ELSE Finish(h) /\ UNCHANGED loanRow
  /\ UNCHANGED <<poolRow, memberRows, voteRows>>

\* Nothing was disbursed: the claim is given back if the row is still as it
\* was claimed.
ExecuteRelease(h) ==
  /\ At(h, "execute", "release")
  /\ loanRow' = [loanRow EXCEPT ![handler[h].loan].status =
       IF @ = "EXECUTED" /\ ~loanRow[handler[h].loan].hasId THEN "PENDING" ELSE @]
  /\ Finish(h) /\ UNCHANGED <<poolRow, memberRows, voteRows>>

-----------------------------------------------------------------------------
(* Loans: repayLoan, requestExtension, writeOffLoan and the reminder job.  *)

\* A settlement claims the row first; an instalment only looks at the
\* snapshot.  A row without the chain's loan id fails before any call.
BeginRepay(h, l, settles) ==
  /\ loanRow[l].status # "NONE"
  /\ settles \/ (loanRow[l].status = "EXECUTED" /\ loanRow[l].target = NoLoan)
  /\ Start(h, [Idle EXCEPT !.op = "repay", !.who = loanRow[l].borrower, !.loan = l,
                 !.yes = settles, !.hasId = loanRow[l].hasId, !.amount = 1,
                 !.at = IF settles THEN "claim"
                        ELSE IF loanRow[l].hasId THEN "sent" ELSE "failed"])

RepayClaim(h) ==
  /\ At(h, "repay", "claim")
  /\ IF loanRow[handler[h].loan].status = "EXECUTED"
       THEN /\ loanRow' = [loanRow EXCEPT ![handler[h].loan].status = "REPAID"]
            /\ Step(h, IF handler[h].hasId THEN "sent" ELSE "failed")
       ELSE Finish(h) /\ UNCHANGED loanRow
  /\ UNCHANGED <<poolRow, memberRows, voteRows>>

RepayRow(h) ==
  /\ At(h, "repay", "landed")
  /\ loanRow' = IF handler[h].yes
                  THEN [loanRow EXCEPT ![handler[h].loan].status = "REPAID"] ELSE loanRow
  /\ Finish(h) /\ UNCHANGED <<poolRow, memberRows, voteRows>>

\* Faulty variant: a failed repayment keeps its claim.
RepayKept(h) ==
  /\ At(h, "repay", "failed")
  /\ Finish(h) /\ UNCHANGED db

RepayFailed(h) ==
  /\ At(h, "repay", "failed")
  /\ loanRow' = [loanRow EXCEPT ![handler[h].loan].status =
       IF handler[h].yes /\ @ = "REPAID" THEN "EXECUTED" ELSE @]
  /\ Finish(h) /\ UNCHANGED <<poolRow, memberRows, voteRows>>

\* Extension requests are counted, then created.
BeginExtension(h, l, row) ==
  /\ loanRow[l].status # "NONE" /\ Unused(row)
  /\ Cardinality({x \in Loans : loanRow[x].target = l}) < MaxExtensions
  /\ Start(h, [Idle EXCEPT !.op = "extension", !.at = "row", !.who = loanRow[l].borrower,
                           !.loan = row, !.group = {l}])

ExtensionRow(h) ==
  /\ At(h, "extension", "row")
  /\ \E l \in handler[h].group : loanRow' = [loanRow EXCEPT ![handler[h].loan] =
       [NoRow EXCEPT !.status = "PENDING", !.borrower = handler[h].who, !.target = l]]
  /\ Finish(h) /\ UNCHANGED <<poolRow, memberRows, voteRows>>

BeginWriteOff(h, m, l) ==
  /\ loanRow[l].status = "DEFAULTED" /\ m # loanRow[l].borrower /\ m \in memberRows
  /\ Start(h, [Idle EXCEPT !.op = "writeOff", !.at = "row", !.who = m, !.loan = l,
                           !.group = memberRows])

\* The vote goes to the table that holds the approvals of the same loan.
WriteOffRow(h) ==
  /\ At(h, "writeOff", "row")
  /\ LET l == handler[h].loan  m == handler[h].who IN
       IF voteRows[l][m] # "none"
         THEN Finish(h) /\ UNCHANGED voteRows
         ELSE /\ voteRows' = [voteRows EXCEPT ![l][m] = "yes"]
              /\ pardons' = pardons \cup {<<l, m>>}
              /\ handler' = [handler EXCEPT ![h].at = "count"]
              /\ UNCHANGED <<workload, cronLoans, orphans, chain, aborts, lostClaims, forgiven>>
  /\ UNCHANGED <<poolRow, memberRows, loanRow>>

\* The approvals of the loan are in that table and count.
WriteOffCount(h) ==
  LET l == handler[h].loan IN
  /\ At(h, "writeOff", "count")
  /\ IF Count(l, "yes") >= Majority(handler[h].group, loanRow[l].borrower)
       THEN Step(h, "close") ELSE Finish(h)
  /\ UNCHANGED db

WriteOffClose(h) ==
  /\ At(h, "writeOff", "close")
  /\ LET l == handler[h].loan
         carried == loanRow[l].status = "DEFAULTED"
     IN /\ loanRow' = IF carried THEN [loanRow EXCEPT ![l].status = "REPAID"] ELSE loanRow
        /\ forgiven' = IF carried THEN forgiven \cup {l} ELSE forgiven
  /\ handler' = [handler EXCEPT ![h] = Idle]
  /\ UNCHANGED <<workload, poolRow, memberRows, voteRows, cronLoans, orphans, chain,
                 aborts, lostClaims, pardons>>

\* handleLoanRepaymentReminders: the loans past their grace period are read,
\* then marked one by one if still EXECUTED.
CronRead ==
  /\ "cron" \in workload.calls /\ cronLoans = {}
  /\ cronLoans' = {l \in Loans : loanRow[l].status = "EXECUTED" /\ loanRow[l].deadline = "past"}
  /\ cronLoans' # {}
  /\ UNCHANGED <<workload, db, handler, orphans, chain, history>>

CronMark(l) ==
  /\ l \in cronLoans
  /\ cronLoans' = cronLoans \ {l}
  /\ loanRow' = [loanRow EXCEPT ![l].status = IF @ = "EXECUTED" THEN "DEFAULTED" ELSE @]
  /\ UNCHANGED <<workload, poolRow, memberRows, voteRows, handler, orphans, chain, history>>

\* The grace period after a deadline runs out.
DeadlinePasses(l) ==
  /\ "cron" \in workload.calls /\ loanRow[l].deadline = "ahead"
  /\ loanRow' = [loanRow EXCEPT ![l].deadline = "past"]
  /\ UNCHANGED <<workload, poolRow, memberRows, voteRows, cronLoans, handler, orphans,
                 chain, history>>

-----------------------------------------------------------------------------
(* Vault calls and the contract.                                           *)

\* The call of a vault; closePool withdraws for the member it visits.
Transaction(h) ==
  LET r == handler[h] IN
  [op |-> IF r.op = "close" THEN "withdraw" ELSE r.op, who |-> r.who, loan |-> r.loan,
   yes |-> r.yes /\ r.op \in {"vote", "repay"}, amount |-> r.amount,
   group |-> IF r.op = "create" THEN r.group ELSE {}]

\* Whether this vote is the one that reaches the contract's threshold.
Decides(tx) ==
  /\ tx.op = "vote" /\ tx.yes
  /\ Cardinality(debt[tx.loan].ayes) + 1 >= Majority(chainMembers, debt[tx.loan].borrower)

ContractCreatePool(tx) ==
  /\ tx.op = "create" /\ chainMembers = {}
  /\ chainMembers' = tx.group
  /\ UNCHANGED <<shares, balance, debt, disturbed>>

\* New members are only let in before the first deposit.
ContractAddMember(tx) ==
  /\ tx.op = "join" /\ tx.who \notin chainMembers /\ TotalShares = 0
  /\ chainMembers' = chainMembers \cup {tx.who}
  /\ UNCHANGED <<shares, balance, debt, disturbed>>

ContractDeposit(tx) ==
  /\ tx.op = "deposit" /\ tx.who \in chainMembers
  /\ TotalShares < MaxDeposits * Principal
  /\ shares' = [shares EXCEPT ![tx.who] = @ + tx.amount]
  /\ balance' = balance + tx.amount
  /\ disturbed' = (disturbed \/ WindingDown)
  /\ UNCHANGED <<chainMembers, debt>>

ContractWithdraw(tx) ==
  /\ tx.op = "withdraw" /\ tx.amount <= Withdrawable(tx.who)
  /\ shares' = [shares EXCEPT ![tx.who] = @ - tx.amount]
  /\ balance' = balance - tx.amount
  /\ UNCHANGED <<chainMembers, debt, disturbed>>

ContractRequestLoan(tx) ==
  /\ tx.op = "request" /\ tx.who \in chainMembers
  /\ Cardinality(chainMembers) >= 3 /\ balance >= Principal
  /\ debt' = [debt EXCEPT ![tx.loan] =
       [NoDebt EXCEPT !.state = "requested", !.borrower = tx.who]]
  /\ UNCHANGED <<chainMembers, shares, balance, disturbed>>

\* One vote per member other than the borrower; the deciding one disburses.
ContractVote(tx) ==
  LET request == debt[tx.loan] IN
  /\ tx.op = "vote" /\ request.state = "requested"
  /\ tx.who \in chainMembers \ (request.ayes \cup request.noes \cup {request.borrower})
  /\ Decides(tx) => balance >= Principal
  /\ debt' = [debt EXCEPT ![tx.loan] =
       [request EXCEPT !.ayes = IF tx.yes THEN request.ayes \cup {tx.who} ELSE request.ayes,
                       !.noes = IF tx.yes THEN request.noes ELSE request.noes \cup {tx.who},
                       !.state = IF Decides(tx) THEN "funded" ELSE request.state,
                       !.owed = IF Decides(tx) THEN Principal ELSE request.owed]]
  /\ balance' = IF Decides(tx) THEN balance - Principal ELSE balance
  /\ disturbed' = (disturbed \/ (Decides(tx) /\ WindingDown))
  /\ UNCHANGED <<chainMembers, shares>>

\* Faulty variant: a settlement is asked for the principal, whatever was repaid.
PrincipalDue(tx) == IF tx.yes THEN Principal ELSE tx.amount

\* requiredRepaymentWei, read just before the call: a settlement pays what is
\* still owed.  What it would pay beyond that is interest, which is left out.
RepaymentDue(tx) == IF tx.yes THEN debt[tx.loan].owed ELSE tx.amount

\* The loan closes with its principal.
ContractRepay(tx) ==
  /\ tx.op = "repay" /\ debt[tx.loan].state = "funded"
  /\ LET paid == RepaymentDue(tx) IN
       /\ debt' = [debt EXCEPT ![tx.loan].owed = @ - paid,
                     ![tx.loan].state = IF debt[tx.loan].owed = paid THEN "repaid" ELSE @]
       /\ balance' = balance + paid
  /\ disturbed' = (disturbed \/ WindingDown)
  /\ UNCHANGED <<chainMembers, shares>>

Execute(tx) ==
  \/ ContractCreatePool(tx) \/ ContractAddMember(tx) \/ ContractDeposit(tx) \/ ContractWithdraw(tx)
  \/ ContractRequestLoan(tx) \/ ContractVote(tx) \/ ContractRepay(tx)

\* The receipt of a deciding vote carries the loan's id.
Land(h) ==
  /\ handler[h].at = "sent"
  /\ Execute(Transaction(h))
  /\ handler' = [handler EXCEPT ![h].at = "landed",
                   ![h].hasId = @ \/ Decides(Transaction(h))]
  /\ UNCHANGED <<workload, db, cronLoans, orphans, history>>

\* What the request does when executeVaultCall throws: a vote and a repayment
\* take their row back, a wind-down skips the member, the others give up.
CallFails(h) ==
  IF handler[h].op = "close" THEN NextMember(h, TRUE)
  ELSE handler' = [handler EXCEPT ![h] =
         IF handler[h].op \in {"vote", "repay"} THEN [@ EXCEPT !.at = "failed"] ELSE Idle]

Refuse(h) ==
  /\ handler[h].at = "sent"
  /\ CallFails(h)
  /\ UNCHANGED <<workload, db, cronLoans, orphans, chain, history>>

\* The 60 seconds of the relayer are over, or the receipt cannot be read: the
\* call throws, the transaction is still on its way.
LoseReceipt(h) ==
  /\ handler[h].at = "sent" /\ Cardinality(orphans) < MaxOrphans
  /\ orphans' = orphans \cup {Transaction(h)}
  /\ CallFails(h)
  /\ UNCHANGED <<workload, db, cronLoans, chain, history>>

LandOrphan(tx) ==
  /\ Execute(tx)
  /\ orphans' = orphans \ {tx}
  /\ UNCHANGED <<workload, db, cronLoans, handler, history>>

DropOrphan(tx) ==
  /\ orphans' = orphans \ {tx}
  /\ UNCHANGED <<workload, db, cronLoans, handler, chain, history>>

\* What request h has written ahead of its call, to be settled or taken back.
Claims(h) ==
  IF \/ handler[h].op = "repay" /\ handler[h].yes /\ handler[h].at # "claim"
     \/ handler[h].op = "vote" /\ handler[h].at # "row"
    THEN {<<handler[h].op, handler[h].loan, handler[h].who>>} ELSE {}

\* The process restarts in the middle of a request.
Abort(h) ==
  /\ handler[h] # Idle /\ aborts < MaxAborts
  /\ aborts' = aborts + 1
  /\ lostClaims' = lostClaims \cup Claims(h)
  /\ orphans' = IF handler[h].at = "sent" THEN orphans \cup {Transaction(h)} ELSE orphans
  /\ Cardinality(orphans') <= MaxOrphans
  /\ handler' = [handler EXCEPT ![h] = Idle]
  /\ UNCHANGED <<workload, db, cronLoans, chain, forgiven, pardons>>

-----------------------------------------------------------------------------
Begin(h) ==
  \/ \E group \in SUBSET Members : BeginCreate(h, group)
  \/ \E m \in Members : BeginJoin(h, m) \/ BeginDeposit(h, m) \/ BeginWithdraw(h, m)
  \/ BeginClose(h)
  \/ \E m \in Members, l \in Loans : BeginRequest(h, m, l) \/ BeginWriteOff(h, m, l)
  \/ \E m \in Members, l \in Loans, approve \in BOOLEAN : BeginVote(h, m, l, approve)
  \/ \E l \in Loans, deadline \in {"none", "ahead", "past"} : BeginExecute(h, l, deadline)
  \/ \E l \in Loans, settles \in BOOLEAN : BeginRepay(h, l, settles)
  \/ \E l, row \in Loans : BeginExtension(h, l, row)

Continue(h) ==
  \/ CreateRow(h) \/ JoinRow(h) \/ DepositRow(h) \/ WithdrawRow(h)
  \/ \E m \in Members : CloseVisit(h, m)
  \/ CloseReturned(h) \/ CloseFinish(h)
  \/ CheckOutstanding(h) \/ RequestRow(h)
  \/ VoteRow(h) \/ CountVotes(h) \/ VoteOnLoanOnChain(h) \/ VoteResult(h) \/ VoteFailed(h)
  \/ ExecuteExtension(h) \/ ExtensionDone(h) \/ ExecuteClaim(h) \/ ExecuteRelease(h)
  \/ RepayClaim(h) \/ RepayRow(h) \/ RepayFailed(h) \/ ExtensionRow(h)
  \/ WriteOffRow(h) \/ WriteOffCount(h) \/ WriteOffClose(h)
  \/ Land(h) \/ Refuse(h) \/ LoseReceipt(h) \/ Abort(h)

Next ==
  \/ \E h \in Handlers : Begin(h) \/ Continue(h)
  \/ \E m \in Members : InviteMembers(m)
  \/ CronRead \/ \E l \in Loans : CronMark(l) \/ DeadlinePasses(l)
  \/ \E tx \in orphans : LandOrphan(tx) \/ DropOrphan(tx)

Spec == Init /\ [][Next]_vars

-----------------------------------------------------------------------------
(* Properties.                                                             *)

\* The rows, the requests and the contract keep their shape, and the pool owns
\* what its members put in: shares are the liquid balance plus what is lent.
TypeOK ==
  /\ poolRow \in {"none", "open", "closed"}
  /\ memberRows \subseteq Members /\ chainMembers \subseteq Members
  /\ loanRow \in [Loans -> [status : Outstanding \cup {"NONE", "REJECTED", "REPAID"},
                            borrower : Members, hasId : BOOLEAN,
                            target : Loans \cup {NoLoan},
                            deadline : {"none", "ahead", "past"}]]
  /\ voteRows \in [Loans -> [Members -> {"none", "yes", "no"}]]
  /\ cronLoans \subseteq Loans
  /\ shares \in [Members -> Nat] /\ balance \in Nat
  /\ debt \in [Loans -> [state : {"none", "requested", "funded", "repaid"},
                         borrower : Members, ayes : SUBSET Members,
                         noes : SUBSET Members, owed : 0 .. Principal]]
  /\ TotalShares = balance + TotalOwed

Working(op, l) == {h \in Handlers : handler[h].op = op /\ handler[h].loan = l}

\* repayLoan marks a loan REPAID before the money moves.  A row that stays
\* REPAID was repaid on chain or written off by vote, unless a settlement that
\* claimed it is still working or was cut off by a restart.
RepaidIsSettled ==
  \A l \in Loans : loanRow[l].status = "REPAID" =>
    \/ debt[l].state = "repaid" \/ l \in forgiven
    \/ \E h \in Working("repay", l) : handler[h].yes /\ handler[h].at # "claim"
    \/ \E m \in Members : <<"repay", l, m>> \in lostClaims

\* voteLoan records a vote before it is cast.  A recorded vote was cast on
\* chain as it is recorded, or this voter is still at it, or was cut off by a
\* restart: a failed call does not cost a member the vote, whatever became of
\* the loan meanwhile.  A vote to write a loan off, which has its row in the
\* same table, is never cast.
VotesAreCast ==
  \A l \in Loans, m \in Members :
    (voteRows[l][m] # "none" /\ <<l, m>> \notin pardons) =>
      \/ m \in IF voteRows[l][m] = "yes" THEN debt[l].ayes ELSE debt[l].noes
      \/ \E h \in Working("vote", l) : handler[h].who = m /\ handler[h].at # "row"
      \/ <<"vote", l, m>> \in lostClaims

\* closePool leaves nothing behind: once it has closed a pool, no recorded
\* member has a share left, unless money came in, or its owner got the row,
\* after the wind-down had begun, or it is still lent out on chain.
ClosedPoolIsEmpty ==
  (poolRow = "closed" /\ ~disturbed /\ \A l \in Loans : debt[l].state # "funded")
    => \A m \in memberRows : shares[m] = 0

\* "leaves one open that the contract has already closed" is what repayLoan
\* says it avoids: a loan the contract has closed is REPAID in its row once
\* nobody works on it, if no call was lost and no request was cut off.
SettledLoansAreClosed ==
  \A l \in Loans :
    (debt[l].state = "repaid" /\ Working("repay", l) = {} /\ Working("vote", l) = {})
      => loanRow[l].status = "REPAID"
=============================================================================
