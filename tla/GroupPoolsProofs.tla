-------------------------- MODULE GroupPoolsProofs --------------------------
(***************************************************************************)
(* The safety properties of GroupPools, for any members, loans, requests   *)
(* and calls: what a request claims in a row it gives back or settles, and *)
(* a closed pool is empty.                                                 *)
(***************************************************************************)
EXTENDS GroupPools, SumTheorems, TLAPS

-----------------------------------------------------------------------------
(* Shapes.                                                                 *)

NewOps == {"request", "extension"}
RowOps == {"vote", "execute", "repay", "writeOff"}
LoanOps == NewOps \cup RowOps
CallOps == {"create", "join", "deposit", "withdraw", "request", "vote", "repay"}

Places == {"idle", "sent", "landed", "failed", "visit", "check", "row", "count", "call", "claim",
           "extend", "extended", "release", "close"}

HandlerRecords ==
  [op : LoanOps \cup {"none", "create", "join", "deposit", "withdraw", "close"},
   at : Places, who : Members, loan : Loans \cup {NoLoan}, yes : BOOLEAN,
   status : {"NONE", "PENDING", "APPROVED", "REJECTED", "none", "ahead", "past"},
   hasId : BOOLEAN, group : SUBSET (Members \cup Loans), amount : Nat]

\* What a request holds, by its operation.
WellFormed(r) ==
  /\ r \in HandlerRecords
  /\ r.op \in LoanOps => r.loan \in Loans
  /\ r.op \notin LoanOps => r.loan = NoLoan
  /\ r.op \in {"create", "close"} => r.group \subseteq Members
  /\ r.op = "extension" => r.group \subseteq Loans
  /\ r.op = "repay" => r.amount = 1
  /\ r.op = "vote" => r.at # "claim"
  /\ r.op = "repay" => r.at # "row" /\ (r.at = "claim" => r.yes)
  /\ r.op = "vote" /\ r.at \in {"call", "sent", "landed"} =>
       r.status \in {"PENDING", "APPROVED", "REJECTED"}
  /\ r.op = "execute" /\ r.at \in {"extend", "extended"} => r.status \in {"ahead", "past"}
  /\ r.at = "sent" => r.op \in CallOps \cup {"close"}

Txs ==
  [op : CallOps, who : Members, loan : Loans \cup {NoLoan}, yes : BOOLEAN, amount : Nat,
   group : SUBSET Members]
TxFormed(tx) ==
  /\ tx \in Txs
  /\ tx.op \in LoanOps => tx.loan \in Loans
  /\ tx.op \notin LoanOps => tx.loan = NoLoan
  /\ tx.op = "repay" => tx.amount = 1

-----------------------------------------------------------------------------
(* The inductive invariant.                                                *)

Recorded(l, m, ballot) == m \in IF ballot = "yes" THEN debt[l].ayes ELSE debt[l].noes

\* Where a request may be, given the rows and the contract.  The row it works
\* on is there, or not yet; a settlement that landed has settled the loan; a
\* vote that was recorded and not taken back is in the row, and once it landed
\* on chain as well.
HandlerHolds(r) ==
  /\ WellFormed(r)
  /\ r.op \in RowOps => loanRow[r.loan].status # "NONE"
  /\ r.op \in NewOps => /\ loanRow[r.loan].status = "NONE"
                        /\ r.at # "landed" => debt[r.loan] = NoDebt
  /\ r.op = "repay" /\ r.at = "landed" /\ r.yes => debt[r.loan].state = "repaid"
  /\ r.op = "vote" /\ r.at # "row" =>
       /\ voteRows[r.loan][r.who] = Ballot(r.yes)
       /\ r.at = "landed" => Recorded(r.loan, r.who, Ballot(r.yes))

OrphanHolds(tx) ==
  /\ TxFormed(tx)
  /\ tx.op \in RowOps => loanRow[tx.loan].status # "NONE"
  /\ tx.op = "request" => loanRow[tx.loan].status = "NONE" /\ debt[tx.loan] = NoDebt

\* A new loan has one request, and a recorded vote one voter.
Apart ==
  /\ \A g, h \in Handlers : g # h =>
       /\ handler[g].op \in NewOps /\ handler[h].op \in NewOps => handler[g].loan # handler[h].loan
       /\ handler[g].op = "vote" /\ handler[h].op = "vote" /\ handler[g].at # "row"
          /\ handler[h].at # "row" /\ handler[g].loan = handler[h].loan
            => handler[g].who # handler[h].who
  /\ \A h \in Handlers, tx \in orphans :
       handler[h].op \in NewOps /\ tx.op = "request" => handler[h].loan # tx.loan
  /\ \A tx, ty \in orphans :
       tx # ty /\ tx.op = "request" /\ ty.op = "request" => tx.loan # ty.loan

DebtHolds(l) ==
  /\ debt[l].state = "funded" => debt[l].owed > 0
  /\ debt[l].state # "funded" => debt[l].owed = 0

\* Every loan is as its properties say: RepaidIsSettled and VotesAreCast, the
\* latter by a voter that will take the vote back if the call fails.
LoanHolds(l) ==
  /\ loanRow[l].status = "NONE" => \A m \in Members : voteRows[l][m] = "none"
  /\ loanRow[l].status = "REPAID" =>
       \/ debt[l].state = "repaid" \/ l \in forgiven
       \/ \E m \in Members : <<"repay", l, m>> \in lostClaims
       \/ \E h \in Working("repay", l) : handler[h].yes /\ handler[h].at # "claim"
  /\ \A m \in Members : voteRows[l][m] # "none" =>
       \/ Recorded(l, m, voteRows[l][m]) \/ <<l, m>> \in pardons
       \/ <<"vote", l, m>> \in lostClaims
       \/ \E h \in Working("vote", l) : handler[h].who = m /\ handler[h].at # "row"

LoanInv ==
  /\ handler \in [Handlers -> HandlerRecords]
  /\ \A h \in Handlers : HandlerHolds(handler[h])
  /\ \A tx \in orphans : OrphanHolds(tx)
  /\ \A l \in Loans : DebtHolds(l) /\ LoanHolds(l)
  /\ Apart

\* Before the pool is there, requests create it.
Founding ==
  /\ poolRow = "none" => \A h \in Handlers : handler[h].op \in {"none", "create"}
  /\ poolRow # "none" => \A h \in Handlers : handler[h].op # "create"
  /\ \A g, h \in Handlers : handler[g].op = "create" /\ handler[h].op = "create" => g = h

\* A wind-down has paid whom it has visited, is paying, or has skipped somebody.
Lending == \E l \in Loans : debt[l].state = "funded"
Paid(r) ==
  \A m \in memberRows :
    \/ m \in r.group \/ r.yes \/ shares[m] = 0
    \/ r.at = "sent" /\ r.who = m /\ shares[m] <= r.amount

WindDownInv ==
  disturbed \/ Lending \/
    /\ \A h \in Handlers : handler[h].op = "close" => Paid(handler[h])
    /\ poolRow = "closed" => \A m \in memberRows : shares[m] = 0

PoolInv == TypeOK /\ disturbed \in BOOLEAN /\ LoanInv /\ Founding /\ WindDownInv
-----------------------------------------------------------------------------
(* A member's part of the balance.                                         *)

LEMMA PartOfAll ==
  ASSUME NEW a \in Nat, NEW b \in Nat, NEW t \in Nat, t > 0, a <= t
  PROVE  (a * b) \div t \in Nat /\ (a * b) \div t <= b
<1> DEFINE q == (a * b) \div t
<1>1. a * b \in Nat /\ b * t \in Nat /\ a * b <= b * t
  OBVIOUS
<1>2. q \in Int /\ q * t <= a * b /\ a * b < (q + 1) * t
  OBVIOUS
<1> HIDE DEF q
<1>3. q <= b
  <2> SUFFICES ASSUME q >= b + 1 PROVE FALSE
    BY <1>2
  <2>1. (b + 1) * t <= q * t
    BY <1>2
  <2>2. (b + 1) * t = b * t + t
    OBVIOUS
  <2> QED
    BY <1>1, <1>2, <2>1, <2>2
<1>4. q >= 0
  <2> SUFFICES ASSUME q + 1 <= 0 PROVE FALSE
    BY <1>2
  <2>1. (q + 1) * t <= 0
    BY <1>2
  <2> QED
    BY <1>1, <1>2, <2>1
<1> QED
  BY <1>2, <1>3, <1>4 DEF q

LEMMA WholePart ==
  ASSUME NEW a \in Nat, NEW t \in Nat, t > 0 PROVE (a * t) \div t = a
OBVIOUS
DebtRecords ==
  [state : {"none", "requested", "funded", "repaid"}, borrower : Members, ayes : SUBSET Members,
   noes : SUBSET Members, owed : 0 .. Principal]

LEMMA Books ==
  ASSUME TypeOK
  PROVE  /\ TotalShares = SumOf(shares, Members) /\ TotalShares \in Nat
         /\ TotalOwed = SumOf(Owed, Loans) /\ TotalOwed \in Nat
         /\ Owed \in [Loans -> Nat] /\ shares \in [Members -> Nat] /\ balance \in Nat
         /\ balance <= TotalShares
         /\ \A m \in Members : shares[m] <= TotalShares
<1>1. IsFiniteSet(Members) /\ IsFiniteSet(Loans) /\ Principal \in Nat
  BY PoolAssumption
<1>2. shares \in [Members -> Nat] /\ balance \in Nat /\ TotalShares = balance + TotalOwed
  BY DEF TypeOK
<1>3. Owed \in [Loans -> Nat]
  <2>1. \A l \in Loans : debt[l].owed \in Nat
    BY <1>1 DEF TypeOK
  <2> QED
    BY <2>1 DEF Owed
<1>4. TotalShares = SumOf(shares, Members) /\ TotalOwed = SumOf(Owed, Loans)
  BY DEF TotalShares, TotalOwed, SumOf
<1>5. TotalShares \in Nat
  <2>1. \A m \in Members : shares[m] \in Int /\ shares[m] \in Nat
    BY <1>2
  <2> QED
    BY <1>1, <1>4, <2>1, SumType
<1>6. TotalOwed \in Nat
  <2>1. \A l \in Loans : Owed[l] \in Int /\ Owed[l] \in Nat
    BY <1>3
  <2> QED
    BY <1>1, <1>4, <2>1, SumType
<1>7. ASSUME NEW m \in Members PROVE shares[m] <= TotalShares
  <2>1. \A x \in Members : shares[x] \in Int
    BY <1>2
  <2>2. SumOf(shares, Members) = shares[m] + SumOf(shares, Members \ {m})
    BY <1>1, <2>1, SumTake
  <2>3. SumOf(shares, Members \ {m}) \in Nat
    <3>1. IsFiniteSet(Members \ {m}) /\ \A x \in Members \ {m} : shares[x] \in Int /\ shares[x] \in Nat
      BY <1>1, <1>2, FS_Subset
    <3> QED
      BY <3>1, SumType
  <2>4. shares[m] \in Nat
    BY <1>2
  <2> QED
    BY <1>4, <2>2, <2>3, <2>4
<1>8. balance <= TotalShares
  BY <1>2, <1>6
<1> QED
  BY <1>2, <1>3, <1>4, <1>5, <1>6, <1>7, <1>8

LEMMA PartBounds ==
  ASSUME TypeOK, NEW m \in Members
  PROVE  Withdrawable(m) \in Nat /\ Withdrawable(m) <= shares[m] /\ Withdrawable(m) <= balance
<1>1. /\ shares[m] \in Nat /\ balance \in Nat /\ TotalShares \in Nat
      /\ shares[m] <= TotalShares /\ balance <= TotalShares
  BY Books
<1>2. CASE TotalShares = 0
  BY <1>1, <1>2 DEF Withdrawable
<1>3. CASE TotalShares # 0
  <2>1. Withdrawable(m) = (shares[m] * balance) \div TotalShares
    BY <1>3 DEF Withdrawable
  <2>2. shares[m] * balance = balance * shares[m]
    BY <1>1
  <2>3. TotalShares > 0
    BY <1>1, <1>3
  <2>4. (shares[m] * balance) \div TotalShares \in Nat
        /\ (shares[m] * balance) \div TotalShares <= balance
    BY <1>1, <2>3, PartOfAll
  <2>5. (balance * shares[m]) \div TotalShares <= shares[m]
    BY <1>1, <2>3, PartOfAll
  <2> QED
    BY <2>1, <2>2, <2>4, <2>5
<1> QED
  BY <1>2, <1>3

\* With nothing lent out, everybody can take what is theirs.
LEMMA AllThere ==
  ASSUME TypeOK, \A l \in Loans : DebtHolds(l), ~Lending, NEW m \in Members
  PROVE  Withdrawable(m) = shares[m]
<1>1. /\ shares[m] \in Nat /\ balance \in Nat /\ TotalShares \in Nat
      /\ shares[m] <= TotalShares /\ TotalOwed = SumOf(Owed, Loans)
  BY Books
<1>2. \A l \in Loans : Owed[l] = 0
  BY DEF Lending, DebtHolds, Owed
<1>3. TotalOwed = 0
  BY <1>1, <1>2, SumZero, PoolAssumption
<1>4. balance = TotalShares
  BY <1>1, <1>3 DEF TypeOK
<1>5. CASE TotalShares = 0
  BY <1>1, <1>5 DEF Withdrawable
<1>6. CASE TotalShares # 0
  <2>1. Withdrawable(m) = (shares[m] * TotalShares) \div TotalShares
    BY <1>4, <1>6 DEF Withdrawable
  <2>2. TotalShares > 0
    BY <1>1, <1>6
  <2> QED
    BY <1>1, <2>1, <2>2, WholePart
<1> QED
  BY <1>5, <1>6

-----------------------------------------------------------------------------
(* The books of the contract.                                              *)

LEMMA SharesAdded == TotalShares = SumOf(shares, Members)
BY DEF TotalShares, SumOf

LEMMA OwedAdded == TotalOwed = SumOf(Owed, Loans)
BY DEF TotalOwed, SumOf

LEMMA SumsKept ==
  /\ UNCHANGED shares => TotalShares' = TotalShares
  /\ UNCHANGED debt => TotalOwed' = TotalOwed
<1>1. (TotalShares = SumOf(shares, Members))' /\ (TotalOwed = SumOf(Owed, Loans))'
  BY SharesAdded, OwedAdded, PTL
<1>2. UNCHANGED debt => Owed' = Owed
  BY DEF Owed
<1> QED
  BY <1>1, <1>2, SharesAdded, OwedAdded

LEMMA SharesChange ==
  ASSUME TypeOK, NEW m \in Members, NEW n \in Nat, shares' = [shares EXCEPT ![m] = n]
  PROVE  shares' \in [Members -> Nat] /\ TotalShares' = TotalShares + n - shares[m]
<1>1. shares \in [Members -> Nat] /\ TotalShares = SumOf(shares, Members)
  BY Books
<1>2. shares' \in [Members -> Nat] /\ shares'[m] = n
      /\ \A x \in Members : x # m => shares'[x] = shares[x]
  BY <1>1
<1>3. \A x \in Members : shares[x] \in Int /\ shares'[x] \in Int
  BY <1>1, <1>2
<1>4. TotalShares' = SumOf(shares', Members)
  <2>1. (TotalShares = SumOf(shares, Members))'
    BY SharesAdded, PTL
  <2> QED
    BY <2>1
<1>5. SumOf(shares', Members) = SumOf(shares, Members) + shares'[m] - shares[m]
  <2>1. PICK f, g : f = shares /\ g = shares'
    OBVIOUS
  <2>2. IsFiniteSet(Members) /\ (\A x \in Members : f[x] \in Int /\ g[x] \in Int)
        /\ (\A x \in Members : x # m => g[x] = f[x])
    BY <1>2, <1>3, <2>1, PoolAssumption
  <2>3. SumOf(g, Members) = SumOf(f, Members) + g[m] - f[m]
    BY <2>2, SumUpdate
  <2> QED
    BY <2>1, <2>3
<1> QED
  BY <1>1, <1>2, <1>4, <1>5

LEMMA DebtChange ==
  ASSUME TypeOK, NEW l \in Loans, NEW d \in DebtRecords, debt' = [debt EXCEPT ![l] = d]
  PROVE  /\ debt' \in [Loans -> DebtRecords] /\ TotalOwed' = TotalOwed + d.owed - debt[l].owed
         /\ debt'[l] = d /\ \A x \in Loans : x # l => debt'[x] = debt[x]
<1>1. Owed \in [Loans -> Nat] /\ TotalOwed = SumOf(Owed, Loans)
  BY Books
<1>2. debt \in [Loans -> DebtRecords]
  BY DEF TypeOK, DebtRecords
<1>3. /\ debt' \in [Loans -> DebtRecords] /\ debt'[l] = d
      /\ \A x \in Loans : x # l => debt'[x] = debt[x]
  BY <1>2
<1>4. \A r \in DebtRecords : r.owed \in Int
  BY PoolAssumption DEF DebtRecords
<1>5. /\ Owed[l] = debt[l].owed /\ Owed'[l] = d.owed
      /\ \A x \in Loans : x # l => Owed'[x] = Owed[x]
      /\ \A x \in Loans : Owed[x] \in Int /\ Owed'[x] \in Int
  BY <1>1, <1>2, <1>3, <1>4 DEF Owed
<1>6. TotalOwed' = SumOf(Owed', Loans)
  <2>1. (TotalOwed = SumOf(Owed, Loans))'
    BY OwedAdded, PTL
  <2> QED
    BY <2>1
<1>7. SumOf(Owed', Loans) = SumOf(Owed, Loans) + Owed'[l] - Owed[l]
  BY <1>5, SumUpdate, PoolAssumption
<1> QED
  BY <1>1, <1>3, <1>5, <1>6, <1>7
\* What a transaction does, whoever waits for it.
ChainShapes ==
  /\ chainMembers \subseteq Members /\ shares \in [Members -> Nat] /\ balance \in Nat
  /\ debt \in [Loans -> DebtRecords] /\ disturbed \in BOOLEAN
  /\ TotalShares = balance + TotalOwed
  /\ \A l \in Loans : DebtHolds(l)

LEMMA NoDebtShape == NoDebt \in DebtRecords /\ NoDebt.state = "none" /\ NoDebt.owed = 0
                     /\ NoDebt.ayes = {} /\ NoDebt.noes = {}
BY PoolAssumption DEF NoDebt, DebtRecords

\* The effect on the debts: those of other loans stay, votes and repayments
\* are never taken back, and a debt that was not there is only made by a
\* request.
DebtsGrow(tx) ==
  /\ \A l \in Loans : l # tx.loan => debt'[l] = debt[l]
  /\ tx.op # "request" => \A l \in Loans :
       /\ debt[l].ayes \subseteq debt'[l].ayes /\ debt[l].noes \subseteq debt'[l].noes
       /\ debt[l].state = "repaid" => debt'[l].state = "repaid"
       /\ debt[l] = NoDebt => debt'[l] = NoDebt
  /\ tx.op = "vote" => tx.who \in IF tx.yes THEN debt'[tx.loan].ayes ELSE debt'[tx.loan].noes
  /\ tx.op = "repay" /\ tx.yes => debt'[tx.loan].state = "repaid"

\* The effect on the money: shares grow with deposits only, what is withdrawn
\* is gone, and money that comes in during a wind-down disturbs it.
SharesFall(tx) ==
  /\ disturbed => disturbed'
  /\ \/ disturbed' \/ ~WindingDown
     \/ /\ \A m \in Members : shares'[m] <= shares[m]
        /\ Lending => Lending'
        /\ tx.op = "withdraw" => shares'[tx.who] = shares[tx.who] - tx.amount

Calling(tx) ==
  /\ TypeOK /\ disturbed \in BOOLEAN /\ \A l \in Loans : DebtHolds(l)
  /\ TxFormed(tx) /\ (tx.op = "request" => debt[tx.loan] = NoDebt)

LEMMA CustodyCall ==
  ASSUME NEW tx, Calling(tx),
         ContractCreatePool(tx) \/ ContractAddMember(tx) \/ ContractDeposit(tx) \/ ContractWithdraw(tx)
  PROVE  ChainShapes' /\ DebtsGrow(tx) /\ SharesFall(tx)
<1>1. /\ TypeOK /\ disturbed \in BOOLEAN /\ tx \in Txs /\ TxFormed(tx)
      /\ chainMembers \subseteq Members /\ shares \in [Members -> Nat] /\ balance \in Nat
      /\ debt \in [Loans -> DebtRecords] /\ TotalShares = balance + TotalOwed
      /\ \A l \in Loans : DebtHolds(l)
  BY DEF Calling, TypeOK, TxFormed, DebtRecords
<1>2. debt' = debt
  BY DEF ContractCreatePool, ContractAddMember, ContractDeposit, ContractWithdraw
<1>3. debt' \in [Loans -> DebtRecords] /\ (\A l \in Loans : DebtHolds(l)') /\ TotalOwed' = TotalOwed
      /\ Lending' = Lending
  BY <1>1, <1>2, SumsKept DEF DebtHolds, Lending
<1>4. DebtsGrow(tx)
  BY <1>2 DEF DebtsGrow, ContractCreatePool, ContractAddMember, ContractDeposit, ContractWithdraw
<1>5. tx.who \in Members /\ tx.amount \in Nat /\ tx.group \subseteq Members
  BY <1>1 DEF Txs
<1>6. CASE ContractCreatePool(tx) \/ ContractAddMember(tx)
  <2>1. chainMembers' \subseteq Members /\ UNCHANGED <<shares, balance, disturbed>>
        /\ tx.op # "withdraw"
    BY <1>1, <1>5, <1>6 DEF ContractCreatePool, ContractAddMember
  <2>2. TotalShares' = TotalShares
    BY <2>1, SumsKept
  <2>3. \A m \in Members : shares'[m] <= shares[m]
    BY <1>1, <2>1
  <2>4. ChainShapes'
    BY <1>1, <1>3, <2>1, <2>2 DEF ChainShapes
  <2> QED
    BY <1>3, <1>4, <2>1, <2>3, <2>4 DEF SharesFall
<1>7. CASE ContractDeposit(tx)
  <2>1. /\ shares' = [shares EXCEPT ![tx.who] = shares[tx.who] + tx.amount]
        /\ balance' = balance + tx.amount /\ chainMembers' = chainMembers
        /\ disturbed' = (disturbed \/ WindingDown)
    BY <1>7 DEF ContractDeposit
  <2>2. shares[tx.who] + tx.amount \in Nat /\ shares[tx.who] \in Nat
    BY <1>1, <1>5
  <2>3. shares' \in [Members -> Nat] /\ TotalShares' = TotalShares + tx.amount
    <3>1. PICK n \in Nat : n = shares[tx.who] + tx.amount
      BY <2>2
    <3>2. shares' \in [Members -> Nat] /\ TotalShares' = TotalShares + n - shares[tx.who]
      BY <1>1, <1>5, <2>1, <3>1, SharesChange
    <3>3. TotalShares \in Nat
      BY <1>1, Books
    <3> QED
      BY <1>5, <2>2, <3>1, <3>2, <3>3
  <2>4. TotalShares' = balance' + TotalOwed' /\ balance' \in Nat
    <3>1. TotalOwed \in Nat
      BY <1>1, Books
    <3> QED
      BY <1>1, <1>3, <1>5, <2>1, <2>3, <3>1
  <2>5. disturbed' \in BOOLEAN
    BY <1>1, <2>1 DEF WindingDown
  <2>6. ChainShapes'
    BY <1>1, <1>3, <2>1, <2>3, <2>4, <2>5 DEF ChainShapes
  <2>7. SharesFall(tx)
    BY <2>1 DEF SharesFall
  <2> QED
    BY <1>4, <2>6, <2>7
<1>8. CASE ContractWithdraw(tx)
  <2>1. /\ shares' = [shares EXCEPT ![tx.who] = shares[tx.who] - tx.amount]
        /\ balance' = balance - tx.amount /\ chainMembers' = chainMembers
        /\ disturbed' = disturbed /\ tx.amount <= Withdrawable(tx.who)
    BY <1>8 DEF ContractWithdraw
  <2>2. /\ Withdrawable(tx.who) \in Nat /\ Withdrawable(tx.who) <= shares[tx.who]
        /\ Withdrawable(tx.who) <= balance
    BY <1>1, <1>5, PartBounds
  <2>3. shares[tx.who] \in Nat
    BY <1>1, <1>5
  <2>4. shares[tx.who] - tx.amount \in Nat /\ balance - tx.amount \in Nat
    BY <1>1, <1>5, <2>1, <2>2, <2>3
  <2>5. shares' \in [Members -> Nat] /\ TotalShares' = TotalShares - tx.amount
    <3>1. PICK n \in Nat : n = shares[tx.who] - tx.amount
      BY <2>4
    <3>2. shares' \in [Members -> Nat] /\ TotalShares' = TotalShares + n - shares[tx.who]
      BY <1>1, <1>5, <2>1, <3>1, SharesChange
    <3>3. TotalShares \in Nat
      BY <1>1, Books
    <3> QED
      BY <1>5, <2>3, <3>1, <3>2, <3>3
  <2>6. TotalShares' = balance' + TotalOwed' /\ balance' \in Nat
    <3>1. TotalOwed \in Nat
      BY <1>1, Books
    <3> QED
      BY <1>1, <1>3, <1>5, <2>1, <2>4, <2>5, <3>1
  <2>7. ChainShapes'
    BY <1>1, <1>3, <2>1, <2>5, <2>6 DEF ChainShapes
  <2>8. shares'[tx.who] = shares[tx.who] - tx.amount /\ \A m \in Members : shares'[m] <= shares[m]
    BY <1>1, <1>5, <2>1, <2>3
  <2> QED
    BY <1>3, <1>4, <2>1, <2>7, <2>8 DEF SharesFall
<1> QED
  BY <1>6, <1>7, <1>8

LEMMA LoanCall ==
  ASSUME NEW tx, Calling(tx),
         ContractRequestLoan(tx) \/ ContractVote(tx) \/ ContractRepay(tx)
  PROVE  ChainShapes' /\ DebtsGrow(tx) /\ SharesFall(tx)
<1>1. /\ TypeOK /\ disturbed \in BOOLEAN /\ tx \in Txs /\ TxFormed(tx)
      /\ chainMembers \subseteq Members /\ shares \in [Members -> Nat] /\ balance \in Nat
      /\ debt \in [Loans -> DebtRecords] /\ TotalShares = balance + TotalOwed
      /\ \A l \in Loans : DebtHolds(l)
  BY DEF Calling, TypeOK, TxFormed, DebtRecords
<1>2. /\ tx.op \in {"request", "vote", "repay"}
      /\ UNCHANGED <<chainMembers, shares>>
  BY DEF ContractRequestLoan, ContractVote, ContractRepay
<1>3. tx.who \in Members /\ tx.amount \in Nat /\ tx.yes \in BOOLEAN /\ tx.loan \in Loans
  BY <1>1, <1>2 DEF Txs, TxFormed, LoanOps, NewOps, RowOps
<1>4. PICK old \in DebtRecords : old = debt[tx.loan]
  BY <1>1, <1>3
<1>5. /\ old.owed \in Nat /\ old.owed <= Principal /\ Principal \in Nat /\ Principal > 0
      /\ old.ayes \subseteq Members /\ old.noes \subseteq Members
  BY PoolAssumption DEF DebtRecords
<1>6. (old.state = "funded" => old.owed > 0) /\ (old.state # "funded" => old.owed = 0)
  BY <1>1, <1>3, <1>4 DEF DebtHolds
<1>7. TotalShares' = TotalShares /\ TotalOwed \in Nat /\ TotalShares \in Nat
  BY <1>1, <1>2, SumsKept, Books
\* Whatever the call, it is enough to look at the new debt of its loan.
<1>8. ASSUME NEW d \in DebtRecords, debt' = [debt EXCEPT ![tx.loan] = d],
             d.state = "funded" => d.owed > 0, d.state # "funded" => d.owed = 0,
             d.owed \in Nat, balance' = balance + old.owed - d.owed, balance' \in Nat,
             disturbed' \in BOOLEAN, disturbed => disturbed',
             d.state # "funded" /\ old.state = "funded" => disturbed' \/ ~WindingDown
      PROVE  /\ ChainShapes' /\ SharesFall(tx)
             /\ debt'[tx.loan] = d /\ \A l \in Loans : l # tx.loan => debt'[l] = debt[l]
  <2>1. /\ debt' \in [Loans -> DebtRecords] /\ TotalOwed' = TotalOwed + d.owed - old.owed
        /\ debt'[tx.loan] = d /\ \A l \in Loans : l # tx.loan => debt'[l] = debt[l]
    BY <1>1, <1>3, <1>4, <1>8, DebtChange
  <2>2. \A l \in Loans : DebtHolds(l)'
    BY <1>1, <1>8, <2>1 DEF DebtHolds
  <2>3. TotalShares' = balance' + TotalOwed'
    BY <1>1, <1>5, <1>7, <1>8, <2>1
  <2>4. ChainShapes'
    BY <1>1, <1>2, <1>8, <2>1, <2>2, <2>3 DEF ChainShapes
  <2>5. Lending => Lending' \/ disturbed' \/ ~WindingDown
    BY <1>3, <1>4, <1>8, <2>1 DEF Lending
  <2>6. (\A m \in Members : shares'[m] <= shares[m]) /\ tx.op # "withdraw"
    BY <1>1, <1>2
  <2> QED
    BY <1>8, <2>1, <2>4, <2>5, <2>6 DEF SharesFall
<1>9. CASE ContractRequestLoan(tx)
  <2>1. PICK d \in DebtRecords : d = [NoDebt EXCEPT !.state = "requested", !.borrower = tx.who]
    BY <1>3, NoDebtShape DEF DebtRecords
  <2>2. d.state = "requested" /\ d.owed = 0
    BY <2>1 DEF NoDebt
  <2>3. debt' = [debt EXCEPT ![tx.loan] = d] /\ UNCHANGED <<balance, disturbed>> /\ tx.op = "request"
    BY <1>9, <2>1 DEF ContractRequestLoan
  <2>4. old.owed = 0 /\ old.state = "none"
    BY <1>4, <2>3, NoDebtShape DEF Calling
  <2>5. /\ ChainShapes' /\ SharesFall(tx)
        /\ \A l \in Loans : l # tx.loan => debt'[l] = debt[l]
    <3>1. /\ d.state # "funded" /\ old.state # "funded" /\ d.owed \in Nat
          /\ balance' = balance + old.owed - d.owed /\ balance' \in Nat
          /\ disturbed' \in BOOLEAN /\ (disturbed => disturbed')
      BY <1>1, <2>2, <2>3, <2>4
    <3> QED
      BY <1>8, <2>2, <2>3, <3>1
  <2> QED
    BY <2>3, <2>5 DEF DebtsGrow
<1>10. CASE ContractVote(tx)
  <2> DEFINE ayes == IF tx.yes THEN old.ayes \cup {tx.who} ELSE old.ayes
             noes == IF tx.yes THEN old.noes ELSE old.noes \cup {tx.who}
             state == IF Decides(tx) THEN "funded" ELSE old.state
             owed == IF Decides(tx) THEN Principal ELSE old.owed
  <2>1. ayes \subseteq Members /\ noes \subseteq Members /\ owed \in 0 .. Principal
        /\ state \in {"none", "requested", "funded", "repaid"}
    BY <1>3, <1>5, PoolAssumption DEF DebtRecords
  <2>2. PICK d \in DebtRecords :
          d = [old EXCEPT !.ayes = ayes, !.noes = noes, !.state = state, !.owed = owed]
    <3> HIDE DEF ayes, noes, state, owed
    <3> QED
      BY <2>1 DEF DebtRecords
  <2>3. d.ayes = ayes /\ d.noes = noes /\ d.state = state /\ d.owed = owed
    BY <2>2 DEF DebtRecords
  <2>4. /\ debt' = [debt EXCEPT ![tx.loan] = d] /\ old.state = "requested" /\ tx.op = "vote"
        /\ balance' = IF Decides(tx) THEN balance - Principal ELSE balance
        /\ Decides(tx) => balance >= Principal
        /\ disturbed' = (disturbed \/ (Decides(tx) /\ WindingDown))
    <3>1. debt' = [debt EXCEPT ![tx.loan] =
            [debt[tx.loan] EXCEPT
               !.ayes = IF tx.yes THEN debt[tx.loan].ayes \cup {tx.who} ELSE debt[tx.loan].ayes,
               !.noes = IF tx.yes THEN debt[tx.loan].noes ELSE debt[tx.loan].noes \cup {tx.who},
               !.state = IF Decides(tx) THEN "funded" ELSE debt[tx.loan].state,
               !.owed = IF Decides(tx) THEN Principal ELSE debt[tx.loan].owed]]
      BY <1>10 DEF ContractVote
    <3>2. debt' = [debt EXCEPT ![tx.loan] = d]
      <4>1. debt' = [debt EXCEPT ![tx.loan] =
              [old EXCEPT !.ayes = ayes, !.noes = noes, !.state = state, !.owed = owed]]
        BY <1>4, <3>1, Zenon
      <4> HIDE DEF ayes, noes, state, owed
      <4> QED
        BY <2>2, <4>1, Zenon
    <3>3. old.state = "requested"
      BY <1>4, <1>10 DEF ContractVote
    <3> QED
      BY <1>10, <3>2, <3>3, Zenon DEF ContractVote
  <2>5. old.owed = 0 /\ old # NoDebt
    BY <1>6, <2>4, NoDebtShape
  <2>6. /\ d.state = "funded" => d.owed > 0
        /\ d.state # "funded" => d.owed = 0
        /\ d.owed \in Nat /\ balance' = balance + old.owed - d.owed /\ balance' \in Nat
    BY <1>1, <1>5, <2>3, <2>4, <2>5
  <2>7. disturbed' \in BOOLEAN /\ (disturbed => disturbed')
    BY <1>1, <2>4 DEF Decides, WindingDown
  <2>8. /\ ChainShapes' /\ SharesFall(tx) /\ debt'[tx.loan] = d
        /\ \A l \in Loans : l # tx.loan => debt'[l] = debt[l]
    BY <1>8, <2>4, <2>6, <2>7
  <2>9. \A l \in Loans :
          /\ debt[l].ayes \subseteq debt'[l].ayes /\ debt[l].noes \subseteq debt'[l].noes
          /\ debt[l].state = "repaid" => debt'[l].state = "repaid"
          /\ debt[l] = NoDebt => debt'[l] = NoDebt
    BY <1>4, <2>3, <2>4, <2>5, <2>8
  <2>10. tx.who \in IF tx.yes THEN debt'[tx.loan].ayes ELSE debt'[tx.loan].noes
    BY <2>3, <2>8
  <2> QED
    BY <2>4, <2>8, <2>9, <2>10 DEF DebtsGrow
<1>11. CASE ContractRepay(tx)
  <2> DEFINE paid == RepaymentDue(tx)
             state == IF old.owed = paid THEN "repaid" ELSE old.state
  <2>1. tx.op = "repay" /\ old.state = "funded" /\ old.owed > 0
    BY <1>4, <1>6, <1>11 DEF ContractRepay
  <2>2. paid = IF tx.yes THEN old.owed ELSE 1
    BY <1>1, <1>4, <2>1 DEF RepaymentDue, TxFormed
  <2>3. paid \in Nat /\ paid <= old.owed /\ old.owed - paid \in 0 .. Principal
    BY <1>5, <2>1, <2>2
  <2>4. PICK d \in DebtRecords : d = [old EXCEPT !.owed = old.owed - paid, !.state = state]
    <3>1. state \in {"none", "requested", "funded", "repaid"}
      BY <2>1
    <3> HIDE DEF paid, state
    <3> QED
      BY <2>3, <3>1 DEF DebtRecords
  <2>5. d.owed = old.owed - paid /\ d.state = state /\ d.ayes = old.ayes /\ d.noes = old.noes
    <3> HIDE DEF paid, state
    <3> QED
      BY <2>4 DEF DebtRecords
  <2>6. /\ debt' = [debt EXCEPT ![tx.loan].owed = debt[tx.loan].owed - paid,
                                ![tx.loan].state = IF debt[tx.loan].owed = paid THEN "repaid"
                                                   ELSE debt[tx.loan].state]
        /\ balance' = balance + paid /\ disturbed' = (disturbed \/ WindingDown)
    BY <1>11 DEF ContractRepay
  <2> HIDE DEF paid
  <2>7. debt' = [debt EXCEPT ![tx.loan] = d]
    BY <1>1, <1>3, <1>4, <2>4, <2>6 DEF DebtRecords
  <2>8. /\ d.state = "funded" => d.owed > 0
        /\ d.state # "funded" => d.owed = 0
        /\ d.owed \in Nat /\ balance' = balance + old.owed - d.owed /\ balance' \in Nat
    BY <1>1, <1>5, <2>1, <2>3, <2>5, <2>6
  <2>9. disturbed' \in BOOLEAN /\ (disturbed => disturbed') /\ (disturbed' \/ ~WindingDown)
    BY <1>1, <2>6 DEF WindingDown
  <2>10. /\ ChainShapes' /\ SharesFall(tx) /\ debt'[tx.loan] = d
         /\ \A l \in Loans : l # tx.loan => debt'[l] = debt[l]
    BY <1>8, <2>7, <2>8, <2>9
  <2>11. old # NoDebt
    BY <2>1, NoDebtShape
  <2>12. \A l \in Loans :
          /\ debt[l].ayes \subseteq debt'[l].ayes /\ debt[l].noes \subseteq debt'[l].noes
          /\ debt[l].state = "repaid" => debt'[l].state = "repaid"
          /\ debt[l] = NoDebt => debt'[l] = NoDebt
    BY <1>4, <2>1, <2>5, <2>10, <2>11
  <2>13. tx.yes => debt'[tx.loan].state = "repaid"
    BY <2>2, <2>5, <2>10
  <2> QED
    BY <2>1, <2>10, <2>12, <2>13 DEF DebtsGrow
<1> QED
  BY <1>9, <1>10, <1>11

LEMMA CallEffect ==
  ASSUME NEW tx, Calling(tx), Execute(tx)
  PROVE  ChainShapes' /\ DebtsGrow(tx) /\ SharesFall(tx)
BY CustodyCall, LoanCall DEF Execute

-----------------------------------------------------------------------------
(* What a step owes the other requests.                                    *)

\* Nothing that request r relies on is lost.
Kept(r) ==
  /\ r.op \in RowOps => loanRow'[r.loan].status # "NONE"
  /\ r.op \in NewOps => /\ loanRow'[r.loan].status = "NONE"
                        /\ debt[r.loan] = NoDebt => debt'[r.loan] = NoDebt
  /\ r.op = "repay" /\ debt[r.loan].state = "repaid" => debt'[r.loan].state = "repaid"
  /\ r.op = "vote" /\ r.at # "row" =>
       /\ voteRows'[r.loan][r.who] = voteRows[r.loan][r.who]
       /\ debt[r.loan].ayes \subseteq debt'[r.loan].ayes
       /\ debt[r.loan].noes \subseteq debt'[r.loan].noes

LEMMA KeptHolds ==
  ASSUME NEW r, HandlerHolds(r), Kept(r) PROVE HandlerHolds(r)'
<1>1. WellFormed(r)' /\ NoDebt' = NoDebt
  BY DEF HandlerHolds, WellFormed, HandlerRecords, Places, LoanOps, NewOps, RowOps, CallOps, NoDebt
<1>2. r.op = "vote" /\ r.at = "landed" => Recorded(r.loan, r.who, Ballot(r.yes))'
  BY DEF HandlerHolds, Kept, Recorded, Ballot
<1> QED
  BY <1>1, <1>2 DEF HandlerHolds, Kept, Ballot, NewOps, RowOps

LEMMA HandlersHold ==
  ASSUME PoolInv, NEW h \in Handlers, NEW r, handler' = [handler EXCEPT ![h] = r],
         HandlerHolds(r)', \A g \in Handlers : g # h => Kept(handler[g])
  PROVE  \A g \in Handlers : HandlerHolds(handler[g])'
<1> SUFFICES ASSUME NEW g \in Handlers PROVE HandlerHolds(handler[g])'
  OBVIOUS
<1>1. PICK q : q = handler'[g]
  OBVIOUS
<1>2. HandlerHolds(q)' => HandlerHolds(handler[g])'
  BY <1>1 DEF HandlerHolds, WellFormed, Recorded, Ballot
<1>3. CASE g = h
  <2>1. q = r
    BY <1>1, <1>3 DEF PoolInv, LoanInv
  <2> QED
    BY <1>2, <2>1
<1>4. CASE g # h
  <2>1. q = handler[g]
    BY <1>1, <1>4 DEF PoolInv, LoanInv
  <2>2. HandlerHolds(q) /\ Kept(q)
    BY <1>4, <2>1 DEF PoolInv, LoanInv
  <2> QED
    BY <1>2, <2>2, KeptHolds
<1> QED
  BY <1>3, <1>4

LEMMA ShapeKept ==
  ASSUME PoolInv, NEW h \in Handlers, NEW r, handler' = [handler EXCEPT ![h] = r], WellFormed(r)
  PROVE  handler' \in [Handlers -> HandlerRecords]
BY DEF PoolInv, LoanInv, WellFormed

\* With the rows and the debts as they are, nothing is lost.
LEMMA NothingLost ==
  ASSUME UNCHANGED <<loanRow, voteRows, debt>>, NEW r, HandlerHolds(r)
  PROVE  Kept(r) /\ HandlerHolds(r)'
<1>1. Kept(r)
  BY DEF Kept, HandlerHolds
<1> QED
  BY <1>1, KeptHolds

LEMMA OrphanKept ==
  ASSUME NEW tx, OrphanHolds(tx),
         tx.op \in RowOps => loanRow'[tx.loan].status # "NONE",
         tx.op = "request" => loanRow'[tx.loan].status = "NONE" /\ debt'[tx.loan] = NoDebt
  PROVE  OrphanHolds(tx)'
<1>1. TxFormed(tx)' /\ NoDebt' = NoDebt
  BY DEF OrphanHolds, TxFormed, Txs, LoanOps, NewOps, RowOps, CallOps, NoDebt
<1> QED
  BY <1>1 DEF OrphanHolds, RowOps

\* The transaction of a request that waits for it.
LEMMA TransactionHolds ==
  ASSUME NEW h, HandlerHolds(handler[h]), handler[h].at = "sent"
  PROVE  /\ OrphanHolds(Transaction(h))
         /\ Transaction(h).loan = handler[h].loan
         /\ Transaction(h).op = "request" <=> handler[h].op = "request"
         /\ Transaction(h).op = "repay" <=> handler[h].op = "repay"
         /\ Transaction(h).op = "vote" <=> handler[h].op = "vote"
         /\ Transaction(h).op \in {"vote", "repay"} => Transaction(h).yes = handler[h].yes
         /\ Transaction(h).who = handler[h].who /\ Transaction(h).amount = handler[h].amount
         /\ handler[h].op = "close" => Transaction(h).op = "withdraw"
<1>1. PICK r : r = handler[h]
  OBVIOUS
<1>2. /\ r \in HandlerRecords /\ HandlerHolds(r) /\ WellFormed(r) /\ r.at = "sent"
      /\ r.op \in CallOps \cup {"close"}
  BY <1>1 DEF HandlerHolds, WellFormed
<1>3. PICK tx : tx = Transaction(h)
  OBVIOUS
<1>4. tx = [op |-> IF r.op = "close" THEN "withdraw" ELSE r.op, who |-> r.who, loan |-> r.loan,
            yes |-> r.yes /\ r.op \in {"vote", "repay"}, amount |-> r.amount,
            group |-> IF r.op = "create" THEN r.group ELSE {}]
  BY <1>1, <1>3 DEF Transaction
<1>5. /\ tx.op = IF r.op = "close" THEN "withdraw" ELSE r.op
      /\ tx.who = r.who /\ tx.loan = r.loan /\ tx.amount = r.amount
      /\ tx.yes = (r.yes /\ r.op \in {"vote", "repay"})
      /\ tx.group = IF r.op = "create" THEN r.group ELSE {}
  BY <1>4
<1>6. /\ tx.op \in CallOps /\ tx.who \in Members /\ tx.loan \in Loans \cup {NoLoan}
      /\ tx.yes \in BOOLEAN /\ tx.amount \in Nat /\ tx.group \in SUBSET Members
  BY <1>2, <1>5 DEF HandlerRecords, WellFormed, CallOps
<1>7. tx \in Txs
  BY <1>4, <1>5, <1>6 DEF Txs
<1>8. TxFormed(tx)
  BY <1>2, <1>5, <1>7 DEF TxFormed, WellFormed, LoanOps, NewOps, RowOps
<1>9. OrphanHolds(tx)
  BY <1>2, <1>5, <1>8 DEF OrphanHolds, HandlerHolds, NewOps, RowOps
<1>10. r.yes \in BOOLEAN
  BY <1>2 DEF HandlerRecords, Places
<1> QED
  BY <1>1, <1>2, <1>3, <1>5, <1>9, <1>10

RowRecords ==
  [status : Outstanding \cup {"NONE", "REJECTED", "REPAID"}, borrower : Members, hasId : BOOLEAN,
   target : Loans \cup {NoLoan}, deadline : {"none", "ahead", "past"}]
Ballots == [Loans -> [Members -> {"none", "yes", "no"}]]

\* The contract at rest.
LEMMA TypeAtRest ==
  ASSUME TypeOK, UNCHANGED contract, poolRow' \in {"none", "open", "closed"},
         memberRows' \subseteq Members, loanRow' \in [Loans -> RowRecords],
         voteRows' \in Ballots, cronLoans' \subseteq Loans
  PROVE  TypeOK'
<1>1. TotalShares' = TotalShares /\ TotalOwed' = TotalOwed
  BY SumsKept DEF contract
<1> QED
  BY <1>1 DEF TypeOK, contract, RowRecords, Ballots, Outstanding

LEMMA TypeOfRows ==
  ASSUME TypeOK
  PROVE  /\ poolRow \in {"none", "open", "closed"} /\ memberRows \subseteq Members
         /\ loanRow \in [Loans -> RowRecords] /\ voteRows \in Ballots /\ cronLoans \subseteq Loans
BY DEF TypeOK, RowRecords, Ballots, Outstanding

\* A request goes on, or one begins that this pool can take.
Founded(h, r) ==
  \/ r.op = handler[h].op \/ r.op = "none"
  \/ poolRow # "none" /\ r.op # "create"
  \/ poolRow = "none" /\ r.op = "create" /\ \A g \in Handlers : handler[g].op # "create"

\* The pool and its money at rest.
LEMMA PoolAtRest ==
  ASSUME PoolInv, NEW h \in Handlers, NEW r, handler' = [handler EXCEPT ![h] = r],
         Founded(h, r), UNCHANGED <<poolRow, memberRows, shares, debt, disturbed>>,
         disturbed \/ Lending \/ (r.op = "close" => Paid(r))
  PROVE  Founding' /\ WindDownInv'
<1>1. handler'[h] = r /\ \A g \in Handlers : g # h => handler'[g] = handler[g]
  BY DEF PoolInv, LoanInv
<1>2. Founding'
  BY <1>1 DEF PoolInv, Founding, Founded
<1>3. Lending => Lending'
  BY DEF Lending
<1>4. CASE disturbed \/ Lending
  <2>1. disturbed => disturbed'
    BY Zenon
  <2> QED
    BY <1>2, <1>3, <1>4, <2>1, Zenon DEF WindDownInv
<1>5. CASE ~disturbed /\ ~Lending
  <2>1. /\ \A g \in Handlers : handler[g].op = "close" => Paid(handler[g])
        /\ poolRow = "closed" => \A m \in memberRows : shares[m] = 0
    BY <1>5 DEF PoolInv, WindDownInv
  <2>2. ASSUME NEW g \in Handlers, handler'[g].op = "close" PROVE Paid(handler[g])'
    <3>1. CASE g = h
      BY <1>1, <1>5, <2>2, <3>1 DEF Paid
    <3>2. CASE g # h
      BY <1>1, <2>1, <2>2, <3>2 DEF Paid
    <3> QED
      BY <3>1, <3>2
  <2>3. poolRow' = "closed" => \A m \in memberRows' : shares'[m] = 0
    BY <2>1
  <2> QED
    BY <1>2, <2>2, <2>3, Zenon DEF WindDownInv
<1> QED
  BY <1>2, <1>4, <1>5

\* What the step owes the loan the request works on: its claim on the row and
\* its vote stay until they are settled, or a restart loses them.
StaysPut(h, r) ==
  handler[h].op \in {"repay", "vote"} =>
    \/ <<handler[h].op, handler[h].loan, handler[h].who>> \in lostClaims'
    \/ handler[h].op = "repay" /\ (~handler[h].yes \/ handler[h].at = "claim")
    \/ handler[h].op = "vote" /\ handler[h].at = "row"
    \/ /\ r.op = handler[h].op /\ r.loan = handler[h].loan /\ r.who = handler[h].who
       /\ r.yes = handler[h].yes /\ r.at \notin {"claim", "row"}

\* What a step of request h, which is r afterwards, may do to loan l: it is
\* made by its own request, and REPAID by a request that has it or goes for it;
\* a vote is recorded by its voter, or stays, unless it is one to write off.
RowKept(h, r, l) ==
  /\ loanRow'[l].status = "NONE" => loanRow[l].status = "NONE" /\ voteRows'[l] = voteRows[l]
  /\ loanRow[l].status = "NONE" /\ loanRow'[l].status # "NONE" =>
       handler[h].op \in NewOps /\ handler[h].loan = l
  /\ loanRow'[l].status = "REPAID" =>
       \/ debt'[l].state = "repaid" \/ l \in forgiven'
       \/ r.op = "repay" /\ r.loan = l /\ r.yes /\ r.at # "claim"
       \/ /\ loanRow[l].status = "REPAID"
          /\ handler[h].op = "repay" /\ handler[h].loan = l /\ handler[h].yes => StaysPut(h, r)
  /\ \A m \in Members : voteRows'[l][m] # "none" =>
       \/ <<l, m>> \in pardons'
       \/ m \in IF voteRows'[l][m] = "yes" THEN debt[l].ayes ELSE debt[l].noes
       \/ r.op = "vote" /\ r.loan = l /\ r.who = m /\ r.at # "row"
       \/ /\ voteRows'[l][m] = voteRows[l][m]
          /\ handler[h].op = "vote" /\ handler[h].loan = l /\ handler[h].who = m => StaysPut(h, r)
  /\ \A g \in Handlers :
       g # h /\ handler[g].op = "vote" /\ handler[g].at # "row" /\ handler[g].loan = l =>
         voteRows'[l][handler[g].who] = voteRows[l][handler[g].who]

\* Every loan keeps a witness for what its row says.
LEMMA LoanKept ==
  ASSUME PoolInv, NEW h \in Handlers, NEW r, handler' = [handler EXCEPT ![h] = r],
         lostClaims \subseteq lostClaims', forgiven \subseteq forgiven',
         pardons \subseteq pardons', NEW l \in Loans, RowKept(h, r, l), debt[l].state = "repaid" => debt'[l].state = "repaid",
         debt[l].ayes \subseteq debt'[l].ayes, debt[l].noes \subseteq debt'[l].noes
  PROVE  LoanHolds(l)'
<1>1. handler'[h] = r /\ \A g \in Handlers : g # h => handler'[g] = handler[g]
  BY DEF PoolInv, LoanInv
<1>2. LoanHolds(l)
  BY DEF PoolInv, LoanInv
<1>3. (loanRow[l].status = "NONE" => \A m \in Members : voteRows[l][m] = "none")'
  BY <1>2 DEF LoanHolds, RowKept
<1>4. ASSUME loanRow'[l].status = "REPAID",
             ~(debt'[l].state = "repaid" \/ l \in forgiven'),
             \A m \in Members : <<"repay", l, m>> \notin lostClaims'
      PROVE  \E g \in Handlers : /\ handler'[g].op = "repay" /\ handler'[g].loan = l
                                 /\ handler'[g].yes /\ handler'[g].at # "claim"
  <2>1. CASE r.op = "repay" /\ r.loan = l /\ r.yes /\ r.at # "claim"
    BY <1>1, <2>1
  <2>2. CASE /\ loanRow[l].status = "REPAID"
             /\ handler[h].op = "repay" /\ handler[h].loan = l /\ handler[h].yes => StaysPut(h, r)
    <3>1. PICK g \in Handlers : /\ handler[g].op = "repay" /\ handler[g].loan = l
                                /\ handler[g].yes /\ handler[g].at # "claim"
      BY <1>2, <1>4, <2>2 DEF LoanHolds, Working
    <3>2. handler[g].who \in Members
      BY DEF PoolInv, LoanInv, HandlerRecords
    <3> QED
      BY <1>1, <1>4, <2>2, <3>1, <3>2 DEF StaysPut
  <2> QED
    BY <1>4, <2>1, <2>2 DEF RowKept
<1>5. ASSUME NEW m \in Members, voteRows'[l][m] # "none",
             ~(Recorded(l, m, voteRows[l][m])' \/ <<l, m>> \in pardons'),
             <<"vote", l, m>> \notin lostClaims'
      PROVE  \E g \in Handlers : /\ handler'[g].op = "vote" /\ handler'[g].loan = l
                                 /\ handler'[g].who = m /\ handler'[g].at # "row"
  <2>1. ~(m \in IF voteRows'[l][m] = "yes" THEN debt[l].ayes ELSE debt[l].noes)
    BY <1>5 DEF Recorded
  <2>2. CASE r.op = "vote" /\ r.loan = l /\ r.who = m /\ r.at # "row"
    BY <1>1, <2>2
  <2>3. CASE /\ voteRows'[l][m] = voteRows[l][m]
             /\ handler[h].op = "vote" /\ handler[h].loan = l /\ handler[h].who = m => StaysPut(h, r)
    <3>1. PICK g \in Handlers : /\ handler[g].op = "vote" /\ handler[g].loan = l
                                /\ handler[g].who = m /\ handler[g].at # "row"
      BY <1>2, <1>5, <2>1, <2>3 DEF LoanHolds, Working, Recorded
    <3> QED
      BY <1>1, <1>5, <2>3, <3>1 DEF StaysPut
  <2> QED
    BY <1>5, <2>1, <2>2, <2>3 DEF RowKept
<1> QED
  BY <1>3, <1>4, <1>5 DEF LoanHolds, Working

\* A row that is left alone.
LEMMA RowAtRest ==
  ASSUME NEW h, NEW r, NEW l, loanRow'[l] = loanRow[l], voteRows'[l] = voteRows[l],
         handler[h].loan = l => StaysPut(h, r)
  PROVE  RowKept(h, r, l)
BY DEF RowKept

\* A request that begins to make a row is alone with its loan, and one that
\* recorded a vote is alone with it.
Fresh(h, r) ==
  /\ r.op \in NewOps =>
       \/ handler[h].op \in NewOps /\ r.loan = handler[h].loan
       \/ /\ \A g \in Handlers : handler[g].loan # r.loan
          /\ \A tx \in orphans : tx.loan # r.loan
  /\ r.op = "vote" /\ r.at # "row" =>
       \/ /\ handler[h].op = "vote" /\ handler[h].at # "row"
          /\ r.loan = handler[h].loan /\ r.who = handler[h].who
       \/ voteRows[r.loan][r.who] = "none"

\* Orphans land, are dropped, or one is left behind by this request.
Left(h, r) ==
  \/ orphans' \subseteq orphans
  \/ /\ orphans' = orphans \cup {Transaction(h)} /\ handler[h].at = "sent"
     /\ r.op \notin NewOps

LEMMA ApartKept ==
  ASSUME PoolInv, NEW h \in Handlers, NEW r, handler' = [handler EXCEPT ![h] = r],
         Fresh(h, r), Left(h, r)
  PROVE  Apart'
<1>1. handler'[h] = r /\ \A g \in Handlers : g # h => handler'[g] = handler[g]
  BY DEF PoolInv, LoanInv
<1>2. Apart /\ \A g \in Handlers : HandlerHolds(handler[g])
  BY DEF PoolInv, LoanInv
<1>3. PICK tx : /\ tx.loan = handler[h].loan
                /\ tx.op = "request" => handler[h].op = "request"
                /\ \/ orphans' \subseteq orphans
                   \/ orphans' = orphans \cup {tx} /\ r.op \notin NewOps
  <2>1. CASE orphans' \subseteq orphans
    <3> DEFINE ty == [loan |-> handler[h].loan, op |-> "none"]
    <3>1. ty.loan = handler[h].loan /\ ty.op # "request"
      OBVIOUS
    <3> QED
      BY <2>1, <3>1
  <2>2. CASE ~(orphans' \subseteq orphans)
    BY <1>2, <2>2, TransactionHolds DEF Left
  <2> QED
    BY <2>1, <2>2
<1>4. \A g, k \in Handlers : g # k /\ handler'[g].op \in NewOps /\ handler'[k].op \in NewOps
        => handler'[g].loan # handler'[k].loan
  BY <1>1, <1>2 DEF Apart, Fresh
<1>5. ASSUME NEW g \in Handlers, g # h, handler[g].op = "vote", handler[g].at # "row",
             r.op = "vote", r.at # "row", handler[g].loan = r.loan
      PROVE  handler[g].who # r.who
  <2>1. voteRows[handler[g].loan][handler[g].who] = Ballot(handler[g].yes)
    BY <1>2, <1>5 DEF HandlerHolds
  <2>2. Ballot(handler[g].yes) # "none"
    BY DEF Ballot
  <2> QED
    BY <1>2, <1>5, <2>1, <2>2 DEF Apart, Fresh
<1>6. \A g, k \in Handlers : g # k /\ handler'[g].op = "vote" /\ handler'[k].op = "vote"
          /\ handler'[g].at # "row" /\ handler'[k].at # "row" /\ handler'[g].loan = handler'[k].loan
        => handler'[g].who # handler'[k].who
  BY <1>1, <1>2, <1>5 DEF Apart
<1>7. \A g \in Handlers, ty \in orphans' :
        handler'[g].op \in NewOps /\ ty.op = "request" => handler'[g].loan # ty.loan
  <2> SUFFICES ASSUME NEW g \in Handlers, NEW ty \in orphans', handler'[g].op \in NewOps,
                      ty.op = "request"
               PROVE  handler'[g].loan # ty.loan
    OBVIOUS
  <2>1. CASE ty \in orphans
    BY <1>1, <1>2, <2>1 DEF Apart, Fresh
  <2>2. CASE ty \notin orphans
    BY <1>1, <1>2, <1>3, <2>2 DEF Apart, NewOps
  <2> QED
    BY <2>1, <2>2
<1>8. \A ty, tz \in orphans' :
        ty # tz /\ ty.op = "request" /\ tz.op = "request" => ty.loan # tz.loan
  <2> SUFFICES ASSUME NEW ty \in orphans', NEW tz \in orphans', ty # tz, ty.op = "request",
                      tz.op = "request"
               PROVE  ty.loan # tz.loan
    OBVIOUS
  <2>1. CASE ty \in orphans /\ tz \in orphans
    BY <1>2, <2>1 DEF Apart
  <2>2. CASE ~(ty \in orphans /\ tz \in orphans)
    BY <1>2, <1>3, <2>2 DEF Apart, NewOps
  <2> QED
    BY <2>1, <2>2
<1> QED
  BY <1>4, <1>6, <1>7, <1>8 DEF Apart

LEMMA LoanStep ==
  ASSUME PoolInv, NEW h \in Handlers, NEW r, handler' = [handler EXCEPT ![h] = r],
         HandlerHolds(r)', \A g \in Handlers : g # h => Kept(handler[g]),
         \A tx \in orphans' : OrphanHolds(tx)', \A l \in Loans : DebtHolds(l)' /\ LoanHolds(l)',
         Fresh(h, r), Left(h, r)
  PROVE  LoanInv'
<1>1. WellFormed(r)
  BY DEF HandlerHolds, WellFormed
<1>2. handler' \in [Handlers -> HandlerRecords]
  BY <1>1, ShapeKept
<1>3. \A g \in Handlers : HandlerHolds(handler[g])'
  BY HandlersHold
<1>4. Apart'
  BY ApartKept
<1> QED
  BY <1>2, <1>3, <1>4, Zenon DEF LoanInv

\* A request moves on and writes no row.
LEMMA LoansUntouched ==
  ASSUME PoolInv, NEW h \in Handlers, NEW r, handler' = [handler EXCEPT ![h] = r],
         UNCHANGED <<loanRow, voteRows, cronLoans, debt>>,
         lostClaims \subseteq lostClaims', forgiven \subseteq forgiven', pardons \subseteq pardons',
         HandlerHolds(r), StaysPut(h, r), Fresh(h, r), Left(h, r)
  PROVE  LoanInv'
<1>1. HandlerHolds(r)' /\ \A g \in Handlers : g # h => Kept(handler[g])
  BY NothingLost DEF PoolInv, LoanInv
<1>2. ASSUME NEW tx \in orphans' PROVE OrphanHolds(tx)'
  <2>1. PICK ty : ty = tx
    OBVIOUS
  <2>2. OrphanHolds(ty)
    <3>1. HandlerHolds(handler[h])
      BY DEF PoolInv, LoanInv
    <3>2. CASE ty \in orphans
      BY <3>2 DEF PoolInv, LoanInv
    <3>3. CASE ty \notin orphans
      BY <2>1, <3>1, <3>3, TransactionHolds DEF Left
    <3> QED
      BY <3>2, <3>3
  <2>3. OrphanHolds(ty)'
    BY <2>2, OrphanKept DEF OrphanHolds
  <2> QED
    BY <2>1, <2>3
<1>3. ASSUME NEW l \in Loans PROVE DebtHolds(l)' /\ LoanHolds(l)'
  <2>1. DebtHolds(l)'
    BY DEF PoolInv, LoanInv, DebtHolds
  <2>2. RowKept(h, r, l)
    BY RowAtRest
  <2>3. LoanHolds(l)'
    BY <2>2, LoanKept
  <2> QED
    BY <2>1, <2>3
<1> QED
  BY <1>1, <1>2, <1>3, LoanStep

LEMMA HandlerStep ==
  ASSUME PoolInv, NEW h \in Handlers, NEW r, handler' = [handler EXCEPT ![h] = r],
         UNCHANGED <<poolRow, memberRows, loanRow, voteRows, cronLoans, contract, disturbed>>,
         lostClaims \subseteq lostClaims', forgiven \subseteq forgiven', pardons \subseteq pardons',
         HandlerHolds(r), StaysPut(h, r), Fresh(h, r), Left(h, r), Founded(h, r),
         disturbed \/ Lending \/ (r.op = "close" => Paid(r))
  PROVE  PoolInv'
<1>1. UNCHANGED <<loanRow, voteRows, cronLoans, debt>>
      /\ UNCHANGED <<poolRow, memberRows, shares, debt, disturbed>>
  BY DEF contract
<1>2. LoanInv'
  BY <1>1, LoansUntouched
<1>3. Founding' /\ WindDownInv'
  BY <1>1, PoolAtRest
<1>4. TypeOK'
  BY TypeAtRest, TypeOfRows DEF PoolInv
<1> QED
  BY <1>2, <1>3, <1>4 DEF PoolInv

\* A request writes to the rows of loans.
LEMMA RowStep ==
  ASSUME PoolInv, NEW h \in Handlers, NEW r, handler' = [handler EXCEPT ![h] = r],
         UNCHANGED <<poolRow, memberRows, contract, disturbed, orphans>>,
         loanRow' \in [Loans -> RowRecords], voteRows' \in Ballots, cronLoans' \subseteq Loans,
         lostClaims \subseteq lostClaims', forgiven \subseteq forgiven', pardons \subseteq pardons',
         HandlerHolds(r)', Fresh(h, r), Founded(h, r),
         disturbed \/ Lending \/ (r.op = "close" => Paid(r)), \A l \in Loans : RowKept(h, r, l)
  PROVE  PoolInv'
<1>1. UNCHANGED debt /\ UNCHANGED <<poolRow, memberRows, shares, debt, disturbed>>
  BY DEF contract
<1>2. ASSUME NEW g \in Handlers, g # h PROVE Kept(handler[g])
  <2>1. PICK q : q = handler[g]
    OBVIOUS
  <2>2. HandlerHolds(q) /\ WellFormed(q)
    BY <2>1 DEF PoolInv, LoanInv, HandlerHolds
  <2>3. q.op \in RowOps \cup NewOps => q.loan \in Loans
    BY <2>2 DEF WellFormed, LoanOps
  <2>4. q.op \in RowOps => loanRow'[q.loan].status # "NONE"
    BY <2>2, <2>3 DEF RowKept, HandlerHolds
  <2>5. q.op \in NewOps => loanRow'[q.loan].status = "NONE"
    BY <1>2, <2>1, <2>2, <2>3 DEF RowKept, HandlerHolds, PoolInv, LoanInv, Apart
  <2>6. q.op = "vote" /\ q.at # "row" => voteRows'[q.loan][q.who] = voteRows[q.loan][q.who]
    BY <1>2, <2>1, <2>3 DEF RowKept, RowOps
  <2>7. Kept(q)
    BY <1>1, <2>4, <2>5, <2>6 DEF Kept
  <2> QED
    BY <2>1, <2>7
<1>3. ASSUME NEW tx \in orphans' PROVE OrphanHolds(tx)'
  <2>1. PICK ty : ty = tx
    OBVIOUS
  <2>2. ty \in orphans /\ OrphanHolds(ty)
    BY <2>1 DEF PoolInv, LoanInv
  <2>3. ty.op \in RowOps \cup NewOps => ty.loan \in Loans
    BY <2>2 DEF OrphanHolds, TxFormed, LoanOps
  <2>4. ty.op \in RowOps => loanRow'[ty.loan].status # "NONE"
    BY <2>2, <2>3 DEF RowKept, OrphanHolds
  <2>5. ty.op = "request" => loanRow'[ty.loan].status = "NONE" /\ debt'[ty.loan] = NoDebt
    BY <1>1, <2>2, <2>3 DEF RowKept, OrphanHolds, PoolInv, LoanInv, Apart, NewOps
  <2>6. OrphanHolds(ty)'
    BY <2>2, <2>4, <2>5, OrphanKept
  <2> QED
    BY <2>1, <2>6
<1>4. ASSUME NEW l \in Loans PROVE DebtHolds(l)' /\ LoanHolds(l)'
  <2>1. DebtHolds(l)'
    BY <1>1 DEF PoolInv, LoanInv, DebtHolds
  <2>2. LoanHolds(l)'
    BY <1>1, LoanKept
  <2> QED
    BY <2>1, <2>2
<1>5. Left(h, r)
  BY DEF Left
<1>6. LoanInv'
  BY <1>2, <1>3, <1>4, <1>5, LoanStep
<1>7. Founding' /\ WindDownInv'
  BY <1>1, PoolAtRest
<1>8. TypeOK'
  BY TypeAtRest, TypeOfRows DEF PoolInv
<1> QED
  BY <1>6, <1>7, <1>8 DEF PoolInv

-----------------------------------------------------------------------------
(* Requests begin.                                                         *)

LEMMA Begun ==
  ASSUME PoolInv, NEW h \in Handlers, NEW r, Start(h, r), HandlerHolds(r),
         r.op \in NewOps => Unused(r.loan), r.op = "vote" => r.at = "row",
         r.op = "create" => \A g \in Handlers : handler[g].op # "create",
         r.op = "close" => r.group = memberRows
  PROVE  PoolInv'
<1>1. /\ handler[h] = Idle /\ handler' = [handler EXCEPT ![h] = r]
      /\ UNCHANGED <<poolRow, memberRows, loanRow, voteRows, cronLoans, contract, disturbed>>
      /\ UNCHANGED <<lostClaims, forgiven, pardons, orphans>>
      /\ (poolRow = "none") = (r.op = "create")
  BY DEF Start, db, chain, history
<1>2. StaysPut(h, r)
  BY <1>1 DEF StaysPut, Idle
<1>3. Fresh(h, r) /\ Left(h, r)
  BY <1>1 DEF Fresh, Left, Unused
<1>4. Founded(h, r)
  BY <1>1 DEF Founded
<1>5. r.op = "close" => Paid(r)
  BY DEF Paid
<1> QED
  BY <1>1, <1>2, <1>3, <1>4, <1>5, HandlerStep

LEMMA IdleShape ==
  /\ Idle \in HandlerRecords /\ Idle.op = "none" /\ Idle.at = "idle" /\ Idle.who = Creator
  /\ Idle.loan = NoLoan /\ Idle.yes = FALSE /\ Idle.status = "NONE" /\ Idle.hasId = FALSE
  /\ Idle.group = {} /\ Idle.amount = 0
BY PoolAssumption DEF Idle, HandlerRecords, Places

LEMMA IdleHolds == HandlerHolds(Idle)
BY IdleShape DEF HandlerHolds, WellFormed, LoanOps, NewOps, RowOps

LEMMA CustodyBegins ==
  ASSUME PoolInv, NEW h \in Handlers,
         \/ \E group \in SUBSET Members : BeginCreate(h, group)
         \/ \E m \in Members : BeginJoin(h, m) \/ BeginDeposit(h, m) \/ BeginWithdraw(h, m)
         \/ BeginClose(h)
  PROVE  PoolInv'
<1>1. CASE \E group \in SUBSET Members : BeginCreate(h, group)
  <2>1. PICK group \in SUBSET Members : BeginCreate(h, group)
    BY <1>1
  <2>2. PICK r : r = [Idle EXCEPT !.op = "create", !.at = "sent", !.group = group]
    OBVIOUS
  <2>3. r \in HandlerRecords /\ r.op = "create" /\ r.at = "sent" /\ r.group = group /\ r.loan = NoLoan
    BY <2>2, IdleShape DEF HandlerRecords, Places
  <2>4. HandlerHolds(r)
    BY <2>3 DEF HandlerHolds, WellFormed, LoanOps, NewOps, RowOps, CallOps
  <2> QED
    BY <2>1, <2>2, <2>3, <2>4, Begun DEF BeginCreate, CreatePoolOnChain, NewOps
<1>2. CASE \E m \in Members : BeginJoin(h, m) \/ BeginDeposit(h, m) \/ BeginWithdraw(h, m)
  <2>1. PICK m \in Members : BeginJoin(h, m) \/ BeginDeposit(h, m) \/ BeginWithdraw(h, m)
    BY <1>2
  <2>2. PICK op \in {"join", "deposit", "withdraw"}, r \in HandlerRecords :
          /\ r.op = op /\ r.at = "sent" /\ r.loan = NoLoan
          /\ Start(h, r)
    <3>1. CASE BeginJoin(h, m)
      <4>1. PICK r : r = [Idle EXCEPT !.op = "join", !.at = "sent", !.who = m]
        OBVIOUS
      <4>2. r \in HandlerRecords /\ r.op = "join" /\ r.at = "sent" /\ r.loan = NoLoan
        BY <4>1, IdleShape DEF HandlerRecords, Places
      <4> QED
        BY <3>1, <4>1, <4>2 DEF BeginJoin, AddMemberOnChain
    <3>2. CASE BeginDeposit(h, m) \/ BeginWithdraw(h, m)
      <4>0. PICK op \in {"deposit", "withdraw"} :
              Start(h, [Idle EXCEPT !.op = op, !.at = "sent", !.who = m, !.amount = Principal])
        BY <3>2, Zenon DEF BeginDeposit, BeginWithdraw, WithdrawOnChain
      <4>1. PICK r : r = [Idle EXCEPT !.op = op, !.at = "sent", !.who = m, !.amount = Principal]
        OBVIOUS
      <4>2. r \in HandlerRecords /\ r.op = op /\ r.at = "sent" /\ r.loan = NoLoan
        BY <4>1, IdleShape, PoolAssumption DEF HandlerRecords, Places
      <4> QED
        BY <4>0, <4>1, <4>2
    <3> QED
      BY <2>1, <3>1, <3>2
  <2>3. HandlerHolds(r)
    BY <2>2 DEF HandlerHolds, WellFormed, LoanOps, NewOps, RowOps, CallOps
  <2> QED
    BY <2>2, <2>3, Begun DEF NewOps
<1>3. CASE BeginClose(h)
  <2>1. PICK r : r = [Idle EXCEPT !.op = "close", !.at = "visit", !.group = memberRows]
    OBVIOUS
  <2>2. memberRows \subseteq Members
    BY DEF PoolInv, TypeOK
  <2>3. r \in HandlerRecords /\ r.op = "close" /\ r.at = "visit" /\ r.group = memberRows
        /\ r.loan = NoLoan
    BY <2>1, <2>2, IdleShape DEF HandlerRecords, Places
  <2>4. HandlerHolds(r)
    BY <2>2, <2>3 DEF HandlerHolds, WellFormed, LoanOps, NewOps, RowOps, CallOps
  <2> QED
    BY <1>3, <2>1, <2>3, <2>4, Begun DEF BeginClose, NewOps
<1> QED
  BY <1>1, <1>2, <1>3

LEMMA RowsShape ==
  ASSUME PoolInv, NEW l \in Loans
  PROVE  /\ loanRow[l] \in RowRecords /\ loanRow[l].borrower \in Members
         /\ loanRow[l].hasId \in BOOLEAN /\ loanRow[l].deadline \in {"none", "ahead", "past"}
         /\ loanRow[l].target \in Loans \cup {NoLoan}
         /\ DebtHolds(l) /\ LoanHolds(l) /\ memberRows \subseteq Members
BY DEF PoolInv, TypeOK, LoanInv, RowRecords, Outstanding

LEMMA LoanBegins ==
  ASSUME PoolInv, NEW h \in Handlers, NEW m \in Members, NEW l \in Loans, NEW row \in Loans,
         NEW answer \in BOOLEAN, NEW deadline \in {"none", "ahead", "past"},
         \/ BeginRequest(h, m, l) \/ BeginWriteOff(h, m, l) \/ BeginVote(h, m, l, answer)
         \/ BeginExecute(h, l, deadline) \/ BeginRepay(h, l, answer) \/ BeginExtension(h, l, row)
  PROVE  PoolInv'
<1>0. /\ loanRow[l].borrower \in Members /\ loanRow[l].hasId \in BOOLEAN
      /\ loanRow[l].deadline \in {"none", "ahead", "past"} /\ LoanHolds(l)
      /\ memberRows \subseteq Members
  BY RowsShape
<1>1. CASE BeginRequest(h, m, l)
  <2>1. PICK r : r = [Idle EXCEPT !.op = "request", !.at = "check", !.who = m, !.loan = l]
    OBVIOUS
  <2>2. Start(h, r) /\ Unused(l)
    BY <1>1, <2>1 DEF BeginRequest
  <2>3. r \in HandlerRecords /\ r.op = "request" /\ r.at = "check" /\ r.loan = l
    BY <2>1, IdleShape DEF HandlerRecords, Places, LoanOps, NewOps
  <2>4. loanRow[l].status = "NONE" /\ debt[l] = NoDebt
    BY <2>2 DEF Unused, NoRow
  <2>5. HandlerHolds(r)
    BY <2>3, <2>4 DEF HandlerHolds, WellFormed, LoanOps, NewOps, RowOps, CallOps
  <2> QED
    BY <2>2, <2>3, <2>5, Begun
<1>2. CASE BeginExtension(h, l, row)
  <2>1. PICK r : r = [Idle EXCEPT !.op = "extension", !.at = "row", !.who = loanRow[l].borrower,
                           !.loan = row, !.group = {l}]
    OBVIOUS
  <2>2. Start(h, r) /\ Unused(row)
    BY <1>2, <2>1 DEF BeginExtension
  <2>3. r \in HandlerRecords /\ r.op = "extension" /\ r.at = "row" /\ r.loan = row /\ r.group = {l}
    BY <1>0, <2>1, IdleShape DEF HandlerRecords, Places, LoanOps, NewOps
  <2>4. loanRow[row].status = "NONE" /\ debt[row] = NoDebt
    BY <2>2 DEF Unused, NoRow
  <2>5. HandlerHolds(r)
    BY <2>3, <2>4 DEF HandlerHolds, WellFormed, LoanOps, NewOps, RowOps, CallOps
  <2> QED
    BY <2>2, <2>3, <2>5, Begun
<1>3. CASE BeginVote(h, m, l, answer)
  <2>1. PICK r : r = [Idle EXCEPT !.op = "vote", !.at = "row", !.who = m, !.loan = l,
                           !.yes = answer, !.group = memberRows]
    OBVIOUS
  <2>2. Start(h, r) /\ loanRow[l].status # "NONE"
    BY <1>3, <2>1 DEF BeginVote
  <2>3. r \in HandlerRecords /\ r.op = "vote" /\ r.at = "row" /\ r.loan = l
    BY <1>0, <2>1, IdleShape DEF HandlerRecords, Places, LoanOps, RowOps
  <2>4. HandlerHolds(r)
    BY <2>2, <2>3 DEF HandlerHolds, WellFormed, LoanOps, NewOps, RowOps, CallOps
  <2> QED
    BY <2>2, <2>3, <2>4, Begun DEF NewOps
<1>4. CASE BeginWriteOff(h, m, l)
  <2>1. PICK r : r = [Idle EXCEPT !.op = "writeOff", !.at = "row", !.who = m, !.loan = l,
                           !.group = memberRows]
    OBVIOUS
  <2>2. Start(h, r) /\ loanRow[l].status # "NONE"
    BY <1>4, <2>1 DEF BeginWriteOff
  <2>3. r \in HandlerRecords /\ r.op = "writeOff" /\ r.at = "row" /\ r.loan = l
    BY <1>0, <2>1, IdleShape DEF HandlerRecords, Places, LoanOps, RowOps
  <2>4. HandlerHolds(r)
    BY <2>2, <2>3 DEF HandlerHolds, WellFormed, LoanOps, NewOps, RowOps, CallOps
  <2> QED
    BY <2>2, <2>3, <2>4, Begun DEF NewOps
<1>5. CASE BeginRepay(h, l, answer)
  <2> DEFINE place == IF answer THEN "claim" ELSE IF loanRow[l].hasId THEN "sent" ELSE "failed"
  <2>1. PICK r : r = [Idle EXCEPT !.op = "repay", !.who = loanRow[l].borrower, !.loan = l,
                 !.yes = answer, !.hasId = loanRow[l].hasId, !.amount = 1, !.at = place]
    OBVIOUS
  <2>2. Start(h, r) /\ loanRow[l].status # "NONE"
    BY <1>5, <2>1 DEF BeginRepay
  <2>3. place \in {"claim", "sent", "failed"} /\ (place = "claim" => answer)
    OBVIOUS
  <2>4. r \in HandlerRecords /\ r.op = "repay" /\ r.at = place /\ r.loan = l /\ r.amount = 1
        /\ r.yes = answer
    <3> HIDE DEF place
    <3> QED
      BY <1>0, <2>1, <2>3, IdleShape DEF HandlerRecords, Places, LoanOps, RowOps
  <2> HIDE DEF place
  <2>5. HandlerHolds(r)
    BY <2>2, <2>3, <2>4 DEF HandlerHolds, WellFormed, LoanOps, NewOps, RowOps, CallOps
  <2> QED
    BY <2>2, <2>4, <2>5, Begun DEF NewOps
<1>6. CASE BeginExecute(h, l, deadline)
  <2> DEFINE place == IF loanRow[l].target = NoLoan THEN "claim" ELSE "extend"
  <2>1. PICK r : r = [Idle EXCEPT !.op = "execute", !.loan = l, !.hasId = loanRow[l].hasId,
                                  !.at = place, !.status = deadline]
    OBVIOUS
  <2>2. Start(h, r) /\ loanRow[l].status # "NONE"
    BY <1>6, <2>1 DEF BeginExecute
  <2>3. place \in {"claim", "extend"} /\ (place = "extend" => deadline \in {"ahead", "past"})
    BY <1>6 DEF BeginExecute
  <2>4. r \in HandlerRecords /\ r.op = "execute" /\ r.at = place /\ r.loan = l /\ r.status = deadline
    <3> HIDE DEF place
    <3> QED
      BY <1>0, <2>1, <2>3, IdleShape DEF HandlerRecords, Places, LoanOps, RowOps
  <2> HIDE DEF place
  <2>5. HandlerHolds(r)
    BY <2>2, <2>3, <2>4 DEF HandlerHolds, WellFormed, LoanOps, NewOps, RowOps, CallOps
  <2> QED
    BY <2>2, <2>4, <2>5, Begun DEF NewOps
<1> QED
  BY <1>1, <1>2, <1>3, <1>4, <1>5, <1>6

-----------------------------------------------------------------------------
(* Requests that move on, or end, without writing a row.                   *)

LEMMA Ends ==
  ASSUME PoolInv, NEW h \in Handlers, handler' = [handler EXCEPT ![h] = Idle],
         UNCHANGED <<poolRow, memberRows, loanRow, voteRows, cronLoans, contract, disturbed>>,
         lostClaims \subseteq lostClaims', forgiven \subseteq forgiven', pardons \subseteq pardons',
         StaysPut(h, Idle), Left(h, Idle)
  PROVE  PoolInv'
<1>1. PICK r : r = Idle
  OBVIOUS
<1>2. HandlerHolds(r) /\ Fresh(h, r) /\ Founded(h, r) /\ (r.op = "close" => Paid(r))
  BY <1>1, IdleShape, IdleHolds DEF Fresh, Founded, NewOps
<1>3. handler' = [handler EXCEPT ![h] = r] /\ StaysPut(h, r) /\ Left(h, r)
  BY <1>1
<1> QED
  BY <1>2, <1>3, HandlerStep

LEMMA RequestShape ==
  ASSUME PoolInv, NEW h \in Handlers
  PROVE  /\ handler[h] \in HandlerRecords /\ HandlerHolds(handler[h]) /\ WellFormed(handler[h])
         /\ handler[h].op \in {"repay", "vote"} => handler[h].loan # NoLoan
         /\ handler[h].yes \in BOOLEAN /\ handler[h].who \in Members /\ handler[h].amount \in Nat
<1>1. handler[h] \in HandlerRecords /\ HandlerHolds(handler[h])
  BY DEF PoolInv, LoanInv
<1>2. WellFormed(handler[h])
  BY <1>1 DEF HandlerHolds
<1>3. handler[h].op \in {"repay", "vote"} => handler[h].loan # NoLoan
  BY <1>2, PoolAssumption DEF WellFormed, LoanOps, RowOps
<1> QED
  BY <1>1, <1>2, <1>3 DEF HandlerRecords

\* Request r is request q at another place.
SameRequest(r, q) ==
  /\ r.op = q.op /\ r.who = q.who /\ r.loan = q.loan /\ r.yes = q.yes /\ r.group = q.group
  /\ r.amount = q.amount

LEMMA StepShape ==
  ASSUME PoolInv, NEW h \in Handlers, NEW place \in Places,
         handler' = [handler EXCEPT ![h].at = place]
  PROVE  \E r \in HandlerRecords :
           /\ handler' = [handler EXCEPT ![h] = r] /\ r.at = place
           /\ SameRequest(r, handler[h]) /\ r.status = handler[h].status /\ r.hasId = handler[h].hasId
<1>1. PICK q \in HandlerRecords : q = handler[h]
  BY RequestShape
<1>2. PICK r : r = [q EXCEPT !.at = place]
  OBVIOUS
<1>3. r \in HandlerRecords /\ r.at = place /\ SameRequest(r, q)
      /\ r.status = q.status /\ r.hasId = q.hasId
  BY <1>1, <1>2 DEF HandlerRecords, SameRequest
<1>4. handler' = [handler EXCEPT ![h] = r]
  BY <1>1, <1>2
<1> QED
  BY <1>1, <1>3, <1>4

LEMMA RequestMoves ==
  ASSUME PoolInv, NEW h \in Handlers,
         CheckOutstanding(h) \/ CountVotes(h) \/ VoteOnLoanOnChain(h) \/ WithdrawRow(h)
           \/ WriteOffCount(h)
  PROVE  PoolInv'
<1>1. /\ handler[h] \in HandlerRecords /\ HandlerHolds(handler[h])
  BY RequestShape
<1>2. UNCHANGED <<poolRow, memberRows, loanRow, voteRows, cronLoans, contract, disturbed>>
      /\ UNCHANGED <<lostClaims, forgiven, pardons, orphans>>
  BY DEF CheckOutstanding, CountVotes, VoteOnLoanOnChain, WithdrawRow, WriteOffCount,
         RequestLoanOnChain, Finish, Step, db, chain, history
<1>3. CASE CheckOutstanding(h) \/ WithdrawRow(h)
  <2>1. handler[h].op \in {"request", "withdraw"}
    BY <1>3 DEF CheckOutstanding, WithdrawRow, At
  <2>2. CASE handler' = [handler EXCEPT ![h] = Idle]
    BY <1>2, <2>1, <2>2, Ends DEF StaysPut, Left
  <2>3. CASE At(h, "request", "check") /\ handler' = [handler EXCEPT ![h].at = "sent"]
    <3>1. PICK r \in HandlerRecords :
            handler' = [handler EXCEPT ![h] = r] /\ r.at = "sent" /\ SameRequest(r, handler[h])
      BY <2>3, StepShape DEF Places
    <3>2. r.op = "request" /\ r.loan = handler[h].loan /\ handler[h].op = "request"
          /\ handler[h].at = "check"
      BY <2>3, <3>1 DEF At, SameRequest
    <3>3. HandlerHolds(r)
      BY <1>1, <3>1, <3>2 DEF HandlerHolds, WellFormed, LoanOps, NewOps, RowOps, CallOps
    <3>4. StaysPut(h, r) /\ Fresh(h, r) /\ Left(h, r) /\ Founded(h, r)
      BY <1>2, <3>2 DEF StaysPut, Fresh, Left, Founded, NewOps
    <3> QED
      BY <1>2, <3>1, <3>2, <3>3, <3>4, HandlerStep
  <2> QED
    BY <1>3, <2>2, <2>3 DEF CheckOutstanding, WithdrawRow, RequestLoanOnChain, Finish, Step
<1>4. CASE CountVotes(h) \/ VoteOnLoanOnChain(h)
  <2>1. handler[h].op = "vote" /\ handler[h].at \in {"count", "call"}
    BY <1>4 DEF CountVotes, VoteOnLoanOnChain, At
  <2>2. PICK r \in HandlerRecords :
          /\ handler' = [handler EXCEPT ![h] = r] /\ SameRequest(r, handler[h])
          /\ r.at \in {"call", "sent", "failed"}
          /\ r.at # "failed" => r.status \in {"PENDING", "APPROVED", "REJECTED"}
    <3>1. CASE CountVotes(h)
      <4>1. PICK tally : handler' = [handler EXCEPT ![h].at = "call", ![h].status = tally]
                         /\ tally \in {"PENDING", "APPROVED", "REJECTED"}
        <5> DEFINE l == handler[h].loan
                   threshold == Majority(handler[h].group, loanRow[l].borrower)
                   t == CASE Count(l, "yes") >= threshold -> "APPROVED"
                          [] Count(l, "no") >= threshold  -> "REJECTED"
                          [] OTHER -> "PENDING"
        <5>1. t \in {"PENDING", "APPROVED", "REJECTED"}
          <6> HIDE DEF threshold
          <6> QED
            OBVIOUS
        <5>2. handler' = [handler EXCEPT ![h].at = "call", ![h].status = t]
          BY <3>1, Zenon DEF CountVotes
        <5> HIDE DEF t
        <5> QED
          BY <5>1, <5>2
      <4>2. PICK r : r = [handler[h] EXCEPT !.at = "call", !.status = tally]
        OBVIOUS
      <4>3. r \in HandlerRecords /\ r.at = "call" /\ r.status = tally /\ SameRequest(r, handler[h])
        BY <1>1, <4>1, <4>2 DEF HandlerRecords, Places, SameRequest
      <4>4. handler' = [handler EXCEPT ![h] = r]
        BY <1>1, <4>1, <4>2 DEF HandlerRecords, PoolInv, LoanInv
      <4> QED
        BY <4>1, <4>3, <4>4
    <3>2. CASE VoteOnLoanOnChain(h)
      <4>1. PICK place \in Places : place \in {"sent", "failed"}
                                  /\ handler' = [handler EXCEPT ![h].at = place]
        BY <3>2 DEF VoteOnLoanOnChain, Step, Places
      <4>2. PICK r \in HandlerRecords :
              /\ handler' = [handler EXCEPT ![h] = r] /\ r.at = place
              /\ SameRequest(r, handler[h]) /\ r.status = handler[h].status
        <5>1. handler' = [handler EXCEPT ![h].at = place]
          BY <4>1
        <5>2. \E r \in HandlerRecords :
                /\ handler' = [handler EXCEPT ![h] = r] /\ r.at = place
                /\ SameRequest(r, handler[h]) /\ r.status = handler[h].status
                /\ r.hasId = handler[h].hasId
          BY <5>1, StepShape, Zenon
        <5> QED
          BY <5>2, Zenon
      <4>3. handler[h].at = "call"
        BY <3>2 DEF VoteOnLoanOnChain, At
      <4>4. r.status \in {"PENDING", "APPROVED", "REJECTED"}
        BY <1>1, <2>1, <4>2, <4>3 DEF HandlerHolds, WellFormed
      <4> QED
        BY <4>1, <4>2, <4>4
    <3> QED
      BY <1>4, <3>1, <3>2
  <2>3. r.op = "vote" /\ r.loan = handler[h].loan /\ r.who = handler[h].who /\ r.yes = handler[h].yes
    BY <2>1, <2>2 DEF SameRequest
  <2>4. HandlerHolds(r)
    BY <1>1, <2>1, <2>2, <2>3 DEF HandlerHolds, WellFormed, LoanOps, NewOps, RowOps, CallOps
  <2>5. StaysPut(h, r) /\ Fresh(h, r) /\ Left(h, r) /\ Founded(h, r)
    BY <1>2, <2>1, <2>2, <2>3 DEF StaysPut, Fresh, Left, Founded, NewOps
  <2> QED
    BY <1>2, <2>2, <2>3, <2>4, <2>5, HandlerStep
<1>5. CASE WriteOffCount(h)
  <2>1. handler[h].op = "writeOff"
    BY <1>5 DEF WriteOffCount, At
  <2>2. CASE handler' = [handler EXCEPT ![h] = Idle]
    BY <1>2, <2>1, <2>2, Ends DEF StaysPut, Left
  <2>3. CASE handler' = [handler EXCEPT ![h].at = "close"]
    <3>1. PICK r \in HandlerRecords :
            handler' = [handler EXCEPT ![h] = r] /\ r.at = "close" /\ SameRequest(r, handler[h])
      BY <2>3, StepShape DEF Places
    <3>2. r.op = "writeOff" /\ r.loan = handler[h].loan
      BY <2>1, <3>1 DEF SameRequest
    <3>3. HandlerHolds(r)
      BY <1>1, <2>1, <3>1, <3>2 DEF HandlerHolds, WellFormed, LoanOps, NewOps, RowOps, CallOps
    <3>4. StaysPut(h, r) /\ Fresh(h, r) /\ Left(h, r) /\ Founded(h, r)
      BY <1>2, <2>1, <3>2 DEF StaysPut, Fresh, Left, Founded, NewOps
    <3> QED
      BY <1>2, <3>1, <3>2, <3>3, <3>4, HandlerStep
  <2> QED
    BY <1>5, <2>2, <2>3 DEF WriteOffCount, Finish, Step
<1> QED
  BY <1>3, <1>4, <1>5

\* A wind-down goes on with the next member.
LEMMA CloseMoves ==
  ASSUME PoolInv, NEW h \in Handlers, CloseReturned(h) \/ \E m \in Members : CloseVisit(h, m)
  PROVE  PoolInv'
<1>1. /\ handler[h] \in HandlerRecords /\ HandlerHolds(handler[h]) /\ handler[h].yes \in BOOLEAN
      /\ WellFormed(handler[h])
  BY RequestShape
<1>2. UNCHANGED <<poolRow, memberRows, loanRow, voteRows, cronLoans, contract, disturbed>>
      /\ UNCHANGED <<lostClaims, forgiven, pardons, orphans>> /\ handler[h].op = "close"
      /\ handler[h].at # "sent"
  BY DEF CloseReturned, CloseVisit, At, db, chain, history
<1>3. handler[h].loan = NoLoan /\ handler[h].group \subseteq Members
  BY <1>1, <1>2 DEF WellFormed, LoanOps, NewOps, RowOps
<1>4. ASSUME ~disturbed, ~Lending
      PROVE  \A m \in memberRows : m \in handler[h].group \/ handler[h].yes \/ shares[m] = 0
  BY <1>2, <1>4 DEF PoolInv, WindDownInv, Paid
<1>5. ASSUME NEW r \in HandlerRecords, handler' = [handler EXCEPT ![h] = r],
             r.op = "close", r.loan = NoLoan, r.group \subseteq Members,
             disturbed \/ Lending \/ Paid(r)
      PROVE  PoolInv'
  <2>1. HandlerHolds(r)
    BY <1>5 DEF HandlerHolds, WellFormed, LoanOps, NewOps, RowOps, CallOps
  <2>2. StaysPut(h, r) /\ Fresh(h, r) /\ Left(h, r) /\ Founded(h, r)
    BY <1>2, <1>5 DEF StaysPut, Fresh, Left, Founded, NewOps
  <2> QED
    BY <1>2, <1>5, <2>1, <2>2, HandlerStep
<1>6. CASE CloseReturned(h)
  <2>1. handler' = [handler EXCEPT ![h].at = "visit", ![h].who = Creator, ![h].amount = 0,
                                   ![h].yes = handler[h].yes \/ FALSE]
    BY <1>6 DEF CloseReturned, NextMember
  <2>2. PICK yes \in BOOLEAN : yes = (handler[h].yes \/ FALSE)
    OBVIOUS
  <2>3. PICK r : r = [handler[h] EXCEPT !.at = "visit", !.who = Creator, !.amount = 0, !.yes = yes]
    OBVIOUS
  <2>4. r \in HandlerRecords /\ r.op = "close" /\ r.loan = NoLoan /\ r.group = handler[h].group
        /\ r.yes = yes
    BY <1>1, <1>2, <1>3, <2>3, PoolAssumption DEF HandlerRecords, Places
  <2>5. handler' = [handler EXCEPT ![h] = r]
    <3>1. handler' = [handler EXCEPT ![h].at = "visit", ![h].who = Creator, ![h].amount = 0,
                                     ![h].yes = yes]
      BY <2>1, <2>2
    <3> QED
      BY <1>1, <2>3, <3>1 DEF HandlerRecords, PoolInv, LoanInv
  <2>6. disturbed \/ Lending \/ Paid(r)
    BY <1>4, <2>2, <2>4 DEF Paid
  <2> QED
    BY <1>3, <1>5, <2>4, <2>5, <2>6
<1>7. CASE \E m \in Members : CloseVisit(h, m)
  <2>1. PICK m \in Members : CloseVisit(h, m)
    BY <1>7
  <2> DEFINE left == handler[h].group \ {m}
  <2>2. left \subseteq Members
    BY <1>3
  <2>3. Withdrawable(m) \in Nat /\ (disturbed \/ Lending \/ Withdrawable(m) = shares[m])
    BY PartBounds, AllThere DEF PoolInv, LoanInv
  <2>4. shares[m] \in Nat
    BY DEF PoolInv, TypeOK
  <2>5. CASE Withdrawable(m) = 0 /\ handler' = [handler EXCEPT ![h].group = left]
    <3>1. PICK r : r = [handler[h] EXCEPT !.group = left]
      OBVIOUS
    <3>2. r \in HandlerRecords /\ r.op = "close" /\ r.loan = NoLoan /\ r.group = left
          /\ r.yes = handler[h].yes
      BY <1>1, <1>2, <1>3, <3>1 DEF HandlerRecords
    <3>3. handler' = [handler EXCEPT ![h] = r]
      BY <1>1, <2>5, <3>1 DEF PoolInv, LoanInv
    <3>4. disturbed \/ Lending \/ Paid(r)
      BY <1>4, <2>3, <2>5, <3>2 DEF Paid
    <3> QED
      BY <1>5, <2>2, <3>2, <3>3, <3>4
  <2>6. CASE handler' = [handler EXCEPT ![h].group = left, ![h].yes = TRUE]
    <3>1. PICK r : r = [handler[h] EXCEPT !.group = left, !.yes = TRUE]
      OBVIOUS
    <3>2. r \in HandlerRecords /\ r.op = "close" /\ r.loan = NoLoan /\ r.group = left /\ r.yes
      BY <1>1, <1>2, <1>3, <3>1 DEF HandlerRecords
    <3>3. handler' = [handler EXCEPT ![h] = r]
      BY <1>1, <2>6, <3>1 DEF PoolInv, LoanInv, HandlerRecords
    <3>4. Paid(r)
      BY <3>2 DEF Paid
    <3> QED
      BY <1>5, <2>2, <3>2, <3>3, <3>4
  <2>7. CASE handler' = [handler EXCEPT ![h].group = left, ![h].who = m,
                           ![h].amount = Withdrawable(m), ![h].at = "sent"]
    <3>1. PICK n \in Nat : n = Withdrawable(m)
      BY <2>3
    <3>2. PICK r : r = [handler[h] EXCEPT !.group = left, !.who = m, !.amount = n, !.at = "sent"]
      OBVIOUS
    <3>3. r \in HandlerRecords /\ r.op = "close" /\ r.loan = NoLoan /\ r.group = left
          /\ r.yes = handler[h].yes /\ r.who = m /\ r.amount = n /\ r.at = "sent"
      BY <1>1, <1>2, <1>3, <3>2 DEF HandlerRecords, Places
    <3>4. handler' = [handler EXCEPT ![h] = r]
      <4>1. handler' = [handler EXCEPT ![h].group = left, ![h].who = m,
                          ![h].amount = n, ![h].at = "sent"]
        BY <2>7, <3>1
      <4> HIDE DEF left
      <4> QED
        BY <1>1, <3>2, <4>1 DEF PoolInv, LoanInv, HandlerRecords
    <3>5. disturbed \/ Lending \/ Paid(r)
      BY <1>4, <2>3, <2>4, <3>1, <3>3 DEF Paid
    <3> QED
      BY <1>5, <2>2, <3>3, <3>4, <3>5
  <2> QED
    BY <2>1, <2>5, <2>6, <2>7 DEF CloseVisit
<1> QED
  BY <1>6, <1>7

\* A call that throws: a wind-down skips the member, a vote and a repayment go
\* on to take their row back, the others end.
LEMMA CallFailsShape ==
  ASSUME PoolInv, NEW h \in Handlers, CallFails(h)
  PROVE  \E r \in HandlerRecords :
           /\ handler' = [handler EXCEPT ![h] = r]
           /\ \/ /\ handler[h].op = "close" /\ r.op = "close" /\ r.loan = handler[h].loan
                 /\ r.group = handler[h].group /\ r.at = "visit" /\ r.yes
              \/ /\ handler[h].op \in {"vote", "repay"} /\ r.at = "failed"
                 /\ SameRequest(r, handler[h])
              \/ handler[h].op \notin {"vote", "repay", "close"} /\ r = Idle
<1>1. handler[h] \in HandlerRecords
  BY RequestShape
<1>2. CASE handler[h].op = "close"
  <2>1. handler' = [handler EXCEPT ![h].at = "visit", ![h].who = Creator, ![h].amount = 0,
                                   ![h].yes = handler[h].yes \/ TRUE]
    BY <1>2 DEF CallFails, NextMember
  <2>2. (handler[h].yes \/ TRUE) = TRUE
    OBVIOUS
  <2>3. PICK r : r = [handler[h] EXCEPT !.at = "visit", !.who = Creator, !.amount = 0, !.yes = TRUE]
    OBVIOUS
  <2>4. r \in HandlerRecords /\ r.op = "close" /\ r.loan = handler[h].loan
        /\ r.group = handler[h].group /\ r.yes /\ r.at = "visit"
    BY <1>1, <1>2, <2>3, PoolAssumption DEF HandlerRecords, Places
  <2>5. handler' = [handler EXCEPT ![h] = r]
    <3>1. handler' = [handler EXCEPT ![h].at = "visit", ![h].who = Creator, ![h].amount = 0,
                                     ![h].yes = TRUE]
      BY <2>1, <2>2
    <3> QED
      BY <1>1, <2>3, <3>1 DEF HandlerRecords, PoolInv, LoanInv
  <2> QED
    BY <1>2, <2>4, <2>5
<1>3. CASE handler[h].op \in {"vote", "repay"}
  <2>1. PICK r : r = [handler[h] EXCEPT !.at = "failed"]
    OBVIOUS
  <2>2. r \in HandlerRecords /\ r.at = "failed" /\ SameRequest(r, handler[h])
    BY <1>1, <2>1 DEF HandlerRecords, Places, SameRequest
  <2>3. handler' = [handler EXCEPT ![h] = r]
    BY <1>3, <2>1 DEF CallFails
  <2> QED
    BY <1>3, <2>2, <2>3
<1>4. CASE handler[h].op \notin {"vote", "repay", "close"}
  <2>1. handler' = [handler EXCEPT ![h] = Idle]
    BY <1>4 DEF CallFails
  <2> QED
    BY <1>4, <2>1, IdleShape
<1> QED
  BY <1>2, <1>3, <1>4

LEMMA CallLost ==
  ASSUME PoolInv, NEW h \in Handlers, Refuse(h) \/ LoseReceipt(h)
  PROVE  PoolInv'
<1>1. /\ HandlerHolds(handler[h]) /\ WellFormed(handler[h])
      /\ handler[h].yes \in BOOLEAN
  BY RequestShape
<1>2. /\ UNCHANGED <<poolRow, memberRows, loanRow, voteRows, cronLoans, contract, disturbed>>
      /\ UNCHANGED <<lostClaims, forgiven, pardons>> /\ handler[h].at = "sent" /\ CallFails(h)
      /\ orphans' \subseteq orphans \/ orphans' = orphans \cup {Transaction(h)}
  BY DEF Refuse, LoseReceipt, db, chain, history
<1>3. PICK r \in HandlerRecords :
           /\ handler' = [handler EXCEPT ![h] = r]
           /\ \/ /\ handler[h].op = "close" /\ r.op = "close" /\ r.loan = handler[h].loan
                 /\ r.group = handler[h].group /\ r.at = "visit" /\ r.yes
              \/ /\ handler[h].op \in {"vote", "repay"} /\ r.at = "failed"
                 /\ SameRequest(r, handler[h])
              \/ handler[h].op \notin {"vote", "repay", "close"} /\ r = Idle
  BY <1>2, CallFailsShape
<1>4. r.op \notin NewOps
  BY <1>3, IdleShape DEF SameRequest, NewOps
<1>5. Left(h, r)
  BY <1>2, <1>4 DEF Left
<1>6. CASE r = Idle /\ handler[h].op \notin {"vote", "repay", "close"}
  BY <1>2, <1>3, <1>5, <1>6, Ends DEF StaysPut
<1>7. CASE handler[h].op = "close" /\ r.op = "close" /\ r.yes
  <2>1. r.loan = NoLoan /\ r.group \subseteq Members /\ r.at = "visit"
    BY <1>1, <1>3, <1>7, IdleShape DEF WellFormed, LoanOps, NewOps, RowOps
  <2>2. HandlerHolds(r)
    BY <1>7, <2>1 DEF HandlerHolds, WellFormed, LoanOps, NewOps, RowOps, CallOps
  <2>3. StaysPut(h, r) /\ Fresh(h, r) /\ Founded(h, r) /\ Paid(r)
    BY <1>7 DEF StaysPut, Fresh, Founded, Paid, NewOps
  <2> QED
    BY <1>2, <1>3, <1>5, <2>2, <2>3, HandlerStep
<1>8. CASE handler[h].op \in {"vote", "repay"} /\ r.at = "failed" /\ SameRequest(r, handler[h])
  <2>1. HandlerHolds(r)
    BY <1>1, <1>2, <1>8 DEF HandlerHolds, WellFormed, SameRequest, LoanOps, NewOps, RowOps, CallOps
  <2>2. StaysPut(h, r) /\ Fresh(h, r) /\ Founded(h, r) /\ r.op # "close"
    BY <1>2, <1>8 DEF StaysPut, Fresh, Founded, SameRequest, NewOps
  <2> QED
    BY <1>2, <1>3, <1>5, <2>1, <2>2, HandlerStep
<1> QED
  BY <1>3, <1>6, <1>7, <1>8

LEMMA AbortKeeps ==
  ASSUME PoolInv, NEW h \in Handlers, Abort(h)
  PROVE  PoolInv'
<1>1. handler[h].yes \in BOOLEAN
  BY DEF PoolInv, LoanInv, HandlerRecords
<1>2. /\ UNCHANGED <<poolRow, memberRows, loanRow, voteRows, cronLoans, contract, disturbed>>
      /\ UNCHANGED <<forgiven, pardons>> /\ handler' = [handler EXCEPT ![h] = Idle]
      /\ lostClaims' = lostClaims \cup Claims(h)
      /\ orphans' = IF handler[h].at = "sent" THEN orphans \cup {Transaction(h)} ELSE orphans
  BY DEF Abort, db, chain
<1>3. Left(h, Idle)
  BY <1>2, IdleShape DEF Left, NewOps
<1>4. StaysPut(h, Idle)
  BY <1>1, <1>2 DEF StaysPut, Claims
<1> QED
  BY <1>2, <1>3, <1>4, Ends

LEMMA StandsStill ==
  ASSUME PoolInv, NEW h \in Handlers, UNCHANGED handler
  PROVE  \E r \in HandlerRecords :
           /\ r = handler[h] /\ handler' = [handler EXCEPT ![h] = r] /\ HandlerHolds(r)
           /\ StaysPut(h, r) /\ Fresh(h, r) /\ Founded(h, r)
           /\ disturbed \/ Lending \/ (r.op = "close" => Paid(r))
<1>1. PICK r \in HandlerRecords : r = handler[h] /\ HandlerHolds(r)
  BY RequestShape
<1>2. handler' = [handler EXCEPT ![h] = r]
  BY <1>1 DEF PoolInv, LoanInv
<1>3. r.op = "vote" => r.at # "claim"
  BY <1>1 DEF HandlerHolds, WellFormed
<1>4. r.op = "repay" => r.at # "row"
  BY <1>1 DEF HandlerHolds, WellFormed
<1>5. StaysPut(h, r) /\ Fresh(h, r) /\ Founded(h, r)
  BY <1>1, <1>3, <1>4 DEF StaysPut, Fresh, Founded
<1>6. disturbed \/ Lending \/ (r.op = "close" => Paid(r))
  BY <1>1 DEF PoolInv, WindDownInv
<1> QED
  BY <1>1, <1>2, <1>5, <1>6

LEMMA DropKeeps ==
  ASSUME PoolInv, NEW tx, DropOrphan(tx)
  PROVE  PoolInv'
<1>1. PICK h \in Handlers : TRUE
  BY PoolAssumption
<1>2. /\ UNCHANGED <<poolRow, memberRows, loanRow, voteRows, cronLoans, contract, disturbed>>
      /\ UNCHANGED <<lostClaims, forgiven, pardons, handler>> /\ orphans' \subseteq orphans
  BY DEF DropOrphan, db, chain, history
<1>3. PICK r \in HandlerRecords :
           /\ r = handler[h] /\ handler' = [handler EXCEPT ![h] = r] /\ HandlerHolds(r)
           /\ StaysPut(h, r) /\ Fresh(h, r) /\ Founded(h, r)
           /\ disturbed \/ Lending \/ (r.op = "close" => Paid(r))
  BY <1>2, StandsStill
<1>4. Left(h, r)
  BY <1>2 DEF Left
<1> QED
  BY <1>2, <1>3, <1>4, HandlerStep

-----------------------------------------------------------------------------
(* Requests that write the row of their loan.                              *)

Writes(l) ==
  /\ loanRow' \in [Loans -> RowRecords] /\ voteRows' \in Ballots
  /\ \A x \in Loans : x # l => loanRow'[x] = loanRow[x] /\ voteRows'[x] = voteRows[x]
  /\ UNCHANGED <<poolRow, memberRows, contract, disturbed, orphans, cronLoans>>
  /\ lostClaims \subseteq lostClaims' /\ forgiven \subseteq forgiven' /\ pardons \subseteq pardons'

LEMMA RowWrite ==
  ASSUME PoolInv, NEW h \in Handlers, NEW r, handler' = [handler EXCEPT ![h] = r],
         NEW l \in Loans, Writes(l), handler[h].loan = l \/ StaysPut(h, r),
         HandlerHolds(r)', Fresh(h, r), r.op = handler[h].op \/ r.op = "none", r.op # "close",
         RowKept(h, r, l)
  PROVE  PoolInv'
<1>1. /\ UNCHANGED <<poolRow, memberRows, contract, disturbed, orphans>>
      /\ loanRow' \in [Loans -> RowRecords] /\ voteRows' \in Ballots /\ cronLoans' = cronLoans
      /\ lostClaims \subseteq lostClaims' /\ forgiven \subseteq forgiven' /\ pardons \subseteq pardons'
      /\ \A x \in Loans : x # l => loanRow'[x] = loanRow[x] /\ voteRows'[x] = voteRows[x]
  BY DEF Writes
<1>2. cronLoans' \subseteq Loans
  BY <1>1, TypeOfRows DEF PoolInv
<1>3. Founded(h, r)
  BY DEF Founded
<1>4. ASSUME NEW x \in Loans PROVE RowKept(h, r, x)
  <2>1. CASE x = l
    BY <2>1
  <2>2. CASE x # l
    BY <1>1, <2>2, RowAtRest
  <2> QED
    BY <2>1, <2>2
<1> QED
  BY <1>1, <1>2, <1>3, <1>4, RowStep

LEMMA RowEnd ==
  ASSUME PoolInv, NEW h \in Handlers, handler' = [handler EXCEPT ![h] = Idle],
         NEW l \in Loans, Writes(l), handler[h].loan = l \/ StaysPut(h, Idle), RowKept(h, Idle, l)
  PROVE  PoolInv'
<1>1. PICK r : r = Idle
  OBVIOUS
<1>2. r \in HandlerRecords /\ r.op = "none" /\ r.at = "idle" /\ r.loan = NoLoan
  BY <1>1, IdleShape
<1>3. HandlerHolds(r)'
  BY <1>2 DEF HandlerHolds, WellFormed, LoanOps, NewOps, RowOps, CallOps
<1>4. Fresh(h, r)
  BY <1>2 DEF Fresh, NewOps
<1>5. /\ handler' = [handler EXCEPT ![h] = r] /\ RowKept(h, r, l)
      /\ handler[h].loan = l \/ StaysPut(h, r)
  BY <1>1
<1> QED
  BY <1>2, <1>3, <1>4, <1>5, RowWrite

LEMMA TheLoan ==
  ASSUME PoolInv, NEW h \in Handlers, handler[h].op \in LoanOps
  PROVE  /\ handler[h].loan \in Loans /\ HandlerHolds(handler[h]) /\ WellFormed(handler[h])
         /\ handler[h].who \in Members
         /\ loanRow \in [Loans -> RowRecords] /\ loanRow[handler[h].loan] \in RowRecords
         /\ voteRows \in Ballots /\ LoanHolds(handler[h].loan)
<1>1. HandlerHolds(handler[h]) /\ WellFormed(handler[h]) /\ handler[h].who \in Members
  BY RequestShape
<1>2. handler[h].loan \in Loans
  BY <1>1 DEF WellFormed
<1>3. loanRow \in [Loans -> RowRecords] /\ voteRows \in Ballots
  BY TypeOfRows DEF PoolInv
<1> QED
  BY <1>1, <1>2, <1>3, RowsShape

\* requestLoan and requestExtension make their row.
LEMMA NewRow ==
  ASSUME PoolInv, NEW h \in Handlers, RequestRow(h) \/ ExtensionRow(h)
  PROVE  PoolInv'
<1>1. handler[h].op \in NewOps /\ handler' = [handler EXCEPT ![h] = Idle]
      /\ UNCHANGED <<poolRow, memberRows, voteRows, contract, disturbed, orphans, cronLoans,
                     lostClaims, forgiven, pardons>>
  BY DEF RequestRow, ExtensionRow, At, Finish, NewOps, chain, history
<1>2. PICK l \in Loans : l = handler[h].loan
  BY <1>1, TheLoan DEF LoanOps
<1>3. /\ loanRow \in [Loans -> RowRecords] /\ voteRows \in Ballots /\ LoanHolds(l)
      /\ handler[h].who \in Members /\ HandlerHolds(handler[h]) /\ WellFormed(handler[h])
  BY <1>1, <1>2, TheLoan DEF LoanOps
<1>4. loanRow[l].status = "NONE"
  BY <1>1, <1>2, <1>3 DEF HandlerHolds
<1>5. PICK row \in RowRecords : row.status = "PENDING" /\ loanRow' = [loanRow EXCEPT ![l] = row]
  <2>1. /\ NoRow \in RowRecords
    BY PoolAssumption DEF NoRow, RowRecords, Outstanding
  <2>2. CASE RequestRow(h)
    <3>1. PICK row : row = [NoRow EXCEPT !.status = "PENDING", !.borrower = handler[h].who]
      OBVIOUS
    <3>2. row \in RowRecords /\ row.status = "PENDING"
      BY <1>3, <2>1, <3>1 DEF RowRecords, Outstanding
    <3> QED
      BY <1>2, <2>2, <3>1, <3>2 DEF RequestRow
  <2>3. CASE ExtensionRow(h)
    <3>1. PICK t \in handler[h].group : loanRow' = [loanRow EXCEPT ![handler[h].loan] =
            [NoRow EXCEPT !.status = "PENDING", !.borrower = handler[h].who, !.target = t]]
      BY <2>3 DEF ExtensionRow
    <3>2. t \in Loans
      BY <1>3, <2>3 DEF WellFormed, ExtensionRow, At
    <3>3. PICK row : row = [NoRow EXCEPT !.status = "PENDING", !.borrower = handler[h].who, !.target = t]
      OBVIOUS
    <3>4. row \in RowRecords /\ row.status = "PENDING"
      BY <1>3, <2>1, <3>2, <3>3 DEF RowRecords, Outstanding
    <3> QED
      BY <1>2, <3>1, <3>3, <3>4
  <2> QED
    BY <2>2, <2>3
<1>6. loanRow' \in [Loans -> RowRecords] /\ loanRow'[l] = row
      /\ \A x \in Loans : x # l => loanRow'[x] = loanRow[x]
  BY <1>3, <1>5
<1>7. Writes(l)
  BY <1>1, <1>3, <1>6 DEF Writes
<1>8. \A m \in Members : voteRows'[l][m] = "none"
  BY <1>1, <1>3, <1>4 DEF LoanHolds
<1>9. RowKept(h, Idle, l)
  BY <1>1, <1>2, <1>4, <1>5, <1>6, <1>8 DEF RowKept
<1> QED
  BY <1>1, <1>2, <1>7, <1>9, RowEnd

\* A row that keeps its place: the step of a request that does not speak for
\* the loan's claim or votes.
LEMMA StatusWrite ==
  ASSUME NEW h, NEW r, NEW l, NEW row, loanRow'[l] = row, UNCHANGED voteRows,
         loanRow[l].status # "NONE", row.status # "NONE",
         row.status = "REPAID" =>
           \/ debt'[l].state = "repaid" \/ l \in forgiven'
           \/ r.op = "repay" /\ r.loan = l /\ r.yes /\ r.at # "claim"
           \/ /\ loanRow[l].status = "REPAID"
              /\ handler[h].op = "repay" => ~handler[h].yes \/ StaysPut(h, r),
         handler[h].op = "vote" =>
           \/ StaysPut(h, r)
           \/ Recorded(l, handler[h].who, voteRows[l][handler[h].who])
  PROVE  RowKept(h, r, l)
<1>1. ASSUME NEW m \in Members, voteRows'[l][m] # "none"
      PROVE  \/ m \in IF voteRows'[l][m] = "yes" THEN debt[l].ayes ELSE debt[l].noes
             \/ handler[h].op = "vote" /\ handler[h].who = m => StaysPut(h, r)
  BY <1>1 DEF Recorded
<1> QED
  BY <1>1 DEF RowKept

\* voteLoan and writeOffLoan record a vote, once.
LEMMA RecordVote ==
  ASSUME PoolInv, NEW h \in Handlers, VoteRow(h) \/ WriteOffRow(h)
  PROVE  PoolInv'
<1>1. /\ handler[h].op \in {"vote", "writeOff"} /\ handler[h].at = "row"
      /\ UNCHANGED <<poolRow, memberRows, loanRow, contract, disturbed, orphans, cronLoans,
                     lostClaims, forgiven>>
      /\ pardons \subseteq pardons'
  BY DEF VoteRow, WriteOffRow, At, Finish, Step, chain, history
<1>2. PICK l \in Loans, m \in Members : l = handler[h].loan /\ m = handler[h].who
  BY <1>1, TheLoan DEF LoanOps, RowOps
<1>3. /\ loanRow \in [Loans -> RowRecords] /\ voteRows \in Ballots /\ LoanHolds(l)
      /\ HandlerHolds(handler[h]) /\ WellFormed(handler[h])
  BY <1>1, <1>2, TheLoan DEF LoanOps, RowOps
<1>4. loanRow[l].status # "NONE"
  BY <1>1, <1>2, <1>3 DEF HandlerHolds, RowOps
<1>5. CASE handler' = [handler EXCEPT ![h] = Idle] /\ UNCHANGED voteRows
  <2>1. Writes(l)
    BY <1>1, <1>3, <1>5 DEF Writes
  <2>2. StaysPut(h, Idle)
    BY <1>1 DEF StaysPut
  <2>3. RowKept(h, Idle, l)
    BY <1>1, <1>5, <2>2, RowAtRest
  <2> QED
    BY <1>2, <1>5, <2>1, <2>3, RowEnd
<1>6. ASSUME NEW ballot \in {"yes", "no"}, voteRows[l][m] = "none",
             voteRows' = [voteRows EXCEPT ![l][m] = ballot],
             handler' = [handler EXCEPT ![h].at = "count"],
             handler[h].op = "vote" => ballot = Ballot(handler[h].yes),
             handler[h].op = "writeOff" => <<l, m>> \in pardons'
      PROVE  PoolInv'
  <2>1. /\ voteRows' \in Ballots /\ voteRows'[l][m] = ballot
        /\ \A x \in Loans : x # l => voteRows'[x] = voteRows[x]
        /\ \A x \in Members : x # m => voteRows'[l][x] = voteRows[l][x]
    BY <1>3, <1>6 DEF Ballots
  <2>2. Writes(l)
    BY <1>1, <1>3, <2>1 DEF Writes
  <2>3. PICK r \in HandlerRecords :
          handler' = [handler EXCEPT ![h] = r] /\ r.at = "count" /\ SameRequest(r, handler[h])
    BY <1>6, StepShape DEF Places
  <2>4. r.op = handler[h].op /\ r.loan = l /\ r.who = m /\ r.yes = handler[h].yes
    BY <1>2, <2>3 DEF SameRequest
  <2>5. HandlerHolds(r)'
    <3>1. WellFormed(r)
      BY <1>1, <1>2, <2>3, <2>4 DEF WellFormed, LoanOps, NewOps, RowOps, CallOps
    <3>2. r.op = "vote" => voteRows'[l][m] = Ballot(r.yes)
      BY <1>6, <2>1, <2>4
    <3>3. loanRow'[l].status # "NONE" /\ r.op \in {"vote", "writeOff"}
      BY <1>1, <1>4, <2>4
    <3>4. WellFormed(r)'
      BY <3>1 DEF WellFormed
    <3>5. (r.op = "vote" => voteRows[l][m] = Ballot(r.yes))'
      BY <3>2 DEF Ballot
    <3> QED
      BY <2>3, <2>4, <3>3, <3>4, <3>5 DEF HandlerHolds, NewOps
  <2>6. Fresh(h, r)
    BY <1>1, <1>6, <2>4 DEF Fresh, NewOps
  <2>7. ASSUME NEW g \in Handlers, g # h, handler[g].op = "vote", handler[g].at # "row",
               handler[g].loan = l
        PROVE  voteRows'[l][handler[g].who] = voteRows[l][handler[g].who]
    <3>1. HandlerHolds(handler[g]) /\ handler[g].who \in Members
      BY RequestShape
    <3>2. voteRows[l][handler[g].who] \in {"yes", "no"}
      BY <2>7, <3>1 DEF HandlerHolds, Ballot
    <3> QED
      BY <1>6, <2>1, <3>1, <3>2
  <2>8. \A x \in Members : voteRows'[l][x] # "none" =>
          \/ <<l, x>> \in pardons'
          \/ r.op = "vote" /\ r.loan = l /\ r.who = x /\ r.at # "row"
          \/ voteRows'[l][x] = voteRows[l][x] /\ handler[h].who # x
    BY <1>1, <1>2, <1>6, <2>1, <2>3, <2>4
  <2>9. RowKept(h, r, l)
    BY <1>1, <1>4, <2>7, <2>8 DEF RowKept
  <2> QED
    BY <1>1, <1>2, <2>2, <2>3, <2>4, <2>5, <2>6, <2>9, RowWrite
<1>7. CASE VoteRow(h)
  <2>1. Ballot(handler[h].yes) \in {"yes", "no"}
    BY DEF Ballot
  <2> QED
    BY <1>2, <1>5, <1>6, <1>7, <2>1 DEF VoteRow, Finish, Step, At
<1>8. CASE WriteOffRow(h)
  BY <1>2, <1>5, <1>6, <1>8 DEF WriteOffRow, Finish, Step, At
<1> QED
  BY <1>7, <1>8

\* A vote is counted, or taken back.
LEMMA VoteEnds ==
  ASSUME PoolInv, NEW h \in Handlers, VoteResult(h) \/ VoteFailed(h)
  PROVE  PoolInv'
<1>1. /\ handler[h].op = "vote" /\ handler[h].at \in {"landed", "failed"}
      /\ handler' = [handler EXCEPT ![h] = Idle]
      /\ UNCHANGED <<poolRow, memberRows, contract, disturbed, orphans, cronLoans,
                     lostClaims, forgiven, pardons>>
  BY DEF VoteResult, VoteFailed, At, Finish, Step, chain, history
<1>2. PICK l \in Loans, m \in Members : l = handler[h].loan /\ m = handler[h].who
  BY <1>1, TheLoan DEF LoanOps, RowOps
<1>3. /\ loanRow \in [Loans -> RowRecords] /\ voteRows \in Ballots /\ LoanHolds(l)
      /\ HandlerHolds(handler[h]) /\ WellFormed(handler[h]) /\ loanRow[l] \in RowRecords
  BY <1>1, <1>2, TheLoan DEF LoanOps, RowOps
<1>4. loanRow[l].status # "NONE" /\ voteRows[l][m] = Ballot(handler[h].yes)
      /\ (handler[h].at = "landed" => Recorded(l, m, Ballot(handler[h].yes)))
  BY <1>1, <1>2, <1>3 DEF HandlerHolds, RowOps
<1>5. CASE VoteResult(h)
  <2>1. handler[h].at = "landed" /\ UNCHANGED voteRows
    BY <1>5 DEF VoteResult, At
  <2>2. handler[h].status \in {"PENDING", "APPROVED", "REJECTED"}
    BY <1>1, <1>3, <2>1 DEF WellFormed
  <2>3. PICK row \in RowRecords :
          /\ loanRow' = [loanRow EXCEPT ![l] = row]
          /\ row.status \in {"PENDING", "APPROVED", "REJECTED", "EXECUTED"}
    <3>1. CASE handler[h].hasId
      <4>1. PICK row : row = [loanRow[l] EXCEPT !.status = "EXECUTED", !.hasId = TRUE, !.deadline = "ahead"]
        OBVIOUS
      <4>2. row \in RowRecords /\ row.status = "EXECUTED"
        BY <1>3, <4>1 DEF RowRecords, Outstanding
      <4>3. loanRow' = [loanRow EXCEPT ![l] = row]
        BY <1>2, <1>5, <3>1, <4>1 DEF VoteResult
      <4> QED
        BY <4>2, <4>3
    <3>2. CASE ~handler[h].hasId
      <4>1. PICK row : row = [loanRow[l] EXCEPT !.status = handler[h].status]
        OBVIOUS
      <4>2. row \in RowRecords /\ row.status = handler[h].status
        BY <1>3, <2>2, <4>1 DEF RowRecords, Outstanding
      <4>3. loanRow' = [loanRow EXCEPT ![l] = row]
        BY <1>2, <1>5, <3>2, <4>1 DEF VoteResult
      <4> QED
        BY <2>2, <4>2, <4>3
    <3> QED
      BY <3>1, <3>2
  <2>4. loanRow' \in [Loans -> RowRecords] /\ loanRow'[l] = row
        /\ \A x \in Loans : x # l => loanRow'[x] = loanRow[x]
    BY <1>3, <2>3
  <2>5. Writes(l)
    BY <1>1, <1>3, <2>1, <2>4 DEF Writes
  <2>6. RowKept(h, Idle, l)
    BY <1>1, <1>2, <1>4, <2>1, <2>3, <2>4, StatusWrite
  <2> QED
    BY <1>1, <1>2, <2>5, <2>6, RowEnd
<1>6. CASE VoteFailed(h)
  <2>1. UNCHANGED loanRow /\ voteRows' = [voteRows EXCEPT ![l][m] = "none"]
    BY <1>2, <1>6 DEF VoteFailed
  <2>2. /\ voteRows' \in Ballots /\ voteRows'[l][m] = "none"
        /\ \A x \in Loans : x # l => voteRows'[x] = voteRows[x]
        /\ \A x \in Members : x # m => voteRows'[l][x] = voteRows[l][x]
    BY <1>3, <2>1 DEF Ballots
  <2>3. Writes(l)
    BY <1>1, <1>3, <2>1, <2>2 DEF Writes
  <2>4. ASSUME NEW g \in Handlers, g # h, handler[g].op = "vote", handler[g].at # "row",
               handler[g].loan = l
        PROVE  voteRows'[l][handler[g].who] = voteRows[l][handler[g].who]
    <3>1. handler[g].who \in Members
      BY RequestShape
    <3>2. handler[g].who # m
      BY <1>1, <1>2, <2>4 DEF PoolInv, LoanInv, Apart
    <3> QED
      BY <2>2, <3>1, <3>2
  <2>5. RowKept(h, Idle, l)
    BY <1>1, <1>2, <1>4, <2>1, <2>2, <2>4 DEF RowKept
  <2> QED
    BY <1>1, <1>2, <2>3, <2>5, RowEnd
<1> QED
  BY <1>5, <1>6

\* The row of loan l with another status, or another deadline.
LEMMA StatusRow ==
  ASSUME PoolInv, NEW l \in Loans,
         NEW status \in Outstanding \cup {"NONE", "REJECTED", "REPAID"},
         loanRow' = [loanRow EXCEPT ![l].status = status]
  PROVE  /\ loanRow' \in [Loans -> RowRecords] /\ loanRow'[l].status = status
         /\ loanRow'[l].deadline = loanRow[l].deadline
         /\ \A x \in Loans : x # l => loanRow'[x] = loanRow[x]
BY TypeOfRows DEF PoolInv, RowRecords

LEMMA DeadlineRow ==
  ASSUME PoolInv, NEW l \in Loans, NEW deadline \in {"none", "ahead", "past"},
         loanRow' = [loanRow EXCEPT ![l].deadline = deadline]
  PROVE  /\ loanRow' \in [Loans -> RowRecords] /\ loanRow'[l].deadline = deadline
         /\ loanRow'[l].status = loanRow[l].status
         /\ \A x \in Loans : x # l => loanRow'[x] = loanRow[x]
BY TypeOfRows DEF PoolInv, RowRecords

\* executeLoan: an extension moves two deadlines, a claim is made and given back.
LEMMA ExecuteSteps ==
  ASSUME PoolInv, NEW h \in Handlers,
         ExecuteExtension(h) \/ ExtensionDone(h) \/ ExecuteClaim(h) \/ ExecuteRelease(h)
  PROVE  PoolInv'
<1>1. /\ handler[h].op = "execute"
      /\ UNCHANGED <<poolRow, memberRows, contract, disturbed, orphans, cronLoans, voteRows,
                     lostClaims, forgiven, pardons>>
  BY DEF ExecuteExtension, ExtensionDone, ExecuteClaim, ExecuteRelease, At, Finish, Step, chain, history
<1>2. PICK l \in Loans : l = handler[h].loan
  BY <1>1, TheLoan DEF LoanOps, RowOps
<1>3. /\ loanRow \in [Loans -> RowRecords] /\ voteRows \in Ballots /\ LoanHolds(l)
      /\ HandlerHolds(handler[h]) /\ WellFormed(handler[h]) /\ loanRow[l] \in RowRecords
  BY <1>1, <1>2, TheLoan DEF LoanOps, RowOps
<1>4. loanRow[l].status # "NONE"
  BY <1>1, <1>2, <1>3 DEF HandlerHolds, RowOps
<1>5. \A r : StaysPut(h, r)
  BY <1>1 DEF StaysPut
<1>6. ASSUME NEW x \in Loans, loanRow' \in [Loans -> RowRecords],
             \A y \in Loans : y # x => loanRow'[y] = loanRow[y]
      PROVE  Writes(x)
  BY <1>1, <1>3, <1>6 DEF Writes
<1>7. ASSUME NEW place \in {"extended", "release"}, handler' = [handler EXCEPT ![h].at = place],
             loanRow'[l].status # "NONE",
             place = "extended" => handler[h].at = "extend"
      PROVE  \E r \in HandlerRecords :
               /\ handler' = [handler EXCEPT ![h] = r] /\ r.op = "execute"
               /\ HandlerHolds(r)' /\ Fresh(h, r)
  <2>1. PICK r \in HandlerRecords :
          /\ handler' = [handler EXCEPT ![h] = r] /\ r.at = place
          /\ SameRequest(r, handler[h]) /\ r.status = handler[h].status /\ r.hasId = handler[h].hasId
    <3>1. place \in Places /\ handler' = [handler EXCEPT ![h].at = place]
      BY <1>7 DEF Places
    <3> QED
      BY <3>1, StepShape, Zenon
  <2>2. r.op = "execute" /\ r.loan = l
    BY <1>1, <1>2, <2>1 DEF SameRequest
  <2>3. WellFormed(r)
    BY <1>1, <1>3, <1>7, <2>1, <2>2 DEF WellFormed, LoanOps, NewOps, RowOps
  <2>4. WellFormed(r)'
    BY <2>3 DEF WellFormed
  <2>5. HandlerHolds(r)'
    BY <1>7, <2>2, <2>4 DEF HandlerHolds, NewOps
  <2>6. Fresh(h, r)
    BY <2>2 DEF Fresh, NewOps
  <2> QED
    BY <2>1, <2>2, <2>5, <2>6
<1>8. CASE ExecuteExtension(h)
  <2>1. /\ handler[h].at = "extend" /\ handler' = [handler EXCEPT ![h].at = "extended"]
        /\ loanRow' = [loanRow EXCEPT ![loanRow[l].target].deadline = handler[h].status]
    BY <1>2, <1>8 DEF ExecuteExtension, At, Step
  <2>2. handler[h].status \in {"ahead", "past"}
    BY <1>1, <1>3, <2>1 DEF WellFormed
  <2>3. PICK x \in Loans : /\ loanRow' \in [Loans -> RowRecords]
                           /\ loanRow'[x].status = loanRow[x].status
                           /\ \A y \in Loans : y # x => loanRow'[y] = loanRow[y]
    <3>1. CASE loanRow[l].target \in Loans
      BY <2>1, <2>2, <3>1, DeadlineRow
    <3>2. CASE loanRow[l].target \notin Loans
      <4>1. loanRow' = loanRow
        BY <1>3, <2>1, <3>2
      <4> QED
        BY <1>3, <4>1
    <3> QED
      BY <3>1, <3>2
  <2>4. loanRow'[l].status # "NONE"
    BY <1>4, <2>3
  <2>5. PICK r \in HandlerRecords :
          /\ handler' = [handler EXCEPT ![h] = r] /\ r.op = "execute" /\ HandlerHolds(r)' /\ Fresh(h, r)
    BY <1>7, <2>1, <2>4
  <2>6. RowKept(h, r, x)
    BY <1>1, <1>5, <2>3 DEF RowKept
  <2> QED
    BY <1>1, <1>5, <1>6, <2>3, <2>5, <2>6, RowWrite
<1>9. CASE ExtensionDone(h)
  <2>1. /\ handler[h].at = "extended" /\ handler' = [handler EXCEPT ![h] = Idle]
        /\ loanRow' = [loanRow EXCEPT ![l].status = "EXECUTED", ![l].deadline = handler[h].status]
    BY <1>2, <1>9 DEF ExtensionDone, At, Finish
  <2>2. PICK deadline \in {"ahead", "past"} : deadline = handler[h].status
    BY <1>1, <1>3, <2>1 DEF WellFormed
  <2>3. /\ loanRow' \in [Loans -> RowRecords] /\ loanRow'[l].status = "EXECUTED"
        /\ loanRow'[l].deadline = deadline
        /\ \A y \in Loans : y # l => loanRow'[y] = loanRow[y]
    BY <1>3, <2>1, <2>2 DEF RowRecords, Outstanding
  <2>4. RowKept(h, Idle, l)
    BY <1>1, <1>4, <2>2, <2>3, StatusWrite
  <2> QED
    BY <1>2, <1>6, <2>1, <2>3, <2>4, RowEnd
<1>10. CASE ExecuteRelease(h)
  <2>1. PICK status : /\ status \in {"PENDING", loanRow[l].status}
                      /\ loanRow' = [loanRow EXCEPT ![l].status = status]
    <3> DEFINE s == IF loanRow[l].status = "EXECUTED" /\ ~loanRow[l].hasId THEN "PENDING"
                    ELSE loanRow[l].status
    <3>1. loanRow' = [loanRow EXCEPT ![l].status = s]
      BY <1>2, <1>10 DEF ExecuteRelease
    <3> QED
      BY <3>1
  <2>2. handler' = [handler EXCEPT ![h] = Idle]
    BY <1>10 DEF ExecuteRelease, Finish
  <2>3. status \in Outstanding \cup {"NONE", "REJECTED", "REPAID"}
    BY <1>3, <2>1 DEF RowRecords, Outstanding
  <2>4. /\ loanRow' \in [Loans -> RowRecords] /\ loanRow'[l].status = status
        /\ loanRow'[l].deadline = loanRow[l].deadline
        /\ \A x \in Loans : x # l => loanRow'[x] = loanRow[x]
    BY <2>1, <2>3, StatusRow
  <2>5. RowKept(h, Idle, l)
    <3>1. PICK row : row = loanRow'[l]
      OBVIOUS
    <3>2. row.status # "NONE" /\ (row.status = "REPAID" => loanRow[l].status = "REPAID")
      BY <1>4, <2>1, <2>4, <3>1
    <3> QED
      BY <1>1, <1>4, <3>1, <3>2, StatusWrite
  <2> QED
    BY <1>2, <1>6, <2>2, <2>4, <2>5, RowEnd
<1>11. CASE ExecuteClaim(h)
  <2>1. CASE handler' = [handler EXCEPT ![h] = Idle] /\ UNCHANGED loanRow
    <3>1. RowKept(h, Idle, l)
      BY <1>1, <1>5, <2>1, RowAtRest
    <3> QED
      BY <1>2, <1>3, <1>6, <2>1, <3>1, RowEnd
  <2>2. CASE loanRow' = [loanRow EXCEPT ![l].status = "EXECUTED"]
    <3>1. /\ loanRow' \in [Loans -> RowRecords] /\ loanRow'[l].status = "EXECUTED"
          /\ loanRow'[l].deadline = loanRow[l].deadline
          /\ \A x \in Loans : x # l => loanRow'[x] = loanRow[x]
      BY <2>2, StatusRow DEF Outstanding
    <3>2. \A r : RowKept(h, r, l)
      BY <1>1, <1>4, <3>1, StatusWrite
    <3>3. CASE handler' = [handler EXCEPT ![h] = Idle]
      BY <1>2, <1>6, <3>1, <3>2, <3>3, RowEnd
    <3>4. CASE handler' = [handler EXCEPT ![h].at = "release"]
      <4>1. PICK r \in HandlerRecords :
              /\ handler' = [handler EXCEPT ![h] = r] /\ r.op = "execute" /\ HandlerHolds(r)'
              /\ Fresh(h, r)
        BY <1>7, <3>1, <3>4
      <4> QED
        BY <1>1, <1>5, <1>6, <3>1, <3>2, <4>1, RowWrite
    <3> QED
      BY <1>11, <2>2, <3>3, <3>4 DEF ExecuteClaim, Finish, Step
  <2> QED
    BY <1>2, <1>11, <2>1, <2>2 DEF ExecuteClaim, Finish
<1> QED
  BY <1>8, <1>9, <1>10, <1>11

\* repayLoan: a claim is made, kept by a repayment that landed, given back by
\* one that failed; a vote writes a loan off.
LEMMA RepaySteps ==
  ASSUME PoolInv, NEW h \in Handlers,
         RepayClaim(h) \/ RepayRow(h) \/ RepayFailed(h) \/ WriteOffClose(h)
  PROVE  PoolInv'
<1>1. /\ handler[h].op \in {"repay", "writeOff"}
      /\ UNCHANGED <<poolRow, memberRows, contract, disturbed, orphans, cronLoans, voteRows,
                     lostClaims>>
      /\ forgiven \subseteq forgiven' /\ pardons' = pardons
  BY DEF RepayClaim, RepayRow, RepayFailed, WriteOffClose, At, Finish, Step, chain, history
<1>2. PICK l \in Loans : l = handler[h].loan
  BY <1>1, TheLoan DEF LoanOps, RowOps
<1>3. /\ loanRow \in [Loans -> RowRecords] /\ voteRows \in Ballots /\ LoanHolds(l)
      /\ HandlerHolds(handler[h]) /\ WellFormed(handler[h]) /\ loanRow[l] \in RowRecords
  BY <1>1, <1>2, TheLoan DEF LoanOps, RowOps
<1>4. loanRow[l].status # "NONE"
  BY <1>1, <1>2, <1>3 DEF HandlerHolds, RowOps
<1>5. ASSUME loanRow' \in [Loans -> RowRecords],
             \A y \in Loans : y # l => loanRow'[y] = loanRow[y]
      PROVE  Writes(l)
  BY <1>1, <1>3, <1>5 DEF Writes
<1>6. ASSUME NEW status \in Outstanding \cup {"NONE", "REJECTED", "REPAID"}, NEW r,
             loanRow' = [loanRow EXCEPT ![l].status = status],
             status \in {"EXECUTED", "REPAID"} \/ status = loanRow[l].status,
             status = "REPAID" =>
               \/ debt'[l].state = "repaid" \/ l \in forgiven'
               \/ r.op = "repay" /\ r.loan = l /\ r.yes /\ r.at # "claim"
               \/ /\ loanRow[l].status = "REPAID"
                  /\ handler[h].op = "repay" => ~handler[h].yes \/ StaysPut(h, r)
      PROVE  Writes(l) /\ RowKept(h, r, l)
  <2>1. /\ loanRow' \in [Loans -> RowRecords] /\ loanRow'[l].status = status
        /\ loanRow'[l].deadline = loanRow[l].deadline
        /\ \A x \in Loans : x # l => loanRow'[x] = loanRow[x]
    BY <1>6, StatusRow
  <2>2. PICK row : row = loanRow'[l]
    OBVIOUS
  <2>3. row.status = status /\ row.status # "NONE"
    BY <1>4, <1>6, <2>1, <2>2
  <2>4. RowKept(h, r, l)
    BY <1>1, <1>4, <1>6, <2>2, <2>3, StatusWrite
  <2> QED
    BY <1>5, <2>1, <2>4
<1>7. CASE RepayClaim(h)
  <2>1. handler[h].op = "repay" /\ handler[h].at = "claim" /\ handler[h].yes
    BY <1>3, <1>7 DEF RepayClaim, At, WellFormed
  <2>2. CASE handler' = [handler EXCEPT ![h] = Idle] /\ UNCHANGED loanRow
    <3>1. StaysPut(h, Idle)
      BY <2>1 DEF StaysPut
    <3>2. RowKept(h, Idle, l)
      BY <1>1, <2>2, <3>1, RowAtRest
    <3> QED
      BY <1>2, <1>3, <1>5, <2>2, <3>2, RowEnd
  <2>3. ASSUME loanRow' = [loanRow EXCEPT ![l].status = "REPAID"], NEW place \in {"sent", "failed"},
               handler' = [handler EXCEPT ![h].at = place]
        PROVE  PoolInv'
    <3>1. PICK r \in HandlerRecords :
            /\ handler' = [handler EXCEPT ![h] = r] /\ r.at = place
            /\ SameRequest(r, handler[h]) /\ r.status = handler[h].status /\ r.hasId = handler[h].hasId
      <4>1. place \in Places /\ handler' = [handler EXCEPT ![h].at = place]
        BY <2>3 DEF Places
      <4> QED
        BY <4>1, StepShape, Zenon
    <3>2. r.op = "repay" /\ r.loan = l /\ r.yes /\ r.at # "claim"
      BY <1>2, <2>1, <2>3, <3>1 DEF SameRequest
    <3>3. Writes(l) /\ RowKept(h, r, l)
      BY <1>6, <2>3, <3>2
    <3>4. WellFormed(r)
      BY <1>3, <2>1, <3>1, <3>2 DEF WellFormed, SameRequest, LoanOps, NewOps, RowOps, CallOps
    <3>5. WellFormed(r)' /\ r.at # "landed"
      BY <3>1, <3>4 DEF WellFormed
    <3>6. loanRow'[l].status # "NONE"
      BY <1>4, <3>3 DEF RowKept
    <3>7. HandlerHolds(r)'
      BY <3>2, <3>5, <3>6 DEF HandlerHolds, NewOps
    <3>8. Fresh(h, r)
      BY <3>2 DEF Fresh, NewOps
    <3> QED
      BY <1>2, <2>1, <3>1, <3>2, <3>3, <3>7, <3>8, RowWrite
  <2> QED
    BY <1>2, <1>7, <2>2, <2>3 DEF RepayClaim, Finish, Step
<1>8. CASE RepayRow(h)
  <2>1. handler[h].op = "repay" /\ handler[h].at = "landed" /\ handler' = [handler EXCEPT ![h] = Idle]
        /\ UNCHANGED forgiven /\ debt' = debt
    BY <1>1, <1>8 DEF RepayRow, At, Finish, history, contract
  <2>2. CASE handler[h].yes
    <3>1. debt'[l].state = "repaid"
      BY <1>2, <1>3, <2>1, <2>2 DEF HandlerHolds
    <3>2. loanRow' = [loanRow EXCEPT ![l].status = "REPAID"]
      BY <1>2, <1>8, <2>2 DEF RepayRow
    <3>3. Writes(l) /\ RowKept(h, Idle, l)
      BY <1>6, <3>1, <3>2
    <3> QED
      BY <1>2, <2>1, <3>3, RowEnd
  <2>3. CASE ~handler[h].yes
    <3>1. UNCHANGED loanRow
      BY <1>8, <2>3 DEF RepayRow
    <3>2. PICK row : row = loanRow'[l]
      OBVIOUS
    <3>3. RowKept(h, Idle, l)
      BY <1>1, <1>4, <2>1, <2>3, <3>1, <3>2, StatusWrite
    <3> QED
      BY <1>2, <1>3, <1>5, <2>1, <3>1, <3>3, RowEnd
  <2> QED
    BY <2>2, <2>3
<1>9. CASE RepayFailed(h)
  <2>1. handler[h].op = "repay" /\ handler' = [handler EXCEPT ![h] = Idle]
    BY <1>9 DEF RepayFailed, At, Finish
  <2> DEFINE s == IF handler[h].yes /\ loanRow[l].status = "REPAID" THEN "EXECUTED" ELSE loanRow[l].status
  <2>2. loanRow' = [loanRow EXCEPT ![l].status = s]
    BY <1>2, <1>9 DEF RepayFailed
  <2>3. s \in Outstanding \cup {"NONE", "REJECTED", "REPAID"}
    BY <1>3 DEF RowRecords, Outstanding
  <2>4. /\ s \in {"EXECUTED", "REPAID"} \/ s = loanRow[l].status
        /\ s = "REPAID" => loanRow[l].status = "REPAID" /\ ~handler[h].yes
    OBVIOUS
  <2> HIDE DEF s
  <2>5. Writes(l) /\ RowKept(h, Idle, l)
    BY <1>6, <2>2, <2>3, <2>4
  <2> QED
    BY <1>2, <2>1, <2>5, RowEnd
<1>10. CASE WriteOffClose(h)
  <2>1. handler[h].op = "writeOff" /\ handler' = [handler EXCEPT ![h] = Idle]
    BY <1>10 DEF WriteOffClose, At
  <2>2. \/ loanRow' = [loanRow EXCEPT ![l].status = "REPAID"] /\ l \in forgiven'
        \/ UNCHANGED loanRow
    BY <1>2, <1>10 DEF WriteOffClose
  <2>3. CASE loanRow' = [loanRow EXCEPT ![l].status = "REPAID"] /\ l \in forgiven'
    <3>1. Writes(l) /\ RowKept(h, Idle, l)
      BY <1>6, <2>3
    <3> QED
      BY <1>2, <2>1, <3>1, RowEnd
  <2>4. CASE UNCHANGED loanRow
    <3>1. StaysPut(h, Idle)
      BY <2>1 DEF StaysPut
    <3>2. RowKept(h, Idle, l)
      BY <1>1, <2>4, <3>1, RowAtRest
    <3> QED
      BY <1>2, <1>3, <1>5, <2>1, <2>4, <3>2, RowEnd
  <2> QED
    BY <2>2, <2>3, <2>4
<1> QED
  BY <1>7, <1>8, <1>9, <1>10

\* Loans grow older and are marked so.
Aged ==
  /\ loanRow' \in [Loans -> RowRecords] /\ cronLoans' \subseteq Loans
  /\ \A l \in Loans :
       /\ loanRow'[l].status = "NONE" <=> loanRow[l].status = "NONE"
       /\ loanRow'[l].status = "REPAID" => loanRow[l].status = "REPAID"

\* The reminder job, and time.
LEMMA CronSteps ==
  ASSUME PoolInv, CronRead \/ \E l \in Loans : CronMark(l) \/ DeadlinePasses(l)
  PROVE  PoolInv'
<1>1. UNCHANGED <<poolRow, memberRows, contract, disturbed, orphans, voteRows, handler,
                lostClaims, forgiven, pardons>>
  BY DEF CronRead, CronMark, DeadlinePasses, db, chain, history
<1>2. PICK h \in Handlers : TRUE
  BY PoolAssumption
<1>3. PICK r \in HandlerRecords :
           /\ r = handler[h] /\ handler' = [handler EXCEPT ![h] = r] /\ HandlerHolds(r)
           /\ StaysPut(h, r) /\ Fresh(h, r) /\ Founded(h, r)
           /\ disturbed \/ Lending \/ (r.op = "close" => Paid(r))
  BY <1>1, <1>2, StandsStill
<1>4. /\ loanRow \in [Loans -> RowRecords] /\ voteRows' \in Ballots /\ cronLoans \subseteq Loans
  BY <1>1, TypeOfRows DEF PoolInv
<1>5. Aged
  <2>1. CASE CronRead
    <3>1. loanRow' = loanRow
          /\ cronLoans' = {l \in Loans : loanRow[l].status = "EXECUTED" /\ loanRow[l].deadline = "past"}
      BY <2>1 DEF CronRead, db
    <3> QED
      BY <1>4, <3>1 DEF Aged
  <2>2. ASSUME NEW x \in Loans, CronMark(x) PROVE Aged
    <3> DEFINE s == IF loanRow[x].status = "EXECUTED" THEN "DEFAULTED" ELSE loanRow[x].status
    <3>1. x \in cronLoans /\ cronLoans' \subseteq cronLoans /\ loanRow' = [loanRow EXCEPT ![x].status = s]
      BY <2>2 DEF CronMark
    <3>2. s \in Outstanding \cup {"NONE", "REJECTED", "REPAID"}
      BY <1>4 DEF RowRecords, Outstanding
    <3>3. /\ loanRow' \in [Loans -> RowRecords] /\ loanRow'[x].status = s
          /\ loanRow'[x].deadline = loanRow[x].deadline
          /\ \A y \in Loans : y # x => loanRow'[y] = loanRow[y]
      <4> HIDE DEF s
      <4> QED
        BY <3>1, <3>2, StatusRow
    <3> QED
      BY <1>4, <3>1, <3>3 DEF Aged
  <2>3. ASSUME NEW x \in Loans, DeadlinePasses(x) PROVE Aged
    <3>1. cronLoans' = cronLoans /\ loanRow' = [loanRow EXCEPT ![x].deadline = "past"]
      BY <2>3 DEF DeadlinePasses
    <3>2. /\ loanRow' \in [Loans -> RowRecords] /\ loanRow'[x].deadline = "past"
          /\ loanRow'[x].status = loanRow[x].status
          /\ \A y \in Loans : y # x => loanRow'[y] = loanRow[y]
      BY <3>1, DeadlineRow
    <3> QED
      BY <1>4, <3>1, <3>2 DEF Aged
  <2> QED
    BY <2>1, <2>2, <2>3
<1>6. HandlerHolds(r)'
  <2>1. r.op \in RowOps \cup NewOps => r.loan \in Loans
    BY <1>3 DEF HandlerHolds, WellFormed, LoanOps
  <2>2. debt' = debt
    BY <1>1 DEF contract
  <2>3. Kept(r)
    BY <1>1, <1>3, <1>5, <2>1, <2>2 DEF Aged, Kept, HandlerHolds, RowOps
  <2> QED
    BY <1>3, <2>3, KeptHolds
<1>7. \A l \in Loans : RowKept(h, r, l)
  BY <1>1, <1>3, <1>5 DEF Aged, RowKept
<1> QED
  BY <1>1, <1>3, <1>4, <1>5, <1>6, <1>7, RowStep DEF Aged

-----------------------------------------------------------------------------
(* Requests that write the rows of the pool.                               *)

LEMMA RowsOfPool ==
  ASSUME PoolInv, NEW h \in Handlers, NEW r, handler' = [handler EXCEPT ![h] = r],
         UNCHANGED <<loanRow, voteRows, cronLoans, contract, orphans, lostClaims, forgiven, pardons>>,
         HandlerHolds(r), StaysPut(h, r), Fresh(h, r),
         poolRow' \in {"none", "open", "closed"}, memberRows' \subseteq Members,
         disturbed' \in BOOLEAN, Founding', WindDownInv'
  PROVE  PoolInv'
<1>1. UNCHANGED debt /\ Left(h, r)
  BY DEF contract, Left
<1>2. LoanInv'
  BY <1>1, LoansUntouched
<1>3. TypeOK'
  BY TypeAtRest, TypeOfRows DEF PoolInv
<1> QED
  BY <1>2, <1>3 DEF PoolInv

LEMMA IdleMoves ==
  ASSUME NEW h, handler[h].op \notin {"vote", "repay"}
  PROVE  HandlerHolds(Idle) /\ StaysPut(h, Idle) /\ Fresh(h, Idle)
BY IdleShape, IdleHolds DEF StaysPut, Fresh, NewOps

LEMMA CreateKeeps ==
  ASSUME PoolInv, NEW h \in Handlers, CreateRow(h) PROVE PoolInv'
<1>1. /\ handler[h].op = "create" /\ handler' = [handler EXCEPT ![h] = Idle]
      /\ UNCHANGED <<loanRow, voteRows, cronLoans, contract, orphans, lostClaims, forgiven, pardons, disturbed>>
      /\ poolRow' = "open" /\ memberRows' = handler[h].group
  BY DEF CreateRow, At, Finish, chain, history
<1>2. memberRows' \subseteq Members
  BY <1>1, RequestShape DEF WellFormed
<1>3. handler'[h] = Idle /\ \A g \in Handlers : g # h => handler'[g] = handler[g]
  BY <1>1 DEF PoolInv, LoanInv
<1>4. \A g \in Handlers : handler'[g].op = "none"
  BY <1>1, <1>3, IdleShape DEF PoolInv, Founding
<1>5. Founding'
  BY <1>1, <1>4 DEF Founding
<1>6. WindDownInv'
  BY <1>1, <1>4 DEF WindDownInv
<1>7. disturbed' \in BOOLEAN
  BY <1>1 DEF PoolInv
<1>8. HandlerHolds(Idle) /\ StaysPut(h, Idle) /\ Fresh(h, Idle)
  BY <1>1, IdleMoves
<1> QED
  BY <1>1, <1>2, <1>5, <1>6, <1>7, <1>8, RowsOfPool

\* A member gets a row, and a request may end.
LEMMA ListKeeps ==
  ASSUME PoolInv, NEW m \in Members, ListMember(m), NEW h \in Handlers, NEW r,
         handler' = [handler EXCEPT ![h] = r], r = handler[h] \/ r = Idle,
         handler[h].op \in {"vote", "repay"} => r = handler[h], poolRow # "none"
  PROVE  PoolInv'
<1>1. /\ memberRows' = memberRows \cup {m}
      /\ disturbed' = (disturbed \/ (WindingDown /\ shares[m] > 0))
      /\ UNCHANGED <<poolRow, loanRow, voteRows, cronLoans, orphans, contract, lostClaims, forgiven, pardons>>
  BY DEF ListMember, history
<1>2. UNCHANGED <<shares, debt>>
  BY <1>1 DEF contract
<1>3. handler'[h] = r /\ \A g \in Handlers : g # h => handler'[g] = handler[g]
  BY DEF PoolInv, LoanInv
<1>4. HandlerHolds(r) /\ StaysPut(h, r) /\ Fresh(h, r)
  <2>1. CASE r = Idle
    <3>1. CASE handler[h].op \in {"vote", "repay"}
      BY <2>1, <3>1, IdleShape
    <3>2. CASE handler[h].op \notin {"vote", "repay"}
      BY <2>1, <3>2, IdleMoves
    <3> QED
      BY <3>1, <3>2
  <2>2. CASE r = handler[h]
    BY <2>2, RequestShape DEF StaysPut, Fresh, WellFormed
  <2> QED
    BY <2>1, <2>2
<1>5. Founding'
  BY <1>1, <1>3, IdleShape DEF PoolInv, Founding
<1>6. disturbed' \in BOOLEAN /\ (disturbed => disturbed')
  BY <1>1 DEF PoolInv, WindingDown
<1>7. poolRow' \in {"none", "open", "closed"} /\ memberRows' \subseteq Members /\ shares \in [Members -> Nat]
  BY <1>1 DEF PoolInv, TypeOK
<1>8. WindDownInv'
  <2>1. Lending => Lending'
    BY <1>2 DEF Lending
  <2>2. CASE disturbed' \/ Lending
    BY <2>1, <2>2, Zenon DEF WindDownInv
  <2>3. CASE ~disturbed' /\ ~Lending
    <3>1. /\ \A g \in Handlers : handler[g].op = "close" => Paid(handler[g])
          /\ poolRow = "closed" => \A x \in memberRows : shares[x] = 0
      BY <1>6, <2>3 DEF PoolInv, WindDownInv
    <3>2. ~WindingDown \/ shares[m] = 0
      <4>1. ~(WindingDown /\ shares[m] > 0)
        BY <1>1, <2>3, Zenon
      <4>2. shares[m] \in Nat
        BY <1>7
      <4> QED
        BY <4>1, <4>2
    <3>3. ASSUME NEW g \in Handlers, handler'[g].op = "close" PROVE Paid(handler[g])'
      <4>1. handler'[g] = handler[g]
        BY <1>3, <3>3, IdleShape
      <4>2. WindingDown /\ Paid(handler[g])
        BY <3>1, <3>3, <4>1 DEF WindingDown
      <4> QED
        BY <1>1, <1>2, <3>2, <4>1, <4>2 DEF Paid
    <3>4. poolRow' = "closed" => \A x \in memberRows' : shares'[x] = 0
      BY <1>1, <1>2, <3>1, <3>2 DEF WindingDown
    <3> QED
      BY <3>3, <3>4, Zenon DEF WindDownInv
  <2> QED
    BY <2>2, <2>3
<1> QED
  BY <1>1, <1>4, <1>5, <1>6, <1>7, <1>8, RowsOfPool

LEMMA MemberRows ==
  ASSUME PoolInv,
         \/ \E m \in Members : InviteMembers(m)
         \/ \E h \in Handlers : JoinRow(h) \/ DepositRow(h)
  PROVE  PoolInv'
<1>1. ASSUME NEW m \in Members, InviteMembers(m) PROVE PoolInv'
  <2>1. PICK h \in Handlers : TRUE
    BY PoolAssumption
  <2>2. PICK r : r = handler[h]
    OBVIOUS
  <2>3. ListMember(m) /\ handler' = handler /\ poolRow # "none"
    BY <1>1 DEF InviteMembers
  <2>4. handler' = [handler EXCEPT ![h] = r]
    BY <2>2, <2>3 DEF PoolInv, LoanInv
  <2> QED
    BY <2>2, <2>3, <2>4, ListKeeps
<1>2. ASSUME NEW h \in Handlers, JoinRow(h) \/ DepositRow(h) PROVE PoolInv'
  <2>1. /\ handler[h].op \in {"join", "deposit"} /\ handler' = [handler EXCEPT ![h] = Idle]
        /\ ListMember(handler[h].who)
    BY <1>2 DEF JoinRow, DepositRow, At
  <2>2. handler[h].who \in Members
    BY RequestShape
  <2>3. poolRow # "none"
    BY <2>1 DEF PoolInv, Founding
  <2>4. PICK r : r = Idle
    OBVIOUS
  <2> QED
    BY <2>1, <2>2, <2>3, <2>4, ListKeeps
<1> QED
  BY <1>1, <1>2

LEMMA CloseKeeps ==
  ASSUME PoolInv, NEW h \in Handlers, CloseFinish(h) PROVE PoolInv'
<1>1. /\ handler[h].op = "close" /\ handler[h].at = "visit" /\ handler[h].group = {}
      /\ handler' = [handler EXCEPT ![h] = Idle]
      /\ UNCHANGED <<loanRow, voteRows, cronLoans, contract, orphans, lostClaims, forgiven, pardons, disturbed,
                     memberRows>>
      /\ poolRow' = IF handler[h].yes THEN poolRow ELSE "closed"
  BY DEF CloseFinish, At, Finish, chain, history
<1>2. UNCHANGED <<shares, debt>>
  BY <1>1 DEF contract
<1>3. handler'[h] = Idle /\ \A g \in Handlers : g # h => handler'[g] = handler[g]
  BY <1>1 DEF PoolInv, LoanInv
<1>4. poolRow # "none" /\ poolRow' # "none"
  BY <1>1 DEF PoolInv, Founding
<1>5. Founding'
  BY <1>3, <1>4, IdleShape DEF PoolInv, Founding
<1>6. poolRow' \in {"none", "open", "closed"} /\ memberRows' \subseteq Members /\ disturbed' \in BOOLEAN
  BY <1>1 DEF PoolInv, TypeOK
<1>7. WindDownInv'
  <2>1. (Lending => Lending') /\ (disturbed => disturbed')
    BY <1>1, <1>2 DEF Lending
  <2>2. CASE disturbed \/ Lending
    BY <2>1, <2>2, Zenon DEF WindDownInv
  <2>3. CASE ~disturbed /\ ~Lending
    <3>1. /\ \A g \in Handlers : handler[g].op = "close" => Paid(handler[g])
          /\ poolRow = "closed" => \A x \in memberRows : shares[x] = 0
      BY <2>3 DEF PoolInv, WindDownInv
    <3>2. ASSUME NEW g \in Handlers, handler'[g].op = "close" PROVE Paid(handler[g])'
      <4>1. handler'[g] = handler[g]
        BY <1>3, <3>2, IdleShape
      <4>2. Paid(handler[g])
        BY <3>1, <3>2, <4>1
      <4> QED
        BY <1>1, <1>2, <4>1, <4>2 DEF Paid
    <3>3. poolRow' = "closed" => \A x \in memberRows' : shares'[x] = 0
      BY <1>1, <1>2, <3>1 DEF Paid
    <3> QED
      BY <3>2, <3>3, Zenon DEF WindDownInv
  <2> QED
    BY <2>2, <2>3
<1>8. HandlerHolds(Idle) /\ StaysPut(h, Idle) /\ Fresh(h, Idle)
  BY <1>1, IdleMoves
<1> QED
  BY <1>1, <1>5, <1>6, <1>7, <1>8, RowsOfPool

-----------------------------------------------------------------------------
(* Transactions land.                                                      *)

LEMMA DebtsKept ==
  ASSUME NEW tx, DebtsGrow(tx), tx.op = "request" => debt[tx.loan] = NoDebt, NEW l \in Loans
  PROVE  /\ debt[l].ayes \subseteq debt'[l].ayes /\ debt[l].noes \subseteq debt'[l].noes
         /\ debt[l].state = "repaid" => debt'[l].state = "repaid"
         /\ debt[l] = NoDebt /\ (tx.op = "request" => l # tx.loan) => debt'[l] = NoDebt
BY NoDebtShape DEF DebtsGrow

\* The request that waits for the transaction, or any other when nobody does.
Waits(h, r, tx) ==
  \/ r = handler[h]
  \/ /\ handler[h].at = "sent" /\ r.at = "landed" /\ SameRequest(r, handler[h])
     /\ tx.who = r.who /\ tx.amount = r.amount /\ (r.op = "close" => tx.op = "withdraw")

\* Money that leaves during a wind-down is somebody's share.
LEMMA WindDownKept ==
  ASSUME PoolInv, NEW tx, SharesFall(tx), ChainShapes', NEW h \in Handlers, NEW r,
         handler' = [handler EXCEPT ![h] = r], Waits(h, r, tx), UNCHANGED <<poolRow, memberRows>>
  PROVE  WindDownInv'
<1>1. handler'[h] = r /\ \A g \in Handlers : g # h => handler'[g] = handler[g]
  BY DEF PoolInv, LoanInv
<1>2. r.op = handler[h].op
  BY DEF Waits, SameRequest
<1>3. /\ memberRows \subseteq Members /\ shares \in [Members -> Nat] /\ shares' \in [Members -> Nat]
      /\ handler[h].amount \in Nat /\ \A g \in Handlers : handler[g].amount \in Nat
  BY RequestShape DEF PoolInv, TypeOK, ChainShapes
<1>4. CASE disturbed' \/ Lending'
  BY <1>4, Zenon DEF WindDownInv
<1>5. CASE ~WindingDown
  BY <1>1, <1>2, <1>5 DEF WindDownInv, WindingDown
<1>6. CASE ~disturbed' /\ ~Lending' /\ WindingDown
  <2>1. /\ ~disturbed /\ ~Lending
        /\ \A m \in Members : shares'[m] <= shares[m]
        /\ tx.op = "withdraw" => shares'[tx.who] = shares[tx.who] - tx.amount
    BY <1>6 DEF SharesFall
  <2>2. /\ \A g \in Handlers : handler[g].op = "close" => Paid(handler[g])
        /\ poolRow = "closed" => \A m \in memberRows : shares[m] = 0
    BY <2>1 DEF PoolInv, WindDownInv
  <2>3. ASSUME NEW g \in Handlers, handler'[g].op = "close", NEW m \in memberRows
        PROVE  \/ m \in handler'[g].group \/ handler'[g].yes \/ shares'[m] = 0
               \/ handler'[g].at = "sent" /\ handler'[g].who = m /\ shares'[m] <= handler'[g].amount
    <3>1. /\ shares[m] \in Nat /\ shares'[m] \in Nat /\ shares'[m] <= shares[m]
          /\ handler[g].amount \in Nat
      BY <1>3, <2>1
    <3>2. handler[g].op = "close"
      BY <1>1, <1>2, <2>3
    <3>3. \/ m \in handler[g].group \/ handler[g].yes \/ shares[m] = 0
          \/ handler[g].at = "sent" /\ handler[g].who = m /\ shares[m] <= handler[g].amount
      BY <2>2, <3>2 DEF Paid
    <3>4. CASE handler'[g] = handler[g]
      BY <3>1, <3>3, <3>4
    <3>5. CASE handler'[g] # handler[g]
      <4>1. /\ g = h /\ SameRequest(r, handler[h]) /\ tx.who = r.who /\ tx.amount = r.amount
            /\ r.op = "close" /\ tx.op = "withdraw" /\ handler'[g] = r
        BY <1>1, <1>2, <3>2, <3>5 DEF Waits
      <4>2. /\ r.group = handler[g].group /\ r.yes = handler[g].yes /\ r.who = handler[g].who
            /\ r.amount = handler[g].amount
        BY <4>1 DEF SameRequest
      <4>3. CASE handler[g].who = m /\ shares[m] <= handler[g].amount
        <5>1. shares'[m] = shares[m] - handler[g].amount
          BY <2>1, <4>1, <4>2, <4>3
        <5>2. shares'[m] = 0
          BY <3>1, <4>3, <5>1
        <5> QED
          BY <5>2
      <4> QED
        BY <3>1, <3>3, <4>1, <4>2, <4>3
    <3> QED
      BY <3>4, <3>5
  <2>4. \A g \in Handlers : handler'[g].op = "close" => Paid(handler[g])'
    BY <2>3 DEF Paid
  <2>5. poolRow' = "closed" => \A m \in memberRows' : shares'[m] = 0
    <3> SUFFICES ASSUME poolRow = "closed", NEW m \in memberRows PROVE shares'[m] = 0
      OBVIOUS
    <3>1. shares[m] = 0 /\ shares'[m] \in Nat /\ shares'[m] <= shares[m]
      BY <1>3, <2>1, <2>2
    <3> QED
      BY <3>1
  <2> QED
    BY <2>4, <2>5, Zenon DEF WindDownInv
<1> QED
  BY <1>4, <1>5, <1>6

LEMMA CallLands ==
  ASSUME PoolInv, NEW tx, OrphanHolds(tx), Execute(tx), NEW h \in Handlers, NEW r,
         handler' = [handler EXCEPT ![h] = r], Waits(h, r, tx),
         UNCHANGED <<poolRow, memberRows, loanRow, voteRows, cronLoans, lostClaims, forgiven, pardons>>,
         orphans' \subseteq orphans, HandlerHolds(r)', StaysPut(h, r), Fresh(h, r),
         tx.op = "request" =>
           /\ \A g \in Handlers : g # h /\ handler[g].op \in NewOps => handler[g].loan # tx.loan
           /\ \A ty \in orphans' : ty.op = "request" => ty.loan # tx.loan
  PROVE  PoolInv'
<1>1. Calling(tx)
  BY DEF Calling, OrphanHolds, PoolInv, LoanInv
<1>2. ChainShapes' /\ DebtsGrow(tx) /\ SharesFall(tx)
  BY <1>1, CallEffect
<1>3. tx.op = "request" => debt[tx.loan] = NoDebt
  BY DEF OrphanHolds
<1>4. ASSUME NEW l \in Loans
      PROVE  /\ debt[l].ayes \subseteq debt'[l].ayes /\ debt[l].noes \subseteq debt'[l].noes
             /\ debt[l].state = "repaid" => debt'[l].state = "repaid"
             /\ debt[l] = NoDebt /\ (tx.op = "request" => l # tx.loan) => debt'[l] = NoDebt
  BY <1>2, <1>3, DebtsKept
<1>5. ASSUME NEW g \in Handlers, g # h PROVE Kept(handler[g])
  <2>1. PICK q : q = handler[g]
    OBVIOUS
  <2>2. HandlerHolds(q) /\ WellFormed(q)
    BY <2>1 DEF PoolInv, LoanInv, HandlerHolds
  <2>3. q.op \in RowOps \cup NewOps => q.loan \in Loans
    BY <2>2 DEF WellFormed, LoanOps
  <2>4. Kept(q)
    BY <1>4, <1>5, <2>1, <2>2, <2>3 DEF Kept, HandlerHolds, RowOps
  <2> QED
    BY <2>1, <2>4
<1>6. ASSUME NEW ty \in orphans' PROVE OrphanHolds(ty)'
  <2>1. PICK tz : tz = ty
    OBVIOUS
  <2>2. tz \in orphans /\ OrphanHolds(tz)
    BY <2>1 DEF PoolInv, LoanInv
  <2>3. tz.op = "request" => tz.loan \in Loans
    BY <2>2 DEF OrphanHolds, TxFormed, LoanOps, NewOps
  <2>4. tz.op = "request" => loanRow'[tz.loan].status = "NONE" /\ debt'[tz.loan] = NoDebt
    BY <1>4, <2>1, <2>2, <2>3 DEF OrphanHolds
  <2>5. tz.op \in RowOps => loanRow'[tz.loan].status # "NONE"
    BY <2>2 DEF OrphanHolds
  <2>6. OrphanHolds(tz)'
    BY <2>2, <2>4, <2>5, OrphanKept
  <2> QED
    BY <2>1, <2>6
<1>7. ASSUME NEW l \in Loans PROVE DebtHolds(l)' /\ LoanHolds(l)'
  <2>1. DebtHolds(l)'
    BY <1>2 DEF ChainShapes
  <2>2. RowKept(h, r, l)
    BY RowAtRest
  <2>3. LoanHolds(l)'
    BY <1>4, <2>2, LoanKept
  <2> QED
    BY <2>1, <2>3
<1>8. Left(h, r)
  BY DEF Left
<1>9. LoanInv'
  BY <1>5, <1>6, <1>7, <1>8, LoanStep
<1>10. handler'[h] = r /\ (\A g \in Handlers : g # h => handler'[g] = handler[g])
       /\ r.op = handler[h].op
  BY DEF PoolInv, LoanInv, Waits, SameRequest
<1>11. Founding'
  BY <1>10 DEF PoolInv, Founding
<1>12. WindDownInv'
  BY <1>2, WindDownKept
<1>13. TypeOK' /\ disturbed' \in BOOLEAN
  BY <1>2 DEF PoolInv, TypeOK, ChainShapes, DebtRecords
<1> QED
  BY <1>9, <1>11, <1>12, <1>13 DEF PoolInv

LEMMA LandKeeps ==
  ASSUME PoolInv, NEW h \in Handlers, Land(h) PROVE PoolInv'
<1>1. /\ handler[h].at = "sent" /\ Execute(Transaction(h))
      /\ UNCHANGED <<poolRow, memberRows, loanRow, voteRows, cronLoans, lostClaims, forgiven, pardons, orphans>>
  BY DEF Land, db, history
<1>2. handler[h] \in HandlerRecords /\ HandlerHolds(handler[h]) /\ WellFormed(handler[h])
  BY RequestShape
<1>3. PICK tx : tx = Transaction(h)
  OBVIOUS
<1>4. /\ OrphanHolds(tx) /\ tx.loan = handler[h].loan
      /\ tx.op = "request" <=> handler[h].op = "request"
      /\ tx.op = "repay" <=> handler[h].op = "repay"
      /\ tx.op = "vote" <=> handler[h].op = "vote"
      /\ tx.op \in {"vote", "repay"} => tx.yes = handler[h].yes
      /\ tx.who = handler[h].who /\ tx.amount = handler[h].amount
      /\ handler[h].op = "close" => tx.op = "withdraw"
  BY <1>1, <1>2, <1>3, TransactionHolds
<1>5. PICK r \in HandlerRecords :
        /\ handler' = [handler EXCEPT ![h] = r] /\ r.at = "landed" /\ SameRequest(r, handler[h])
        /\ r.status = handler[h].status
  <2>1. PICK id \in BOOLEAN : handler' = [handler EXCEPT ![h].at = "landed", ![h].hasId = id]
    <3>1. handler' = [handler EXCEPT ![h].at = "landed",
                        ![h].hasId = handler[h].hasId \/ Decides(Transaction(h))]
      BY DEF Land
    <3>2. (handler[h].hasId \/ Decides(Transaction(h))) \in BOOLEAN
      BY Zenon
    <3> QED
      BY <3>1, <3>2, Zenon
  <2>2. PICK r : r = [handler[h] EXCEPT !.at = "landed", !.hasId = id]
    OBVIOUS
  <2>3. r \in HandlerRecords /\ r.at = "landed" /\ SameRequest(r, handler[h])
        /\ r.status = handler[h].status
    BY <1>2, <2>2 DEF HandlerRecords, Places, SameRequest
  <2>4. handler' = [handler EXCEPT ![h] = r]
    BY <1>2, <2>1, <2>2 DEF HandlerRecords, PoolInv, LoanInv
  <2> QED
    BY <2>3, <2>4
<1>6. /\ r.op = handler[h].op /\ r.loan = handler[h].loan /\ r.who = handler[h].who
      /\ r.yes = handler[h].yes /\ r.amount = handler[h].amount /\ r.group = handler[h].group
  BY <1>5 DEF SameRequest
<1>7. Waits(h, r, tx)
  BY <1>1, <1>4, <1>5, <1>6 DEF Waits
<1>8. DebtsGrow(tx)
  <2>1. Calling(tx) /\ Execute(tx)
    BY <1>1, <1>3, <1>4 DEF Calling, OrphanHolds, PoolInv, LoanInv
  <2> QED
    BY <2>1, CallEffect
<1>9. HandlerHolds(r)'
  <2>1. WellFormed(r)
    BY <1>1, <1>2, <1>5, <1>6 DEF WellFormed
  <2>2. WellFormed(r)'
    BY <2>1 DEF WellFormed
  <2>3. r.op = "repay" /\ r.yes => debt'[r.loan].state = "repaid"
    BY <1>4, <1>6, <1>8 DEF DebtsGrow
  <2>4. r.op = "vote" => r.who \in IF r.yes THEN debt'[r.loan].ayes ELSE debt'[r.loan].noes
    BY <1>4, <1>6, <1>8 DEF DebtsGrow
  <2>5. r.op = "vote" => voteRows'[r.loan][r.who] = Ballot(r.yes)
    BY <1>1, <1>2, <1>6 DEF HandlerHolds
  <2>6. (r.op = "vote" => /\ voteRows[r.loan][r.who] = Ballot(r.yes)
                          /\ Recorded(r.loan, r.who, Ballot(r.yes)))'
    BY <2>4, <2>5 DEF Recorded, Ballot
  <2> QED
    BY <1>1, <1>2, <1>5, <1>6, <2>2, <2>3, <2>6 DEF HandlerHolds
<1>10. StaysPut(h, r) /\ Fresh(h, r)
  BY <1>1, <1>5, <1>6 DEF StaysPut, Fresh
<1>11. tx.op = "request" =>
         /\ \A g \in Handlers : g # h /\ handler[g].op \in NewOps => handler[g].loan # tx.loan
         /\ \A ty \in orphans' : ty.op = "request" => ty.loan # tx.loan
  BY <1>1, <1>4 DEF PoolInv, LoanInv, Apart, NewOps
<1> QED
  BY <1>1, <1>3, <1>4, <1>5, <1>7, <1>9, <1>10, <1>11, CallLands

LEMMA OrphanLands ==
  ASSUME PoolInv, NEW tx \in orphans, LandOrphan(tx) PROVE PoolInv'
<1>1. PICK h \in Handlers : TRUE
  BY PoolAssumption
<1>2. /\ UNCHANGED <<poolRow, memberRows, loanRow, voteRows, cronLoans, lostClaims, forgiven, pardons, handler>>
      /\ orphans' = orphans \ {tx} /\ Execute(tx)
  BY DEF LandOrphan, db, history
<1>3. PICK r \in HandlerRecords :
           /\ r = handler[h] /\ handler' = [handler EXCEPT ![h] = r] /\ HandlerHolds(r)
           /\ StaysPut(h, r) /\ Fresh(h, r) /\ Founded(h, r)
           /\ disturbed \/ Lending \/ (r.op = "close" => Paid(r))
  BY <1>1, <1>2, StandsStill
<1>4. OrphanHolds(tx) /\ (tx.op = "request" => debt[tx.loan] = NoDebt)
  BY DEF PoolInv, LoanInv, OrphanHolds
<1>5. DebtsGrow(tx)
  <2>1. Calling(tx) /\ Execute(tx)
    BY <1>2, <1>4 DEF Calling, OrphanHolds, PoolInv, LoanInv
  <2> QED
    BY <2>1, CallEffect
<1>6. tx.op = "request" =>
         /\ \A g \in Handlers : handler[g].op \in NewOps => handler[g].loan # tx.loan
         /\ \A ty \in orphans' : ty.op = "request" => ty.loan # tx.loan
  BY <1>2 DEF PoolInv, LoanInv, Apart
<1>7. HandlerHolds(r)'
  <2>1. r.op \in RowOps \cup NewOps => r.loan \in Loans
    BY <1>3 DEF HandlerHolds, WellFormed, LoanOps
  <2>2. Kept(r)
    <3>1. CASE r.op \in RowOps \cup NewOps
      <4>1. /\ debt[r.loan].ayes \subseteq debt'[r.loan].ayes
            /\ debt[r.loan].noes \subseteq debt'[r.loan].noes
            /\ debt[r.loan].state = "repaid" => debt'[r.loan].state = "repaid"
            /\ debt[r.loan] = NoDebt /\ (tx.op = "request" => r.loan # tx.loan) => debt'[r.loan] = NoDebt
        BY <1>4, <1>5, <2>1, <3>1, DebtsKept
      <4> QED
        BY <1>2, <1>3, <1>6, <4>1 DEF Kept, HandlerHolds
    <3>2. CASE r.op \notin RowOps \cup NewOps
      BY <3>2 DEF Kept, RowOps
    <3> QED
      BY <3>1, <3>2
  <2> QED
    BY <1>3, <2>2, KeptHolds
<1>8. Waits(h, r, tx)
  BY <1>3 DEF Waits
<1> QED
  BY <1>2, <1>3, <1>4, <1>6, <1>7, <1>8, CallLands

-----------------------------------------------------------------------------
(* The invariant, and what follows from it.                                *)

\* A sum with one term.
LEMMA SumOne ==
  ASSUME NEW S, IsFiniteSet(S), NEW f, NEW y \in S, f[y] \in Int, \A x \in S : x # y => f[x] = 0
  PROVE  SumOf(f, S) = f[y]
<1>1. \A x \in S : f[x] \in Int
  OBVIOUS
<1>2. SumOf(f, S) = f[y] + SumOf(f, S \ {y})
  BY <1>1, SumTake
<1>3. IsFiniteSet(S \ {y}) /\ \A x \in S \ {y} : f[x] = 0
  BY FS_Subset
<1>4. SumOf(f, S \ {y}) = 0
  BY <1>3, SumZero
<1> QED
  BY <1>2, <1>4

\* The loan a behaviour may begin with.
LEMMA FirstLoan ==
  ASSUME Init
  PROVE  /\ loanRow \in [Loans -> RowRecords] /\ debt \in [Loans -> DebtRecords]
         /\ \A l \in Loans : DebtHolds(l)
         /\ \A l \in Loans : \/ loanRow[l] = NoRow /\ debt[l] = NoDebt
                             \/ /\ loanRow[l].status = "EXECUTED" /\ loanRow[l].deadline = "ahead"
         /\ TotalOwed = IF workload.from = "loan" THEN Principal ELSE 0
<1>1. NoRow \in RowRecords /\ NoDebt \in DebtRecords /\ NoDebt.state = "none" /\ NoDebt.owed = 0
  BY NoDebtShape, PoolAssumption DEF NoRow, RowRecords, Outstanding
<1>2. TotalOwed = SumOf(Owed, Loans) /\ IsFiniteSet(Loans) /\ Principal \in Nat /\ Principal > 0
  BY OwedAdded, PoolAssumption
<1>3. CASE /\ workload.from # "loan"
           /\ loanRow = [l \in Loans |-> NoRow] /\ debt = [l \in Loans |-> NoDebt]
  <2>1. \A l \in Loans : Owed[l] = 0
    BY <1>1, <1>3 DEF Owed
  <2>2. TotalOwed = 0
    BY <1>2, <2>1, SumZero
  <2> QED
    BY <1>1, <1>3, <2>2 DEF DebtHolds
<1>4. ASSUME workload.from = "loan", NEW b \in memberRows \ {Creator}, NEW l \in Requests,
             NEW voters \in SUBSET (memberRows \ {b}),
             loanRow = [x \in Loans |-> IF x = l
                  THEN [NoRow EXCEPT !.status = "EXECUTED", !.borrower = b, !.hasId = TRUE,
                                     !.deadline = "ahead"]
                  ELSE NoRow],
             debt = [x \in Loans |-> IF x = l
                  THEN [NoDebt EXCEPT !.state = "funded", !.borrower = b, !.ayes = voters,
                                      !.owed = Principal]
                  ELSE NoDebt]
      PROVE  /\ loanRow \in [Loans -> RowRecords] /\ debt \in [Loans -> DebtRecords]
             /\ \A x \in Loans : DebtHolds(x)
             /\ \A x \in Loans : \/ loanRow[x] = NoRow /\ debt[x] = NoDebt
                                 \/ /\ loanRow[x].status = "EXECUTED" /\ loanRow[x].deadline = "ahead"
             /\ TotalOwed = Principal
  <2>1. l \in Loans /\ memberRows \subseteq Members /\ b \in Members /\ voters \in SUBSET Members
    BY PoolAssumption DEF Init
  <2>2. PICK row : row = [NoRow EXCEPT !.status = "EXECUTED", !.borrower = b, !.hasId = TRUE,
                                     !.deadline = "ahead"]
    OBVIOUS
  <2>3. row \in RowRecords /\ row.status = "EXECUTED" /\ row.deadline = "ahead"
    BY <1>1, <2>1, <2>2 DEF RowRecords, Outstanding
  <2>4. PICK d : d = [NoDebt EXCEPT !.state = "funded", !.borrower = b, !.ayes = voters,
                                    !.owed = Principal]
    OBVIOUS
  <2>5. d \in DebtRecords /\ d.state = "funded" /\ d.owed = Principal
    <3>1. Principal \in 0 .. Principal
      BY <1>2
    <3> QED
      BY <1>1, <2>1, <2>4, <3>1 DEF DebtRecords
  <2>6. /\ loanRow \in [Loans -> RowRecords] /\ debt \in [Loans -> DebtRecords]
        /\ loanRow[l] = row /\ debt[l] = d
        /\ \A x \in Loans : x # l => loanRow[x] = NoRow /\ debt[x] = NoDebt
    BY <1>1, <1>4, <2>1, <2>2, <2>3, <2>4, <2>5
  <2>7. Owed[l] = Principal /\ \A x \in Loans : x # l => Owed[x] = 0
    BY <1>1, <2>1, <2>5, <2>6 DEF Owed
  <2>8. TotalOwed = Principal
    BY <1>2, <2>1, <2>7, SumOne
  <2> QED
    BY <1>1, <1>2, <2>3, <2>5, <2>6, <2>8 DEF DebtHolds
<1>5. CASE workload.from = "loan"
  <2>1. PICK b \in memberRows \ {Creator}, l \in Requests :
           \E voters \in SUBSET (memberRows \ {b}) :
             /\ loanRow = [x \in Loans |-> IF x = l
                  THEN [NoRow EXCEPT !.status = "EXECUTED", !.borrower = b, !.hasId = TRUE,
                                     !.deadline = "ahead"]
                  ELSE NoRow]
             /\ debt = [x \in Loans |-> IF x = l
                  THEN [NoDebt EXCEPT !.state = "funded", !.borrower = b, !.ayes = voters,
                                      !.owed = Principal]
                  ELSE NoDebt]
    BY <1>5, Zenon DEF Init
  <2>2. PICK voters \in SUBSET (memberRows \ {b}) :
             /\ loanRow = [x \in Loans |-> IF x = l
                  THEN [NoRow EXCEPT !.status = "EXECUTED", !.borrower = b, !.hasId = TRUE,
                                     !.deadline = "ahead"]
                  ELSE NoRow]
             /\ debt = [x \in Loans |-> IF x = l
                  THEN [NoDebt EXCEPT !.state = "funded", !.borrower = b, !.ayes = voters,
                                      !.owed = Principal]
                  ELSE NoDebt]
    BY <2>1, Zenon
  <2>3. /\ loanRow \in [Loans -> RowRecords] /\ debt \in [Loans -> DebtRecords]
        /\ \A x \in Loans : DebtHolds(x)
        /\ \A x \in Loans : \/ loanRow[x] = NoRow /\ debt[x] = NoDebt
                            \/ /\ loanRow[x].status = "EXECUTED" /\ loanRow[x].deadline = "ahead"
        /\ TotalOwed = Principal
    BY <1>4, <1>5, <2>2, Zenon
  <2> QED
    BY <1>5, <2>3, Zenon
<1> QED
  BY <1>3, <1>5, Zenon DEF Init

LEMMA FirstPool == Init => PoolInv
<1> SUFFICES ASSUME Init PROVE PoolInv
  OBVIOUS
<1>1. /\ loanRow \in [Loans -> RowRecords] /\ debt \in [Loans -> DebtRecords]
      /\ \A l \in Loans : DebtHolds(l)
      /\ \A l \in Loans : \/ loanRow[l] = NoRow /\ debt[l] = NoDebt
                          \/ /\ loanRow[l].status = "EXECUTED" /\ loanRow[l].deadline = "ahead"
      /\ TotalOwed = IF workload.from = "loan" THEN Principal ELSE 0
  BY FirstLoan
<1>2. /\ workload.from \in {"nothing", "deposit", "loan"} /\ memberRows \subseteq Members
      /\ poolRow = IF workload.from = "nothing" THEN "none" ELSE "open"
      /\ IF workload.from = "nothing" THEN memberRows = {} ELSE Creator \in memberRows
      /\ shares = [m \in Members |-> IF m = Creator /\ m \in memberRows THEN Principal ELSE 0]
      /\ balance = IF workload.from = "deposit" THEN Principal ELSE 0
      /\ voteRows = [l \in Loans |-> [m \in Members |-> IF m \in debt[l].ayes THEN "yes" ELSE "none"]]
      /\ chainMembers = memberRows /\ cronLoans = {} /\ orphans = {} /\ disturbed = FALSE
      /\ handler = [h \in Handlers |-> Idle]
  BY PoolAssumption DEF Init
<1>3. /\ IsFiniteSet(Members) /\ Creator \in Members /\ Principal \in Nat
      /\ TotalShares = SumOf(shares, Members)
  BY PoolAssumption, SharesAdded
<1>4. shares \in [Members -> Nat] /\ balance \in Nat
  BY <1>2, <1>3
<1>5. TotalShares = IF workload.from = "nothing" THEN 0 ELSE Principal
  <2>1. CASE workload.from = "nothing"
    <3>1. \A m \in Members : shares[m] = 0
      BY <1>2, <2>1
    <3>2. SumOf(shares, Members) = 0
      BY <1>3, <3>1, SumZero
    <3> QED
      BY <1>3, <2>1, <3>2
  <2>2. CASE workload.from # "nothing"
    <3>1. shares[Creator] = Principal /\ \A m \in Members : m # Creator => shares[m] = 0
      BY <1>2, <1>3, <2>2
    <3>2. SumOf(shares, Members) = Principal
      BY <1>3, <3>1, SumOne
    <3> QED
      BY <1>3, <2>2, <3>2
  <2> QED
    BY <2>1, <2>2
<1>6. TotalShares = balance + TotalOwed
  <2>1. CASE workload.from = "nothing"
    BY <1>1, <1>2, <1>5, <2>1
  <2>2. CASE workload.from = "deposit"
    BY <1>1, <1>2, <1>3, <1>5, <2>2
  <2>3. CASE workload.from = "loan"
    BY <1>1, <1>2, <1>3, <1>5, <2>3
  <2> QED
    BY <1>2, <2>1, <2>2, <2>3
<1>7. voteRows \in Ballots
  BY <1>2 DEF Ballots
<1>8. TypeOK
  BY <1>1, <1>2, <1>4, <1>6, <1>7 DEF TypeOK, RowRecords, DebtRecords, Ballots
<1>9. \A h \in Handlers : handler[h] = Idle /\ handler[h].op = "none" /\ HandlerHolds(handler[h])
  BY <1>2, IdleShape, IdleHolds
<1>10. ASSUME NEW l \in Loans PROVE LoanHolds(l)
  <2>1. loanRow[l].status = "NONE" \/ loanRow[l].status = "EXECUTED"
    BY <1>1 DEF NoRow
  <2>2. loanRow[l].status = "NONE" => debt[l].ayes = {}
    BY <1>1, NoDebtShape
  <2>3. loanRow[l].status = "NONE" => \A m \in Members : voteRows[l][m] = "none"
    BY <1>2, <2>2
  <2>4. \A m \in Members : voteRows[l][m] # "none" => Recorded(l, m, voteRows[l][m])
    BY <1>2 DEF Recorded
  <2> QED
    BY <2>1, <2>3, <2>4 DEF LoanHolds
<1>11. handler \in [Handlers -> HandlerRecords]
  BY <1>2, IdleShape
<1>12. Apart
  BY <1>2, <1>9 DEF Apart, NewOps
<1>13. LoanInv
  BY <1>1, <1>2, <1>9, <1>10, <1>11, <1>12 DEF LoanInv
<1>14. Founding
  BY <1>9 DEF Founding
<1>15. WindDownInv
  BY <1>2, <1>9 DEF WindDownInv
<1> QED
  BY <1>2, <1>8, <1>13, <1>14, <1>15 DEF PoolInv

LEMMA PoolStep == PoolInv /\ [Next]_vars => PoolInv'
<1> SUFFICES ASSUME PoolInv, [Next]_vars PROVE PoolInv'
  OBVIOUS
<1>1. ASSUME NEW h \in Handlers, Begin(h) PROVE PoolInv'
  <2>1. CASE \/ \E group \in SUBSET Members : BeginCreate(h, group)
             \/ \E m \in Members : BeginJoin(h, m) \/ BeginDeposit(h, m) \/ BeginWithdraw(h, m)
             \/ BeginClose(h)
    BY <2>1, CustodyBegins
  <2>2. ASSUME NEW m \in Members, NEW l \in Loans, BeginRequest(h, m, l) \/ BeginWriteOff(h, m, l)
        PROVE  PoolInv'
    BY <2>2, LoanBegins
  <2>3. ASSUME NEW m \in Members, NEW l \in Loans, NEW approve \in BOOLEAN, BeginVote(h, m, l, approve)
        PROVE  PoolInv'
    BY <2>3, LoanBegins
  <2>4. Creator \in Members
    BY PoolAssumption
  <2>5. ASSUME NEW l \in Loans, NEW deadline \in {"none", "ahead", "past"}, BeginExecute(h, l, deadline)
        PROVE  PoolInv'
    BY <2>4, <2>5, LoanBegins
  <2>6. ASSUME NEW l \in Loans, NEW settles \in BOOLEAN, BeginRepay(h, l, settles) PROVE PoolInv'
    BY <2>4, <2>6, LoanBegins
  <2>7. ASSUME NEW l \in Loans, NEW row \in Loans, BeginExtension(h, l, row) PROVE PoolInv'
    BY <2>4, <2>7, LoanBegins
  <2> QED
    BY <1>1, <2>1, <2>2, <2>3, <2>5, <2>6, <2>7 DEF Begin
<1>2. ASSUME NEW h \in Handlers, Continue(h) PROVE PoolInv'
  <2>1. CASE CreateRow(h)
    BY <2>1, CreateKeeps
  <2>2. CASE JoinRow(h) \/ DepositRow(h)
    BY <2>2, MemberRows
  <2>3. CASE CheckOutstanding(h) \/ CountVotes(h) \/ VoteOnLoanOnChain(h) \/ WithdrawRow(h)
               \/ WriteOffCount(h)
    BY <2>3, RequestMoves
  <2>4. CASE CloseReturned(h) \/ \E m \in Members : CloseVisit(h, m)
    BY <2>4, CloseMoves
  <2>5. CASE CloseFinish(h)
    BY <2>5, CloseKeeps
  <2>6. CASE RequestRow(h) \/ ExtensionRow(h)
    BY <2>6, NewRow
  <2>7. CASE VoteRow(h) \/ WriteOffRow(h)
    BY <2>7, RecordVote
  <2>8. CASE VoteResult(h) \/ VoteFailed(h)
    BY <2>8, VoteEnds
  <2>9. CASE ExecuteExtension(h) \/ ExtensionDone(h) \/ ExecuteClaim(h) \/ ExecuteRelease(h)
    BY <2>9, ExecuteSteps
  <2>10. CASE RepayClaim(h) \/ RepayRow(h) \/ RepayFailed(h) \/ WriteOffClose(h)
    BY <2>10, RepaySteps
  <2>11. CASE Land(h)
    BY <2>11, LandKeeps
  <2>12. CASE Refuse(h) \/ LoseReceipt(h)
    BY <2>12, CallLost
  <2>13. CASE Abort(h)
    BY <2>13, AbortKeeps
  <2> QED
    BY <1>2, <2>1, <2>2, <2>3, <2>4, <2>5, <2>6, <2>7, <2>8, <2>9, <2>10, <2>11, <2>12, <2>13
    DEF Continue
<1>3. CASE \E m \in Members : InviteMembers(m)
  BY <1>3, MemberRows
<1>4. CASE CronRead \/ \E l \in Loans : CronMark(l) \/ DeadlinePasses(l)
  BY <1>4, CronSteps
<1>5. CASE \E tx \in orphans : LandOrphan(tx) \/ DropOrphan(tx)
  BY <1>5, OrphanLands, DropKeeps
<1>6. CASE UNCHANGED vars
  <2>1. PICK h \in Handlers : TRUE
    BY PoolAssumption
  <2>2. /\ UNCHANGED <<poolRow, memberRows, loanRow, voteRows, cronLoans, contract, disturbed>>
        /\ UNCHANGED <<lostClaims, forgiven, pardons, handler, orphans>>
    BY <1>6 DEF vars, db, chain, history
  <2>3. PICK r \in HandlerRecords :
           /\ r = handler[h] /\ handler' = [handler EXCEPT ![h] = r] /\ HandlerHolds(r)
           /\ StaysPut(h, r) /\ Fresh(h, r) /\ Founded(h, r)
           /\ disturbed \/ Lending \/ (r.op = "close" => Paid(r))
    BY <2>1, <2>2, StandsStill
  <2>4. Left(h, r)
    BY <2>2 DEF Left
  <2> QED
    BY <2>2, <2>3, <2>4, HandlerStep
<1> QED
  BY <1>1, <1>2, <1>3, <1>4, <1>5, <1>6 DEF Next

\* The inductive invariant holds throughout.
THEOREM PoolInvariant == Spec => []PoolInv
<1> QED
  BY FirstPool, PoolStep, PTL DEF Spec

\* The rows, the requests and the contract keep their shape, and the contract
\* owns what its members put in: shares are the liquid balance plus what is
\* lent, through every deposit, withdrawal, loan and instalment.
THEOREM BooksBalance == Spec => []TypeOK
<1>1. PoolInv => TypeOK
  BY DEF PoolInv
<1> QED
  BY <1>1, PoolInvariant, PTL

\* A loan that stays REPAID was repaid on chain or written off by vote: the
\* claim repayLoan makes on the row is settled, given back, or held by a
\* request that is at work or was cut off by a restart.
THEOREM RepaidLoansSettled == Spec => []RepaidIsSettled
<1>1. PoolInv => RepaidIsSettled
  BY DEF PoolInv, LoanInv, LoanHolds, RepaidIsSettled
<1> QED
  BY <1>1, PoolInvariant, PTL

\* A vote that voteLoan records was cast on chain as recorded, unless this
\* voter is still at it or was cut off by a restart.
THEOREM RecordedVotesCast == Spec => []VotesAreCast
<1>1. PoolInv => VotesAreCast
  BY DEF PoolInv, LoanInv, LoanHolds, VotesAreCast, Recorded, Working
<1> QED
  BY <1>1, PoolInvariant, PTL

\* closePool leaves no share of a recorded member behind, unless the wind-down
\* was disturbed or a loan is still out on chain.
THEOREM ClosedPoolsEmpty == Spec => []ClosedPoolIsEmpty
<1>1. PoolInv => ClosedPoolIsEmpty
  BY DEF PoolInv, WindDownInv, Lending, ClosedPoolIsEmpty
<1> QED
  BY <1>1, PoolInvariant, PTL
=============================================================================
