------------------------ MODULE SessionSpendingProofs ------------------------
(***************************************************************************)
(* Theorems about SessionSpending.  The daily limit holds because of the   *)
(* chain alone: Session.spent is the sum of everything drawn, so no window *)
(* of 24 hours holds more than cumulativeLimit, which is the daily limit.  *)
(* The rows are backed because a landed request whose row is not written   *)
(* yet is still paid for: the rows and the landed requests together come   *)
(* to no more than spent.                                                  *)
(***************************************************************************)
EXTENDS SessionSpending, SumTheorems

Places == {"idle", "limit", "session", "submit", "sent", "landed"}
HandlerRecords ==
  [op : SpendingOps \cup {"none", "cancel"}, at : Places,
   amount : Amounts \cup {0}, nonce : 0 .. MaxNonce]
SentTransactions ==
  [op : SpendingOps \cup {"cancel"}, amount : Amounts \cup {0}, nonce : 0 .. MaxNonce]

\* The types, with the two facts that make them inductive: whoever is on the
\* way has an operation, and every open link took a transaction.
Shapes ==
  /\ sessionRow \in {"ACTIVE", "REVOKED"}
  /\ records \in [Times -> Nat] /\ drawn \in [Times -> Nat]
  /\ handler \in [Handlers -> HandlerRecords]
  /\ \A h \in Handlers : handler[h].at # "idle" => handler[h].op # "none"
  /\ orphans \subseteq SentTransactions
  /\ sessionNonce \in 0 .. MaxNonce
  /\ spent \in 0 .. CumulativeLimit
  /\ openLinks \in 0 .. sessionNonce
  /\ clock \in Times

\* What has landed for a request that has not written its row yet.
Unrecorded ==
  [h \in Handlers |-> IF handler[h].at = "landed" THEN handler[h].amount ELSE 0]

\* Session.spent is the sum of what was drawn.
SpentIsDrawn == spent = SumOf(drawn, Times)

\* Nothing is drawn in the future.
NothingAhead == \A t \in Times : clock < t => drawn[t] = 0

\* The rows and the requests about to write theirs are paid for.
Covered == SumOf(records, Times) + SumOf(Unrecorded, Handlers) <= spent

Backed == \A t \in Times : SumOf(records, 0 .. t) <= SumOf(drawn, 0 .. t)

IInv == Shapes /\ SpentIsDrawn /\ NothingAhead /\ Covered /\ Backed

-----------------------------------------------------------------------------
(* Sums over time.                                                         *)

LEMMA TimesFinite ==
  /\ IsFiniteSet(Times)
  /\ \A t \in Times : IsFiniteSet(0 .. t) /\ 0 .. t \in SUBSET Times
  /\ Times \subseteq Nat
BY SpendingAssumption, FS_Interval DEF Times

LEMMA TotalIsSum == \A f, S : Total(f, S) = SumOf(f, S)
BY DEF Total, SumOf

\* An amount is entered at an instant: what that does to the sum over all
\* time, and to the sums up to each instant.
LEMMA EntryAdds ==
  ASSUME NEW f \in [Times -> Nat], NEW c \in Times, NEW a \in Nat,
         NEW g \in [Times -> Nat],
         g[c] = f[c] + a, \A t \in Times : t # c => g[t] = f[t]
  PROVE  /\ SumOf(g, Times) = SumOf(f, Times) + a
         /\ SumOf(f, Times) \in Nat
         /\ \A t \in Times : SumOf(f, 0 .. t) <= SumOf(g, 0 .. t)
<1>1. g[c] = f[c] + a /\ \A t \in Times : t # c => g[t] = f[t]
  OBVIOUS
<1>2. \A t \in Times : f[t] \in Nat /\ g[t] \in Nat /\ f[t] \in Int /\ g[t] \in Int
  BY <1>1
<1>3. SumOf(f, Times) \in Nat
  BY <1>2, TimesFinite, SumType
<1>4. SumOf(g, Times) = SumOf(f, Times) + g[c] - f[c]
  <2>1. \A t \in Times : f[t] \in Int /\ g[t] \in Int
    BY <1>2
  <2>2. IsFiniteSet(Times)
    BY TimesFinite
  <2> QED
    BY <1>1, <2>1, <2>2, SumUpdate
<1>5. SumOf(g, Times) = SumOf(f, Times) + a
  BY <1>1, <1>2, <1>3, <1>4
<1>6. ASSUME NEW t \in Times
      PROVE  SumOf(f, 0 .. t) <= SumOf(g, 0 .. t)
  <2> DEFINE past == 0 .. t
  <2>1. IsFiniteSet(past) /\ past \in SUBSET Times
    BY TimesFinite
  <2> HIDE DEF past
  <2>3. \A u \in past : f[u] \in Int /\ g[u] \in Int /\ f[u] \in Nat
    BY <1>2, <2>1
  <2>4. SumOf(f, past) \in Nat
    BY <2>1, <2>3, SumType
  <2>5. CASE c \notin past
    <3>1. \A u \in past : g[u] = f[u]
      BY <1>1, <2>1, <2>5
    <3>2. SumOf(g, past) = SumOf(f, past)
      BY <2>1, <3>1, SumCongruent
    <3> QED
      BY <2>4, <3>2 DEF past
  <2>6. CASE c \in past
    <3>1. \A u \in past : u # c => g[u] = f[u]
      BY <1>1, <2>1
    <3>2. SumOf(g, past) = SumOf(f, past) + g[c] - f[c]
      BY <2>1, <2>3, <2>6, <3>1, SumUpdate
    <3>3. SumOf(f, past) <= SumOf(g, past)
      BY <1>1, <1>2, <2>4, <3>2
    <3> QED
      BY <3>3 DEF past
  <2> QED
    BY <2>5, <2>6
<1> QED
  BY <1>1, <1>3, <1>5, <1>6

\* What is covered over all time is backed at every instant from now on.
LEMMA CoveredIsBacked ==
  ASSUME NEW r \in [Times -> Nat], NEW d \in [Times -> Nat], NEW c \in Times,
         \A t \in Times : c < t => d[t] = 0,
         SumOf(r, Times) <= SumOf(d, Times),
         NEW t \in Times, ~(t < c)
  PROVE  SumOf(r, 0 .. t) <= SumOf(d, 0 .. t)
<1> DEFINE past == 0 .. t
<1>1. past \in SUBSET Times /\ IsFiniteSet(Times)
  BY TimesFinite
<1>2. \A u \in Times \ past : d[u] = 0
  BY TimesFinite
<1> HIDE DEF past
<1>3. \A u \in Times : r[u] \in Nat /\ d[u] \in Nat
  OBVIOUS
<1>4. SumOf(r, past) <= SumOf(r, Times)
  BY <1>1, <1>3, SumPart
<1>5. SumOf(d, past) = SumOf(d, Times)
  BY <1>1, <1>2, <1>3, SumPart
<1>6. SumOf(r, past) \in Nat /\ SumOf(r, Times) \in Nat /\ SumOf(d, Times) \in Nat
  <2>1. IsFiniteSet(past) /\ \A u \in past : r[u] \in Nat /\ r[u] \in Int
    BY <1>1, <1>3, FS_Subset
  <2>2. \A u \in Times : r[u] \in Int /\ d[u] \in Int
    BY <1>3
  <2>3. SumOf(r, past) \in Nat
    BY <2>1, SumType
  <2>4. SumOf(r, Times) \in Nat
    BY <1>1, <1>3, <2>2, SumType
  <2>5. SumOf(d, Times) \in Nat
    BY <1>1, <1>3, <2>2, SumType
  <2> QED
    BY <2>3, <2>4, <2>5
<1>7. SumOf(r, past) <= SumOf(d, past)
  BY <1>4, <1>5, <1>6
<1> QED
  BY <1>7 DEF past

LEMMA AmountsNat ==
  ASSUME NEW r \in HandlerRecords
  PROVE  r.amount \in Nat
<1>1. r.amount \in Amounts \cup {0}
  BY DEF HandlerRecords
<1>2. \A a \in Amounts : a \in Nat
  BY SpendingAssumption
<1>3. 0 \in Nat
  OBVIOUS
<1> QED
  BY <1>1, <1>2, <1>3, Zenon

\* What is unrecorded: the sum is a natural number, and it follows the one
\* request that moves.
LEMMA UnrecordedSum ==
  ASSUME Shapes
  PROVE  /\ \A h \in Handlers : Unrecorded[h] \in Nat /\ Unrecorded[h] \in Int
         /\ SumOf(Unrecorded, Handlers) \in Nat
<1>1. \A h \in Handlers : handler[h].amount \in Nat
  BY AmountsNat DEF Shapes
<1>2. \A h \in Handlers : Unrecorded[h] \in Nat
  BY <1>1 DEF Unrecorded
<1>3. \A h \in Handlers : Unrecorded[h] \in Int
  BY <1>2
<1> HIDE DEF Unrecorded
<1> QED
  BY <1>2, <1>3, SpendingAssumption, SumType

LEMMA UnrecordedStep ==
  ASSUME Shapes, Shapes', NEW h \in Handlers,
         \A g \in Handlers : g # h => handler'[g] = handler[g]
  PROVE  SumOf(Unrecorded, Handlers)'
           = SumOf(Unrecorded, Handlers) + Unrecorded'[h] - Unrecorded[h]
<1>1. \A g \in Handlers : g # h => Unrecorded'[g] = Unrecorded[g]
  BY DEF Unrecorded
<1>2. \A g \in Handlers : Unrecorded[g] \in Int
  BY UnrecordedSum
<1>3. \A g \in Handlers : Unrecorded'[g] \in Int
  <2>1. \A g \in Handlers : handler'[g].amount \in Nat
    BY AmountsNat DEF Shapes
  <2> QED
    BY <2>1 DEF Unrecorded
<1> HIDE DEF Unrecorded
<1> QED
  BY <1>1, <1>2, <1>3, SpendingAssumption, SumUpdate

-----------------------------------------------------------------------------
(* The invariant.                                                          *)

LEMMA IdleRecord == Idle \in HandlerRecords /\ Idle.at = "idle" /\ Idle.op = "none" /\ Idle.amount = 0
BY SpendingAssumption DEF Idle, HandlerRecords, Places, SpendingOps

LEMMA InvInit == Init => IInv
<1> SUFFICES ASSUME Init PROVE IInv
  OBVIOUS
<1>1. Shapes
  <2>1. 0 \in 0 .. MaxNonce /\ 0 \in 0 .. CumulativeLimit /\ 0 \in Times /\ 0 \in 0 .. sessionNonce
    BY SpendingAssumption DEF Init, CumulativeLimit, Times
  <2>2. records \in [Times -> Nat] /\ drawn \in [Times -> Nat]
    BY DEF Init
  <2>3. handler \in [Handlers -> HandlerRecords] /\ \A h \in Handlers : handler[h].at = "idle"
    BY IdleRecord DEF Init
  <2> QED
    BY <2>1, <2>2, <2>3 DEF Init, Shapes
<1>2. SumOf(drawn, Times) = 0 /\ SumOf(records, Times) = 0
  <2>1. \A t \in Times : drawn[t] = 0 /\ records[t] = 0
    BY DEF Init
  <2> QED
    BY <2>1, TimesFinite, SumZero
<1>3. SumOf(Unrecorded, Handlers) = 0
  <2>1. \A h \in Handlers : Unrecorded[h] = 0
    BY IdleRecord DEF Init, Unrecorded
  <2> QED
    BY <2>1, SpendingAssumption, SumZero
<1>4. ASSUME NEW t \in Times PROVE SumOf(records, 0 .. t) <= SumOf(drawn, 0 .. t)
  <2>1. \A u \in 0 .. t : drawn[u] = 0 /\ records[u] = 0
    BY TimesFinite DEF Init
  <2>2. SumOf(drawn, 0 .. t) = 0 /\ SumOf(records, 0 .. t) = 0
    BY <2>1, TimesFinite, SumZero
  <2> QED
    BY <2>2
<1>5. SpentIsDrawn /\ NothingAhead /\ Covered
  BY <1>2, <1>3 DEF Init, SpentIsDrawn, NothingAhead, Covered
<1> QED
  BY <1>1, <1>4, <1>5 DEF IInv, Backed

\* A request moves and nothing lands: the sum of what is unrecorded does not
\* grow, and all the other sums stay.
LEMMA MoveStep ==
  ASSUME IInv, NEW h \in Handlers, NEW r \in HandlerRecords,
         handler' = [handler EXCEPT ![h] = r],
         r.at # "idle" => r.op # "none", r.at # "landed",
         orphans' \subseteq SentTransactions, UNCHANGED <<db, chain, clock>>
  PROVE  IInv'
<1>1. UNCHANGED <<sessionRow, records, sessionNonce, spent, openLinks, drawn, clock>>
  BY DEF db, chain
<1>2. Shapes /\ SpentIsDrawn /\ NothingAhead /\ Covered /\ Backed
  BY DEF IInv
<1>3. handler'[h] = r /\ \A g \in Handlers : g # h => handler'[g] = handler[g]
  BY <1>2 DEF Shapes
<1>4. Shapes'
  <2>1. handler' \in [Handlers -> HandlerRecords]
    BY <1>2 DEF Shapes
  <2>2. \A g \in Handlers : handler'[g].at # "idle" => handler'[g].op # "none"
    BY <1>2, <1>3 DEF Shapes
  <2> QED
    BY <1>1, <1>2, <2>1, <2>2 DEF Shapes
<1>5. SumOf(Unrecorded, Handlers)' = SumOf(Unrecorded, Handlers) + Unrecorded'[h] - Unrecorded[h]
  BY <1>2, <1>3, <1>4, UnrecordedStep
<1>6. Unrecorded'[h] = 0
  BY <1>3 DEF Unrecorded
<1>7. Unrecorded[h] \in Nat /\ SumOf(Unrecorded, Handlers) \in Nat
  BY <1>2, UnrecordedSum
<1>8. SumOf(records, Times) \in Nat /\ spent \in Nat
  <2>1. \A t \in Times : records[t] \in Nat /\ records[t] \in Int
    BY <1>2 DEF Shapes
  <2>2. SumOf(records, Times) \in Nat
    BY <2>1, TimesFinite, SumType
  <2> QED
    BY <1>2, <2>2 DEF Shapes
<1>9. Covered'
  <2>1. SumOf(records', Times) = SumOf(records, Times) /\ spent' = spent
    BY <1>1
  <2> HIDE DEF Unrecorded
  <2> QED
    BY <1>2, <1>5, <1>6, <1>7, <1>8, <2>1 DEF Covered
<1>10. SpentIsDrawn' /\ NothingAhead' /\ Backed'
  BY <1>1, <1>2 DEF SpentIsDrawn, NothingAhead, Backed
<1> QED
  BY <1>4, <1>9, <1>10 DEF IInv

\* The cluster executes a transaction: what is drawn, what is spent and, if
\* the request still waits, what is unrecorded grow by the same amount.
LEMMA ExecuteStep ==
  ASSUME IInv, NEW tx \in SentTransactions, Execute(tx),
         UNCHANGED <<db, clock>>, orphans' \subseteq SentTransactions,
         handler' \in [Handlers -> HandlerRecords],
         \A g \in Handlers : handler'[g].at # "idle" => handler'[g].op # "none",
         Shapes' => SumOf(Unrecorded, Handlers)' <= SumOf(Unrecorded, Handlers) + tx.amount
  PROVE  IInv'
<1>1. UNCHANGED <<sessionRow, records, clock>>
  BY DEF db
<1>2. Shapes /\ SpentIsDrawn /\ NothingAhead /\ Covered /\ Backed
  BY DEF IInv
<1>3. tx.amount \in Nat
  <2>1. tx.amount \in Amounts \cup {0}
    BY DEF SentTransactions
  <2>2. \A a \in Amounts : a \in Nat
    BY SpendingAssumption
  <2>3. 0 \in Nat
    OBVIOUS
  <2> QED
    BY <2>1, <2>2, <2>3, Zenon
<1>4. /\ drawn' = [drawn EXCEPT ![clock] = @ + tx.amount]
      /\ spent' = spent + tx.amount /\ spent + tx.amount <= CumulativeLimit
      /\ sessionNonce < MaxNonce /\ sessionNonce' = sessionNonce + 1
  BY DEF Execute, Executable
<1>5. drawn \in [Times -> Nat] /\ clock \in Times /\ spent \in Nat
  BY <1>2 DEF Shapes
<1>6. /\ drawn' \in [Times -> Nat]
      /\ SumOf(drawn', Times) = SumOf(drawn, Times) + tx.amount
      /\ \A t \in Times : SumOf(drawn, 0 .. t) <= SumOf(drawn', 0 .. t)
  <2>1. /\ drawn' \in [Times -> Nat] /\ drawn'[clock] = drawn[clock] + tx.amount
        /\ \A t \in Times : t # clock => drawn'[t] = drawn[t]
    BY <1>3, <1>4, <1>5
  <2> DEFINE amount == tx.amount
  <2>2. /\ amount \in Nat /\ drawn \in [Times -> Nat] /\ drawn' \in [Times -> Nat]
        /\ clock \in Times /\ drawn'[clock] = drawn[clock] + amount
        /\ \A t \in Times : t # clock => drawn'[t] = drawn[t]
    BY <1>3, <1>5, <2>1
  <2> HIDE DEF amount
  <2>3. /\ SumOf(drawn', Times) = SumOf(drawn, Times) + amount
        /\ \A t \in Times : SumOf(drawn, 0 .. t) <= SumOf(drawn', 0 .. t)
    BY ONLY <2>2, EntryAdds
  <2> QED
    BY <2>2, <2>3 DEF amount
<1>7. Shapes'
  <2>1. sessionNonce' \in 0 .. MaxNonce /\ spent' \in 0 .. CumulativeLimit
    BY <1>2, <1>3, <1>4, <1>5, SpendingAssumption DEF Shapes, CumulativeLimit
  <2>2. openLinks' \in 0 .. sessionNonce'
    <3>1. openLinks \in 0 .. sessionNonce /\ sessionNonce \in Nat
      BY <1>2 DEF Shapes
    <3>2. CASE tx.op = "link"
      <4>1. openLinks' = openLinks + 1
        BY <3>2 DEF Execute
      <4> QED
        BY <1>4, <3>1, <4>1
    <3>3. CASE tx.op = "cancel"
      <4>1. openLinks' = openLinks - 1 /\ openLinks > 0
        BY <3>3 DEF Execute, Executable
      <4> QED
        BY <1>4, <3>1, <4>1
    <3>4. CASE tx.op # "link" /\ tx.op # "cancel"
      <4>1. openLinks' = openLinks
        BY <3>4 DEF Execute
      <4> QED
        BY <1>4, <3>1, <4>1
    <3> QED
      BY <3>2, <3>3, <3>4
  <2> QED
    BY <1>1, <1>2, <1>6, <2>1, <2>2 DEF Shapes
<1>8. SpentIsDrawn'
  BY <1>2, <1>4, <1>6 DEF SpentIsDrawn
<1>9. NothingAhead'
  <2>1. \A t \in Times : clock < t => t # clock
    BY TimesFinite, <1>5
  <2> QED
    BY <1>1, <1>2, <1>4, <1>5, <2>1 DEF NothingAhead
<1>10. \A t \in Times : /\ SumOf(records, 0 .. t) \in Nat
                        /\ SumOf(drawn, 0 .. t) \in Nat /\ SumOf(drawn', 0 .. t) \in Nat
  <2> SUFFICES ASSUME NEW t \in Times
               PROVE  /\ SumOf(records, 0 .. t) \in Nat
                      /\ SumOf(drawn, 0 .. t) \in Nat /\ SumOf(drawn', 0 .. t) \in Nat
    OBVIOUS
  <2>1. \A u \in 0 .. t : /\ records[u] \in Nat /\ records[u] \in Int
                          /\ drawn[u] \in Nat /\ drawn[u] \in Int
                          /\ drawn'[u] \in Nat /\ drawn'[u] \in Int
    BY <1>2, <1>6, TimesFinite DEF Shapes
  <2>2. IsFiniteSet(0 .. t)
    BY TimesFinite
  <2> DEFINE past == 0 .. t
  <2> HIDE DEF past
  <2>3. SumOf(records, past) \in Nat
    BY <2>1, <2>2, SumType DEF past
  <2>4. SumOf(drawn, past) \in Nat
    BY <2>1, <2>2, SumType DEF past
  <2>5. SumOf(drawn', past) \in Nat
    BY <2>1, <2>2, SumType DEF past
  <2> QED
    BY <2>3, <2>4, <2>5 DEF past
<1>11. Backed'
  <2> SUFFICES ASSUME NEW t \in Times PROVE SumOf(records', 0 .. t) <= SumOf(drawn', 0 .. t)
    BY DEF Backed
  <2>1. SumOf(records, 0 .. t) <= SumOf(drawn, 0 .. t) /\ SumOf(drawn, 0 .. t) <= SumOf(drawn', 0 .. t)
    BY <1>2, <1>6 DEF Backed
  <2>2. SumOf(records, 0 .. t) <= SumOf(drawn', 0 .. t)
    BY <1>10, <2>1
  <2> QED
    BY <1>1, <2>2
<1>12. Covered'
  <2>1. SumOf(records, Times) \in Nat /\ SumOf(Unrecorded, Handlers) \in Nat
    <3>1. \A t \in Times : records[t] \in Nat /\ records[t] \in Int
      BY <1>2 DEF Shapes
    <3> QED
      BY <1>2, <3>1, TimesFinite, SumType, UnrecordedSum
  <2>2. SumOf(Unrecorded, Handlers)' \in Nat
    <3>1. Shapes' => SumOf(Unrecorded', Handlers) \in Nat
      <4> SUFFICES ASSUME Shapes' PROVE SumOf(Unrecorded', Handlers) \in Nat
        OBVIOUS
      <4>1. \A g \in Handlers : handler'[g].amount \in Nat
        BY AmountsNat
      <4>2. \A g \in Handlers : Unrecorded'[g] \in Nat /\ Unrecorded'[g] \in Int
        BY <4>1 DEF Unrecorded
      <4> HIDE DEF Unrecorded
      <4> QED
        BY <4>2, SpendingAssumption, SumType
    <3> QED
      BY <1>7, <3>1
  <2>3. SumOf(Unrecorded, Handlers)' <= SumOf(Unrecorded, Handlers) + tx.amount
    BY <1>7
  <2>4. SumOf(records', Times) = SumOf(records, Times)
    BY <1>1
  <2> HIDE DEF Unrecorded
  <2> QED
    BY <1>2, <1>3, <1>4, <1>5, <2>1, <2>2, <2>3, <2>4 DEF Covered
<1> QED
  BY <1>7, <1>8, <1>9, <1>11, <1>12 DEF IInv

\* The row is written: the amount passes from the unrecorded to the rows, and
\* at the instants from now on the rows stay backed because they are covered.
LEMMA RecordStep ==
  ASSUME IInv, NEW h \in Handlers, RecordSpending(h)
  PROVE  IInv'
<1> DEFINE a == handler[h].amount
<1>1. UNCHANGED <<sessionRow, orphans, sessionNonce, spent, openLinks, drawn, clock>>
  BY DEF RecordSpending, chain
<1>2. Shapes /\ SpentIsDrawn /\ NothingAhead /\ Covered /\ Backed
  BY DEF IInv
<1>3. /\ records \in [Times -> Nat] /\ clock \in Times /\ a \in Nat
      /\ drawn \in [Times -> Nat] /\ spent \in Nat
  BY <1>2, AmountsNat DEF Shapes
<1>4. /\ records' \in [Times -> Nat]
      /\ SumOf(records', Times) = SumOf(records, Times) + a
      /\ SumOf(records, Times) \in Nat
      /\ \A t \in Times : t < clock => SumOf(records', 0 .. t) = SumOf(records, 0 .. t)
  <2>1. records' = [records EXCEPT ![clock] = @ + a]
    BY DEF RecordSpending
  <2> HIDE DEF a
  <2>2. /\ records' \in [Times -> Nat] /\ records'[clock] = records[clock] + a
        /\ \A t \in Times : t # clock => records'[t] = records[t]
    BY <1>3, <2>1
  <2>3. /\ a \in Nat /\ records \in [Times -> Nat] /\ records' \in [Times -> Nat]
        /\ clock \in Times
    BY <1>3, <2>2
  <2>4. SumOf(records', Times) = SumOf(records, Times) + a
    BY ONLY <2>2, <2>3, EntryAdds
  <2>5. SumOf(records, Times) \in Nat
    BY ONLY <2>2, <2>3, EntryAdds
  <2>6. \A t \in Times : t < clock => SumOf(records', 0 .. t) = SumOf(records, 0 .. t)
    <3> SUFFICES ASSUME NEW t \in Times, t < clock
                 PROVE  SumOf(records', 0 .. t) = SumOf(records, 0 .. t)
      OBVIOUS
    <3>1. IsFiniteSet(0 .. t) /\ \A u \in 0 .. t : u \in Times /\ u # clock
      BY <2>3, TimesFinite
    <3>2. \A u \in 0 .. t : records'[u] = records[u]
      BY <2>2, <3>1
    <3> QED
      BY <3>1, <3>2, SumCongruent
  <2> QED
    BY <2>2, <2>4, <2>5, <2>6
<1>5. handler' = [handler EXCEPT ![h] = Idle]
  BY DEF RecordSpending, Return
<1>6. handler'[h] = Idle /\ \A g \in Handlers : g # h => handler'[g] = handler[g]
  BY <1>2, <1>5 DEF Shapes
<1>7. Shapes'
  <2>1. handler' \in [Handlers -> HandlerRecords]
    BY <1>2, <1>5, IdleRecord DEF Shapes
  <2>2. \A g \in Handlers : handler'[g].at # "idle" => handler'[g].op # "none"
    BY <1>2, <1>6, IdleRecord DEF Shapes
  <2> QED
    BY <1>1, <1>2, <1>4, <2>1, <2>2 DEF Shapes
<1>8. SumOf(Unrecorded, Handlers)' = SumOf(Unrecorded, Handlers) + Unrecorded'[h] - Unrecorded[h]
  BY <1>2, <1>6, <1>7, UnrecordedStep
<1>9. Unrecorded'[h] = 0 /\ Unrecorded[h] = a
  BY <1>6, IdleRecord DEF Unrecorded, RecordSpending
<1>10. SumOf(Unrecorded, Handlers) \in Nat
  BY <1>2, UnrecordedSum
<1> HIDE DEF a
<1>11. /\ Covered'
       /\ SumOf(records', Times) + SumOf(Unrecorded', Handlers) <= spent
       /\ SumOf(Unrecorded', Handlers) \in Int
  <2> HIDE DEF Unrecorded
  <2> QED
    BY <1>1, <1>2, <1>3, <1>4, <1>8, <1>9, <1>10 DEF Covered
<1>12. SumOf(records', Times) <= SumOf(drawn, Times)
  <2>1. SumOf(Unrecorded', Handlers) \in Nat
    <3>1. \A g \in Handlers : handler'[g].amount \in Nat
      BY <1>7, AmountsNat DEF Shapes
    <3>2. \A g \in Handlers : Unrecorded'[g] \in Nat /\ Unrecorded'[g] \in Int
      BY <3>1 DEF Unrecorded
    <3> HIDE DEF Unrecorded
    <3> QED
      BY <3>2, SpendingAssumption, SumType
  <2> HIDE DEF Unrecorded
  <2>2. SumOf(records', Times) <= spent
    BY <1>3, <1>4, <1>11, <2>1
  <2> QED
    BY <1>2, <2>2 DEF SpentIsDrawn
<1>13. Backed'
  <2> SUFFICES ASSUME NEW t \in Times PROVE SumOf(records', 0 .. t) <= SumOf(drawn', 0 .. t)
    BY DEF Backed
  <2>1. CASE t < clock
    BY <1>1, <1>2, <1>4, <2>1 DEF Backed
  <2>2. CASE ~(t < clock)
    <3>1. \A u \in Times : clock < u => drawn[u] = 0
      BY <1>2 DEF NothingAhead
    <3>2. SumOf(records', 0 .. t) <= SumOf(drawn, 0 .. t)
      BY <1>3, <1>4, <1>12, <2>2, <3>1, CoveredIsBacked
    <3> QED
      BY <1>1, <3>2
  <2> QED
    BY <2>1, <2>2
<1>14. SpentIsDrawn' /\ NothingAhead'
  BY <1>1, <1>2 DEF SpentIsDrawn, NothingAhead
<1> QED
  BY <1>7, <1>11, <1>13, <1>14 DEF IInv

LEMMA RequestStep ==
  ASSUME IInv, NEW h \in Handlers, Request(h)
  PROVE  IInv'
<1>0. /\ handler[h] \in HandlerRecords /\ orphans \subseteq SentTransactions
      /\ handler[h].at # "idle" => handler[h].op # "none"
      /\ handler \in [Handlers -> HandlerRecords]
      /\ sessionNonce \in 0 .. MaxNonce
  BY DEF IInv, Shapes
<1>1. ASSUME NEW op \in SpendingOps \cup {"cancel"}, NEW amount \in Amounts, Begin(h, op, amount)
      PROVE  IInv'
  <2> DEFINE r == [op |-> op, at |-> IF op \in SpendingOps THEN "limit" ELSE "session",
                   amount |-> IF op \in SpendingOps THEN amount ELSE 0, nonce |-> 0]
  <2>1. r \in HandlerRecords /\ r.at # "idle" /\ r.at # "landed" /\ r.op # "none"
    BY SpendingAssumption DEF HandlerRecords, Places, SpendingOps
  <2>2. handler' = [handler EXCEPT ![h] = r] /\ UNCHANGED <<db, orphans, chain, clock>>
    BY <1>1 DEF Begin
  <2> HIDE DEF r
  <2> QED
    BY <1>0, <2>1, <2>2, MoveStep
<1>2. ASSUME Return(h), orphans' \subseteq SentTransactions, UNCHANGED <<db, chain, clock>>
      PROVE  IInv'
  <2>1. handler' = [handler EXCEPT ![h] = Idle]
    BY <1>2 DEF Return
  <2> QED
    BY <1>2, <2>1, IdleRecord, MoveStep
<1>3. ASSUME NEW p \in {"session", "sent"}, Goto(h, p), handler[h].at # "idle",
             UNCHANGED <<db, orphans, chain, clock>>
      PROVE  IInv'
  <2> DEFINE r == [handler[h] EXCEPT !.at = p]
  <2>1. r \in HandlerRecords /\ r.at # "idle" /\ r.at # "landed" /\ r.op # "none"
    BY <1>0, <1>3 DEF HandlerRecords, Places
  <2>2. handler' = [handler EXCEPT ![h] = r]
    BY <1>3 DEF Goto
  <2> HIDE DEF r
  <2> QED
    BY <1>0, <1>3, <2>1, <2>2, MoveStep
<1>4. ASSUME ReadSession(h) PROVE IInv'
  <2> DEFINE r == [handler[h] EXCEPT !.nonce = sessionNonce, !.at = "submit"]
  <2>1. r \in HandlerRecords /\ r.at # "idle" /\ r.at # "landed" /\ r.op # "none"
    BY <1>0, <1>4 DEF HandlerRecords, Places, ReadSession
  <2>2. handler' = [handler EXCEPT ![h] = r] /\ UNCHANGED <<db, orphans, chain, clock>>
    BY <1>4 DEF ReadSession
  <2> HIDE DEF r
  <2> QED
    BY <1>0, <2>1, <2>2, MoveStep
<1>5. ASSUME handler[h].at = "sent" PROVE Transaction(h) \in SentTransactions
  BY <1>0, <1>5 DEF Transaction, SentTransactions, HandlerRecords, SpendingOps
<1>6. ASSUME Land(h) PROVE IInv'
  <2> DEFINE tx == Transaction(h)
             r == [handler[h] EXCEPT !.at = "landed"]
  <2>1. tx \in SentTransactions /\ Execute(tx) /\ UNCHANGED <<db, orphans, clock>>
    BY <1>5, <1>6 DEF Land
  <2>2. /\ r \in HandlerRecords /\ r.at = "landed" /\ r.op # "none"
        /\ r.amount = handler[h].amount /\ tx.amount = handler[h].amount
    BY <1>0, <1>6 DEF Land, HandlerRecords, Places, Transaction
  <2>3. handler' = [handler EXCEPT ![h] = r]
    BY <1>6 DEF Land, Goto
  <2> HIDE DEF r, tx
  <2>4. handler'[h] = r /\ \A g \in Handlers : g # h => handler'[g] = handler[g]
    BY <1>0, <2>3
  <2>5. handler' \in [Handlers -> HandlerRecords]
    BY <1>0, <2>2, <2>3
  <2>6. \A g \in Handlers : handler'[g].at # "idle" => handler'[g].op # "none"
    BY <2>2, <2>4 DEF IInv, Shapes
  <2>7. ASSUME Shapes' PROVE SumOf(Unrecorded, Handlers)' <= SumOf(Unrecorded, Handlers) + tx.amount
    <3>1. SumOf(Unrecorded, Handlers)' = SumOf(Unrecorded, Handlers) + Unrecorded'[h] - Unrecorded[h]
      BY <2>4, <2>7, UnrecordedStep DEF IInv
    <3>2. Unrecorded'[h] = tx.amount /\ Unrecorded[h] = 0
      BY <1>6, <2>2, <2>4 DEF Unrecorded, Land
    <3>3. SumOf(Unrecorded, Handlers) \in Nat
      BY UnrecordedSum DEF IInv
    <3>4. tx.amount \in Nat
      BY <1>0, <2>2, AmountsNat
    <3> HIDE DEF Unrecorded
    <3> QED
      BY <3>1, <3>2, <3>3, <3>4
  <2> QED
    BY <1>0, <2>1, <2>5, <2>6, <2>7, ExecuteStep
<1>7. CASE CheckDailyLimit(h)
  BY <1>0, <1>2, <1>3, <1>7 DEF CheckDailyLimit
<1>8. CASE Submit(h)
  BY <1>3, <1>8 DEF Submit
<1>9. CASE ChainRefuses(h)
  BY <1>0, <1>2, <1>9 DEF ChainRefuses
<1>10. CASE Abort(h)
  <2>1. orphans' \subseteq SentTransactions
    BY <1>0, <1>5, <1>10 DEF Abort, Abandon
  <2> QED
    BY <1>2, <1>10, <2>1 DEF Abort
<1>11. CASE RecordSpending(h)
  BY <1>11, RecordStep
<1> QED
  BY <1>1, <1>4, <1>6, <1>7, <1>8, <1>9, <1>10, <1>11 DEF Request

LEMMA EnvironmentStep ==
  ASSUME IInv,
         \/ \E tx \in orphans : LandOrphan(tx) \/ ExpireOrphan(tx)
         \/ SettleLink \/ RevokeSessionKey \/ Tick \/ UNCHANGED vars
  PROVE  IInv'
<1>0. Shapes /\ SpentIsDrawn /\ NothingAhead /\ Covered /\ Backed
  BY DEF IInv
<1>1. ASSUME NEW tx \in orphans, LandOrphan(tx) PROVE IInv'
  <2>1. /\ tx \in SentTransactions /\ Execute(tx) /\ UNCHANGED <<db, handler, clock>>
        /\ orphans' \subseteq SentTransactions
    BY <1>0, <1>1 DEF LandOrphan, Shapes
  <2>2. SumOf(Unrecorded, Handlers)' = SumOf(Unrecorded, Handlers)
    <3>1. Unrecorded' = Unrecorded
      BY <2>1 DEF Unrecorded
    <3> QED
      BY <3>1
  <2>3. tx.amount \in Nat /\ SumOf(Unrecorded, Handlers) \in Nat
    <3>1. tx.amount \in Amounts \cup {0}
      BY <2>1 DEF SentTransactions
    <3>2. \A a \in Amounts : a \in Nat
      BY SpendingAssumption
    <3>3. 0 \in Nat
      OBVIOUS
    <3>4. tx.amount \in Nat
      BY <3>1, <3>2, <3>3, Zenon
    <3> QED
      BY <1>0, <3>4, UnrecordedSum
  <2>4. SumOf(Unrecorded, Handlers)' <= SumOf(Unrecorded, Handlers) + tx.amount
    BY <2>2, <2>3
  <2>5. /\ handler' \in [Handlers -> HandlerRecords]
        /\ \A g \in Handlers : handler'[g].at # "idle" => handler'[g].op # "none"
    BY <1>0, <2>1 DEF Shapes
  <2> QED
    BY <2>1, <2>4, <2>5, ExecuteStep
<1>2. ASSUME UNCHANGED <<records, handler, spent, drawn>>,
             sessionRow' \in {"ACTIVE", "REVOKED"}, orphans' \subseteq SentTransactions,
             sessionNonce' = sessionNonce, openLinks' \in 0 .. sessionNonce,
             clock' \in Times, clock <= clock'
      PROVE  IInv'
  <2>1. Shapes'
    BY <1>0, <1>2 DEF Shapes
  <2>2. Unrecorded' = Unrecorded
    BY <1>2 DEF Unrecorded
  <2>3. SpentIsDrawn' /\ Covered' /\ Backed'
    BY <1>0, <1>2, <2>2 DEF SpentIsDrawn, Covered, Backed
  <2>4. NothingAhead'
    <3>1. clock \in Nat /\ clock' \in Nat /\ Times \subseteq Nat
      BY <1>0, <1>2, TimesFinite DEF Shapes
    <3>2. \A t \in Times : clock' < t => clock < t
      BY <1>2, <3>1
    <3> QED
      BY <1>0, <1>2, <3>2 DEF NothingAhead
  <2> QED
    BY <2>1, <2>3, <2>4 DEF IInv
<1>3. /\ clock \in Times /\ clock \in Nat /\ clock <= clock
      /\ openLinks \in 0 .. sessionNonce /\ orphans \subseteq SentTransactions
      /\ sessionRow \in {"ACTIVE", "REVOKED"}
  BY <1>0, TimesFinite DEF Shapes
<1>4. ASSUME NEW tx \in orphans, ExpireOrphan(tx) PROVE IInv'
  <2>1. /\ UNCHANGED <<records, handler, spent, drawn, sessionRow, sessionNonce, openLinks, clock>>
        /\ orphans' \subseteq SentTransactions
    BY <1>3, <1>4 DEF ExpireOrphan, db, chain
  <2> QED
    BY <1>2, <1>3, <2>1
<1>5. CASE SettleLink
  <2>1. UNCHANGED <<records, handler, spent, drawn, sessionRow, sessionNonce, orphans, clock>>
    BY <1>5 DEF SettleLink, db
  <2>2. openLinks' \in 0 .. sessionNonce
    BY <1>0, <1>5 DEF SettleLink, Shapes
  <2> QED
    BY <1>2, <1>3, <2>1, <2>2
<1>6. CASE RevokeSessionKey
  BY <1>2, <1>3, <1>6 DEF RevokeSessionKey, chain
<1>7. CASE Tick
  <2>1. UNCHANGED <<records, handler, spent, drawn, sessionRow, sessionNonce, orphans, openLinks>>
    BY <1>7 DEF Tick, db, chain
  <2>2. clock' \in Times /\ clock <= clock'
    BY <1>3, <1>7, SpendingAssumption DEF Tick, Times
  <2> QED
    BY <1>2, <1>3, <2>1, <2>2
<1>8. CASE UNCHANGED vars
  BY <1>2, <1>3, <1>8 DEF vars
<1> QED
  BY <1>1, <1>4, <1>5, <1>6, <1>7, <1>8

LEMMA InvStep == IInv /\ [Next]_vars => IInv'
BY RequestStep, EnvironmentStep DEF Next

LEMMA Invariance == Spec => []IInv
BY InvInit, InvStep, PTL DEF Spec

-----------------------------------------------------------------------------
(* Theorems.                                                               *)

\* The session row, the spending rows, the requests and the session account
\* keep their shape, for every number of concurrent requests and restarts.
THEOREM TypeCorrect == Spec => []TypeOK
<1>1. IInv => TypeOK
  <2> SUFFICES ASSUME IInv PROVE TypeOK
    OBVIOUS
  <2>1. openLinks \in 0 .. MaxNonce
    <3>1. openLinks \in 0 .. sessionNonce /\ sessionNonce \in 0 .. MaxNonce
      BY DEF IInv, Shapes
    <3> QED
      BY <3>1, SpendingAssumption
  <2> QED
    BY <2>1 DEF IInv, Shapes, TypeOK, HandlerRecords, SentTransactions, Places
<1> QED
  BY <1>1, Invariance, PTL

\* No 24 hours see more than the daily limit leave the vault under the
\* session key, although executeSessionTransfer checks before the transfer
\* and records after it: what is drawn in the window is part of Session.spent.
THEOREM DailyLimitSafe == Spec => []DailyLimitHolds
<1>1. IInv => DailyLimitHolds
  <2> SUFFICES ASSUME IInv, NEW t \in Times PROVE Recent(drawn, t) <= DailyLimit
    BY DEF DailyLimitHolds
  <2> DEFINE window == {u \in Times : t - Window <= u /\ u <= t}
  <2>1. window \in SUBSET Times
    OBVIOUS
  <2> HIDE DEF window
  <2>2. \A u \in Times : drawn[u] \in Nat /\ drawn[u] \in Int
    BY DEF IInv, Shapes
  <2>3. SumOf(drawn, window) <= SumOf(drawn, Times)
    BY <2>1, <2>2, TimesFinite, SumPart
  <2>4. SumOf(drawn, window) \in Nat
    <3>1. IsFiniteSet(window) /\ \A u \in window : drawn[u] \in Nat /\ drawn[u] \in Int
      BY <2>1, <2>2, TimesFinite, FS_Subset
    <3> QED
      BY <3>1, SumType
  <2>5. SumOf(drawn, Times) \in 0 .. DailyLimit
    BY DEF IInv, Shapes, SpentIsDrawn, CumulativeLimit
  <2>6. Recent(drawn, t) = SumOf(drawn, window)
    BY TotalIsSum DEF Recent, window
  <2> QED
    BY <2>3, <2>4, <2>5, <2>6, SpendingAssumption
<1> QED
  BY <1>1, Invariance, PTL

\* The SpendingRecord rows never claim more than the chain has moved, up to
\* any instant and whichever confirmations are lost.
THEOREM RowsAreBacked == Spec => []RecordsAreBacked
<1>1. IInv => RecordsAreBacked
  BY TotalIsSum DEF IInv, Backed, RecordsAreBacked
<1> QED
  BY <1>1, Invariance, PTL

-----------------------------------------------------------------------------
(* What a revocation leaves open.                                          *)

\* The amounts of a set of transactions.
AmountsOf(S) == [tx \in S |-> tx.amount]

LEMMA TransactionOut ==
  ASSUME NEW S, IsFiniteSet(S), \A x \in S : x.amount \in Nat, NEW tx \in S
  PROVE  /\ SumOf(AmountsOf(S), S) = SumOf(AmountsOf(S \ {tx}), S \ {tx}) + tx.amount
         /\ SumOf(AmountsOf(S \ {tx}), S \ {tx}) \in Nat
<1>1. \A x \in S : AmountsOf(S)[x] = x.amount /\ AmountsOf(S)[x] \in Int
  BY DEF AmountsOf
<1>2. SumOf(AmountsOf(S), S) = AmountsOf(S)[tx] + SumOf(AmountsOf(S), S \ {tx})
  BY <1>1, SumTake
<1>3. IsFiniteSet(S \ {tx})
  BY FS_Subset
<1>4. \A x \in S \ {tx} : /\ AmountsOf(S)[x] = AmountsOf(S \ {tx})[x]
                          /\ AmountsOf(S \ {tx})[x] \in Nat /\ AmountsOf(S \ {tx})[x] \in Int
  BY DEF AmountsOf
<1>5. SumOf(AmountsOf(S), S \ {tx}) = SumOf(AmountsOf(S \ {tx}), S \ {tx})
  BY <1>3, <1>4, SumCongruent
<1>6. SumOf(AmountsOf(S \ {tx}), S \ {tx}) \in Nat
  BY <1>3, <1>4, SumType
<1> QED
  BY <1>1, <1>2, <1>5, <1>6

LEMMA TransactionIn ==
  ASSUME NEW S, IsFiniteSet(S), \A x \in S : x.amount \in Nat, NEW tx, tx.amount \in Nat
  PROVE  /\ SumOf(AmountsOf(S), S) \in Nat
         /\ SumOf(AmountsOf(S \cup {tx}), S \cup {tx}) \in Nat
         /\ SumOf(AmountsOf(S \cup {tx}), S \cup {tx}) <= SumOf(AmountsOf(S), S) + tx.amount
<1>1. SumOf(AmountsOf(S), S) \in Nat
  <2>1. \A x \in S : AmountsOf(S)[x] \in Nat /\ AmountsOf(S)[x] \in Int
    BY DEF AmountsOf
  <2> QED
    BY <2>1, SumType
<1>2. CASE tx \in S
  <2>1. S \cup {tx} = S
    BY <1>2
  <2>2. SumOf(AmountsOf(S \cup {tx}), S \cup {tx}) = SumOf(AmountsOf(S), S)
    BY <2>1, Zenon
  <2> QED
    BY <1>1, <2>2
<1>3. CASE tx \notin S
  <2> DEFINE T == S \cup {tx}
  <2>1. IsFiniteSet(T) /\ (\A x \in T : x.amount \in Nat) /\ tx \in T /\ T \ {tx} = S
    BY <1>3, FS_AddElement
  <2> HIDE DEF T
  <2>2. SumOf(AmountsOf(T), T) = SumOf(AmountsOf(S), S) + tx.amount
    BY <2>1, TransactionOut
  <2> QED
    BY <1>1, <2>2 DEF T
<1> QED
  BY <1>2, <1>3

LEMMA OrphanAmounts ==
  ASSUME Shapes PROVE \A tx \in orphans : tx.amount \in Nat
<1>1. \A tx \in orphans : tx.amount \in Amounts \cup {0}
  BY DEF Shapes, SentTransactions
<1>2. \A a \in Amounts : a \in Nat
  BY SpendingAssumption
<1>3. 0 \in Nat
  OBVIOUS
<1> QED
  BY <1>1, <1>2, <1>3, Zenon

LEMMA StakeSum ==
  ASSUME Shapes
  PROVE  /\ \A h \in Handlers : AtStake[h] \in Nat /\ AtStake[h] \in Int
         /\ SumOf(AtStake, Handlers) \in Nat
<1>1. \A h \in Handlers : handler[h].amount \in Nat
  BY AmountsNat DEF Shapes
<1>2. \A h \in Handlers : AtStake[h] \in Nat
  BY <1>1 DEF AtStake
<1>3. \A h \in Handlers : AtStake[h] \in Int
  BY <1>2
<1> HIDE DEF AtStake
<1> QED
  BY <1>2, <1>3, SpendingAssumption, SumType

LEMMA StakeStep ==
  ASSUME Shapes, Shapes', NEW h \in Handlers,
         \A g \in Handlers : g # h => handler'[g] = handler[g]
  PROVE  SumOf(AtStake, Handlers)' = SumOf(AtStake, Handlers) + AtStake'[h] - AtStake[h]
<1>1. \A g \in Handlers : g # h => AtStake'[g] = AtStake[g]
  BY DEF AtStake
<1>2. \A g \in Handlers : AtStake[g] \in Int
  BY StakeSum
<1>3. \A g \in Handlers : AtStake'[g] \in Int
  <2>1. \A g \in Handlers : handler'[g].amount \in Nat
    BY AmountsNat DEF Shapes
  <2> QED
    BY <2>1 DEF AtStake
<1> HIDE DEF AtStake
<1> QED
  BY <1>1, <1>2, <1>3, SpendingAssumption, SumUpdate

\* What is on its way to the cluster without a request that waits for it.
Loose == SumOf(AmountsOf(orphans), orphans)

LEMMA ExposureIsSum == Exposure = spent + SumOf(AtStake, Handlers) + Loose
BY TotalIsSum DEF Exposure, Loose, AmountsOf

LEMMA LooseType ==
  ASSUME Shapes, IsFiniteSet(orphans)
  PROVE  Loose \in Nat /\ spent \in Nat
<1>1. spent \in Nat
  BY DEF Shapes
<1>2. \A tx \in orphans : AmountsOf(orphans)[tx] \in Nat /\ AmountsOf(orphans)[tx] \in Int
  BY OrphanAmounts DEF AmountsOf
<1>3. Loose \in Nat
  BY <1>2, SumType DEF Loose
<1> QED
  BY <1>1, <1>3

\* One request moves, and what it gives up covers what is spent or abandoned.
LEMMA RequestCaps ==
  ASSUME Shapes, Shapes', IsFiniteSet(orphans), IsFiniteSet(orphans'), NEW h \in Handlers,
         \A g \in Handlers : g # h => handler'[g] = handler[g],
         spent' + AtStake'[h] + Loose' <= spent + AtStake[h] + Loose
  PROVE  Exposure' <= Exposure
<1>1. SumOf(AtStake, Handlers)' = SumOf(AtStake, Handlers) + AtStake'[h] - AtStake[h]
  BY StakeStep
<1>2. AtStake[h] \in Nat /\ SumOf(AtStake, Handlers) \in Nat /\ Loose \in Nat /\ spent \in Nat
  BY StakeSum, LooseType
<1>3. AtStake'[h] \in Nat /\ Loose' \in Nat /\ spent' \in Nat
  <2>1. handler'[h].amount \in Nat
    BY AmountsNat DEF Shapes
  <2>2. AtStake'[h] \in Nat
    BY <2>1 DEF AtStake
  <2>3. (Shapes /\ IsFiniteSet(orphans) => Loose \in Nat /\ spent \in Nat)'
    BY LooseType, PTL
  <2> QED
    BY <2>2, <2>3
<1>4. Exposure = spent + SumOf(AtStake, Handlers) + Loose
  BY ExposureIsSum
<1>5. (Exposure = spent + SumOf(AtStake, Handlers) + Loose)'
  BY ExposureIsSum, PTL
<1> HIDE DEF AtStake, Loose
<1> QED
  BY <1>1, <1>2, <1>3, <1>4, <1>5

LEMMA RevokedRequest ==
  ASSUME IInv, IInv', IsFiniteSet(orphans), sessionRow = "REVOKED",
         NEW h \in Handlers, Request(h)
  PROVE  IsFiniteSet(orphans') /\ Exposure' <= Exposure
<1>1. /\ Shapes /\ Shapes' /\ handler[h] \in HandlerRecords
      /\ handler \in [Handlers -> HandlerRecords]
  BY DEF IInv, Shapes
<1>2. handler[h].amount \in Nat /\ AtStake[h] \in Nat /\ Loose \in Nat /\ spent \in Nat
  BY <1>1, AmountsNat, StakeSum, LooseType
<1>3. AtStake[h] = IF handler[h].at \in {"limit", "session", "submit", "sent"}
                   THEN handler[h].amount ELSE 0
  BY DEF AtStake
<1>4. ASSUME NEW r, handler' = [handler EXCEPT ![h] = r]
      PROVE  /\ \A g \in Handlers : g # h => handler'[g] = handler[g]
             /\ r.at \in {"idle", "landed"} => AtStake'[h] = 0
             /\ r.at \in {"session", "submit", "sent"} => AtStake'[h] = r.amount
  BY <1>1, <1>4 DEF AtStake
<1>5. ASSUME Return(h), UNCHANGED <<orphans, spent>>
      PROVE  IsFiniteSet(orphans') /\ Exposure' <= Exposure
  <2>1. /\ \A g \in Handlers : g # h => handler'[g] = handler[g]
        /\ AtStake'[h] = 0 /\ Loose' = Loose
    BY <1>4, <1>5, IdleRecord DEF Return, Loose
  <2> HIDE DEF AtStake, Loose
  <2>2. spent' + AtStake'[h] + Loose' <= spent + AtStake[h] + Loose
    BY <1>2, <1>5, <2>1
  <2> QED
    BY <1>1, <1>5, <2>1, <2>2, RequestCaps
<1>6. ASSUME NEW r, handler' = [handler EXCEPT ![h] = r], r.amount = handler[h].amount,
             r.at \in {"session", "submit", "sent"},
             handler[h].at \in {"limit", "session", "submit"}, UNCHANGED <<orphans, spent>>
      PROVE  IsFiniteSet(orphans') /\ Exposure' <= Exposure
  <2>1. /\ \A g \in Handlers : g # h => handler'[g] = handler[g]
        /\ AtStake'[h] = AtStake[h] /\ Loose' = Loose
    BY <1>3, <1>4, <1>6 DEF Loose
  <2> HIDE DEF AtStake, Loose
  <2>2. spent' + AtStake'[h] + Loose' <= spent + AtStake[h] + Loose
    BY <1>2, <1>6, <2>1
  <2> QED
    BY <1>1, <1>6, <2>1, <2>2, RequestCaps
<1>7. ASSUME NEW p \in {"session", "sent"}, Goto(h, p), handler[h].at \in {"limit", "submit"},
             UNCHANGED <<orphans, spent>>
      PROVE  IsFiniteSet(orphans') /\ Exposure' <= Exposure
  <2>1. PICK r : r = [handler[h] EXCEPT !.at = p]
    OBVIOUS
  <2>2. handler' = [handler EXCEPT ![h] = r] /\ r.at = p /\ r.amount = handler[h].amount
    BY <1>1, <1>7, <2>1 DEF Goto, HandlerRecords
  <2> QED
    BY <1>6, <1>7, <2>2
<1>8. CASE CheckDailyLimit(h)
  BY <1>5, <1>7, <1>8 DEF CheckDailyLimit, chain
<1>9. CASE ReadSession(h)
  <2>1. PICK r : r = [handler[h] EXCEPT !.nonce = sessionNonce, !.at = "submit"]
    OBVIOUS
  <2>2. handler' = [handler EXCEPT ![h] = r] /\ r.at = "submit" /\ r.amount = handler[h].amount
    BY <1>1, <1>9, <2>1 DEF ReadSession, HandlerRecords
  <2>3. handler[h].at = "session" /\ UNCHANGED <<orphans, spent>>
    BY <1>9 DEF ReadSession, chain
  <2> QED
    BY <1>6, <2>2, <2>3
<1>10. CASE Submit(h)
  BY <1>7, <1>10 DEF Submit, chain
<1>11. CASE ChainRefuses(h) \/ RecordSpending(h)
  BY <1>5, <1>11 DEF ChainRefuses, RecordSpending, chain
<1>12. CASE Land(h)
  <2>1. PICK r : r = [handler[h] EXCEPT !.at = "landed"]
    OBVIOUS
  <2>2. handler' = [handler EXCEPT ![h] = r] /\ r.at = "landed"
    BY <1>1, <1>12, <2>1 DEF Land, Goto, HandlerRecords
  <2>3. handler[h].at = "sent" /\ orphans' = orphans /\ spent' = spent + handler[h].amount
    BY <1>12 DEF Land, Execute, Transaction
  <2>4. /\ \A g \in Handlers : g # h => handler'[g] = handler[g]
        /\ AtStake'[h] = 0 /\ AtStake[h] = handler[h].amount /\ Loose' = Loose
    BY <1>3, <1>4, <2>2, <2>3 DEF Loose
  <2> HIDE DEF AtStake, Loose
  <2>5. spent' + AtStake'[h] + Loose' <= spent + AtStake[h] + Loose
    BY <1>2, <2>3, <2>4
  <2> QED
    BY <1>1, <2>3, <2>4, <2>5, RequestCaps
<1>13. CASE Abort(h)
  <2>1. Return(h) /\ spent' = spent
    BY <1>13 DEF Abort, chain
  <2>2. CASE handler[h].at # "sent"
    BY <1>5, <1>13, <2>1, <2>2 DEF Abort, Abandon
  <2>3. CASE handler[h].at = "sent"
    <3>1. PICK tx : tx = Transaction(h)
      OBVIOUS
    <3>2. orphans' = orphans \cup {tx} /\ tx.amount = handler[h].amount
      BY <1>13, <2>3, <3>1 DEF Abort, Abandon, Transaction
    <3>3. \A x \in orphans : x.amount \in Nat
      BY <1>1, OrphanAmounts
    <3>4. Loose' \in Nat /\ Loose' <= Loose + tx.amount
      BY <1>2, <3>2, <3>3, TransactionIn DEF Loose
    <3>5. /\ \A g \in Handlers : g # h => handler'[g] = handler[g]
          /\ AtStake'[h] = 0 /\ AtStake[h] = tx.amount
      BY <1>3, <1>4, <2>1, <2>3, <3>2, IdleRecord DEF Return
    <3>6. IsFiniteSet(orphans')
      BY <3>2, FS_AddElement
    <3> HIDE DEF AtStake, Loose
    <3>7. spent' + AtStake'[h] + Loose' <= spent + AtStake[h] + Loose
      BY <1>2, <2>1, <3>2, <3>4, <3>5
    <3> QED
      BY <1>1, <3>5, <3>6, <3>7, RequestCaps
  <2> QED
    BY <2>2, <2>3
<1>14. \A op, amount : ~Begin(h, op, amount)
  BY DEF Begin
<1> QED
  BY <1>8, <1>9, <1>10, <1>11, <1>12, <1>13, <1>14 DEF Request

LEMMA RevokedElsewhere ==
  ASSUME IInv, IInv', IsFiniteSet(orphans), sessionRow = "REVOKED",
         \/ \E tx \in orphans : LandOrphan(tx) \/ ExpireOrphan(tx)
         \/ SettleLink \/ RevokeSessionKey \/ Tick
  PROVE  IsFiniteSet(orphans') /\ Exposure' <= Exposure
<1>1. Shapes /\ handler' = handler /\ AtStake' = AtStake
  BY DEF IInv, LandOrphan, ExpireOrphan, SettleLink, RevokeSessionKey, Tick, AtStake
<1>2. SumOf(AtStake, Handlers) \in Nat /\ Loose \in Nat /\ spent \in Nat
  BY <1>1, StakeSum, LooseType
<1>3. Exposure = spent + SumOf(AtStake, Handlers) + Loose
  BY ExposureIsSum
<1>4. (Exposure = spent + SumOf(AtStake, Handlers) + Loose)'
  BY ExposureIsSum, PTL
<1>5. SumOf(AtStake, Handlers)' = SumOf(AtStake, Handlers)
  BY <1>1
<1>6. CASE SettleLink \/ RevokeSessionKey \/ Tick
  <2>1. orphans' = orphans /\ spent' = spent
    BY <1>6 DEF SettleLink, RevokeSessionKey, Tick, chain
  <2>2. Loose' = Loose
    BY <2>1 DEF Loose
  <2> HIDE DEF AtStake, Loose
  <2> QED
    BY <1>2, <1>3, <1>4, <1>5, <2>1, <2>2
<1>7. CASE \E tx \in orphans : LandOrphan(tx) \/ ExpireOrphan(tx)
  <2>1. PICK tx \in orphans : LandOrphan(tx) \/ ExpireOrphan(tx)
    BY <1>7
  <2>2. /\ orphans' = orphans \ {tx}
        /\ spent' = spent + tx.amount \/ spent' = spent
    BY <2>1 DEF LandOrphan, ExpireOrphan, Execute, chain
  <2>3. \A x \in orphans : x.amount \in Nat
    BY <1>1, OrphanAmounts
  <2>4. Loose = Loose' + tx.amount /\ Loose' \in Nat
    BY <2>2, <2>3, TransactionOut DEF Loose
  <2>5. IsFiniteSet(orphans')
    BY <2>2, FS_Subset
  <2>6. tx.amount \in Nat
    BY <2>3
  <2> HIDE DEF AtStake, Loose
  <2> QED
    BY <1>2, <1>3, <1>4, <1>5, <2>2, <2>4, <2>5, <2>6
<1> QED
  BY <1>6, <1>7

\* The safety half of RevocationEndsSpending, for any number of requests: once
\* revokeSessionKey has changed the row, what has left the vault and what may
\* still leave it never grow again, whatever lands, fails or restarts.
THEOREM RevocationCaps == Spec => RevocationCapsSpending
<1> DEFINE Caps == sessionRow = "REVOKED" => sessionRow' = "REVOKED" /\ Exposure' <= Exposure
<1> DEFINE FewOrphans == IsFiniteSet(orphans)
<1>1. Init => IsFiniteSet(orphans)
  BY FS_EmptySet DEF Init
<1>2. ASSUME IInv, IsFiniteSet(orphans), [Next]_vars PROVE IsFiniteSet(orphans')
  <2>1. CASE orphans' = orphans
    BY <1>2, <2>1
  <2>2. ASSUME NEW h \in Handlers, Request(h)
        PROVE  orphans' = orphans \/ orphans' = orphans \cup {Transaction(h)}
    BY <2>2 DEF Request, Begin, CheckDailyLimit, ReadSession, RecordSpending, Submit, Land,
                ChainRefuses, Abort, Abandon
  <2>3. ASSUME NEW h \in Handlers, Request(h) PROVE IsFiniteSet(orphans')
    BY <1>2, <2>2, <2>3, FS_AddElement
  <2>4. ASSUME NEW tx \in orphans, LandOrphan(tx) \/ ExpireOrphan(tx) PROVE IsFiniteSet(orphans')
    BY <1>2, <2>4, FS_Subset DEF LandOrphan, ExpireOrphan
  <2>5. SettleLink \/ RevokeSessionKey \/ Tick \/ UNCHANGED vars => orphans' = orphans
    BY DEF SettleLink, RevokeSessionKey, Tick, vars
  <2> QED
    BY <1>2, <2>1, <2>3, <2>4, <2>5 DEF Next
<1>3. ASSUME IInv, IsFiniteSet(orphans), [Next]_vars PROVE [Caps]_vars
  <2> SUFFICES ASSUME Next, sessionRow = "REVOKED"
               PROVE  sessionRow' = "REVOKED" /\ Exposure' <= Exposure
    BY <1>3
  <2>1. IInv'
    BY <1>3, InvStep
  <2>2. sessionRow' = "REVOKED"
    BY DEF Next, Request, Begin, CheckDailyLimit, ReadSession, RecordSpending, Submit, Land,
           ChainRefuses, Abort, LandOrphan, ExpireOrphan, SettleLink, RevokeSessionKey, Tick, db
  <2>3. Exposure' <= Exposure
    BY <1>3, <2>1, RevokedRequest, RevokedElsewhere DEF Next
  <2> QED
    BY <2>2, <2>3
<1>4. Spec => []FewOrphans
  <2>1. Init => FewOrphans
    BY <1>1
  <2>2. IInv /\ FewOrphans /\ [Next]_vars => FewOrphans'
    BY <1>2
  <2> HIDE DEF FewOrphans
  <2> QED
    BY <2>1, <2>2, Invariance, PTL DEF Spec
<1>5. Spec => [][Caps]_vars
  <2>1. IInv /\ FewOrphans /\ [Next]_vars => [Caps]_vars
    BY <1>3
  <2> HIDE DEF Caps, FewOrphans
  <2> QED
    BY <2>1, <1>4, Invariance, PTL DEF Spec
<1> QED
  BY <1>5 DEF RevocationCapsSpending
=============================================================================
