---------------------- MODULE PaymentLinkServiceProofs ----------------------
(***************************************************************************)
(* Proofs about PaymentLinkService for every number of links, users,       *)
(* concurrent handlers and abandoned transactions, every lifetime of a     *)
(* link and every set of addressees.                                       *)
(***************************************************************************)
EXTENDS PaymentLinkService, FiniteSetTheorems, TLAPS

-----------------------------------------------------------------------------
(* The inductive invariant.                                                *)

EscrowStatuses == {"NONE", "ACTIVE", "CLAIMED", "CANCELLED", "REFUNDED"}

\* Statuses of a record whose link was funded.
LiveStatuses == {"ACTIVE", "CLAIMED", "CANCELLED", "EXPIRED"}

Records ==
  [status : RecordStatuses, envelope : BOOLEAN, expiresAt : 0 .. MaxTime,
   claimedBy : Users \cup {NoUser}]

HandlerRecords ==
  [op : {"none", "create", "claim", "cancel", "refund"},
   at : {"idle", "session", "escrow", "submit", "sent", "landed",
         "redeem", "sync", "failed", "next"},
   code : Codes \cup {NoCode}, user : Users \cup {NoUser}, nonce : Nat,
   seen : EscrowStatuses, todo : SUBSET Codes]

SentTransactions ==
  [op : {"create", "claim", "cancel", "refund"}, code : Codes,
   user : Users \cup {NoUser}, nonce : Nat]

\* TypeOK without the bound on the nonces, and the types of the escrows.
Shapes ==
  /\ record \in [Codes -> Records]
  /\ sessionActive \in BOOLEAN
  /\ handler \in [Handlers -> HandlerRecords]
  /\ orphans \subseteq SentTransactions
  /\ sessionNonce \in Nat
  /\ escrowStatus \in [Codes -> EscrowStatuses]
  /\ escrowPayee \in [Codes -> Users \cup {NoUser}]
  /\ clock \in 0 .. MaxTime

Opened == {c \in Codes : escrowStatus[c] # "NONE"}
Cancelled == {c \in Codes : escrowStatus[c] = "CANCELLED"}

\* The session nonce counts the links it opened and those it cancelled.
Nonces ==
  /\ sessionNonce = Cardinality(Opened) + Cardinality(Cancelled)
  /\ \A h \in Handlers : handler[h].nonce <= sessionNonce
  /\ \A tx \in orphans : tx.nonce <= sessionNonce

\* What each handler may rely on where it is: createClaimLink owns a PENDING
\* record; the others work on a link whose record went ACTIVE; and a
\* confirmed transaction has done to the escrow what its operation says.
Creating(x) ==
  /\ x.op = "create" /\ x.at \in {"session", "submit", "sent", "landed", "failed"}
  /\ x.code \in Codes /\ record[x.code].status = "PENDING"
  /\ x.at = "landed" => escrowStatus[x.code] # "NONE"

Claiming(x) ==
  /\ x.op = "claim" /\ x.at \in {"escrow", "submit", "sent", "landed", "redeem"}
  /\ x.user \in Users
  /\ x.code \in Codes /\ record[x.code].status \in LiveStatuses
  /\ x.at \in {"landed", "redeem"} =>
       escrowStatus[x.code] = "CLAIMED" /\ escrowPayee[x.code] = x.user

Cancelling(x) ==
  /\ x.op = "cancel" /\ x.at \in {"session", "submit", "sent", "landed"}
  /\ x.code \in Codes /\ record[x.code].status \in LiveStatuses
  /\ x.at = "landed" => escrowStatus[x.code] = "CANCELLED"

Sweeping(x) ==
  /\ x.op = "refund" /\ x.at \in {"next", "submit", "sent", "landed", "sync"}
  /\ x.at # "next" => x.code \in Codes /\ record[x.code].status \in LiveStatuses
  /\ x.at = "landed" => escrowStatus[x.code] = "REFUNDED"
  /\ x.at = "sync" => x.seen = escrowStatus[x.code] /\ x.seen \in Chain!Settled

Placed(x) ==
  /\ x = Idle \/ Creating(x) \/ Claiming(x) \/ Cancelling(x) \/ Sweeping(x)
  /\ \A c \in x.todo : record[c].status \in LiveStatuses

Places == \A h \in Handlers : Placed(handler[h])

\* No two handlers create the same link.
OneCreator ==
  \A g, h \in Handlers :
    g # h /\ handler[g].op = "create" /\ handler[h].op = "create" =>
      handler[g].code # handler[h].code

\* A transaction on its way belongs to a link that has a record.
OrphansHaveRecords ==
  \A tx \in orphans : /\ record[tx.code].status # "NONE"
                      /\ tx.op = "claim" => tx.user \in Users

IInv ==
  /\ Shapes /\ Nonces /\ Places /\ OneCreator /\ OrphansHaveRecords
  /\ RecordFollowsChain /\ ClaimantWasPaid

-----------------------------------------------------------------------------
(* Facts the steps share.                                                  *)

LEMMA IdleFacts ==
  /\ Idle \in HandlerRecords /\ Idle.op = "none" /\ Idle.at = "idle"
  /\ Idle.nonce = 0 /\ Idle.todo = {}
  /\ \A rest \in SUBSET Codes :
       /\ Loop(rest) \in HandlerRecords /\ Loop(rest).nonce = 0
       /\ Loop(rest) = Idle \/ /\ Loop(rest).op = "refund"
                               /\ Loop(rest).at = "next"
                               /\ Loop(rest).todo = rest
BY DEF Idle, Loop, HandlerRecords, EscrowStatuses

LEMMA InvInit == Init => IInv
<1> SUFFICES ASSUME Init PROVE IInv
  OBVIOUS
<1>1. escrowStatus = [c \in Codes |-> "NONE"] /\ escrowPayee = [c \in Codes |-> NoUser]
      /\ clock = 0
  BY DEF Init, Chain!Init
<1>2. NoRecord \in Records
  BY ServiceAssumption DEF NoRecord, Records, RecordStatuses
<1>3. sessionActive \in BOOLEAN
  BY DEF Init
<1>4. Shapes
  <2>1. clock \in 0 .. MaxTime
    BY <1>1, ServiceAssumption
  <2> QED
    BY <1>1, <1>2, <1>3, <2>1, IdleFacts DEF Init, Shapes, EscrowStatuses
<1>5. Nonces
  <2>1. Opened = {} /\ Cancelled = {}
    BY <1>1 DEF Opened, Cancelled
  <2>2. Cardinality(Opened) = 0 /\ Cardinality(Cancelled) = 0
    BY <2>1, FS_EmptySet
  <2> QED
    BY <2>2, IdleFacts DEF Init, Nonces
<1>6. Places /\ OneCreator /\ OrphansHaveRecords
  BY IdleFacts DEF Init, Places, Placed, OneCreator, OrphansHaveRecords
<1>7. RecordFollowsChain /\ ClaimantWasPaid
  BY <1>1 DEF Init, NoRecord, RecordFollowsChain, Reports, ClaimantWasPaid
<1> QED
  BY <1>4, <1>5, <1>6, <1>7 DEF IInv

\* The escrows only go forward.
EscrowsGrow ==
  \A c \in Codes :
    /\ escrowStatus[c] # "NONE" => escrowStatus'[c] # "NONE"
    /\ escrowStatus[c] \in Chain!Settled =>
         escrowStatus'[c] = escrowStatus[c] /\ escrowPayee'[c] = escrowPayee[c]

\* A handler that does not act stays where it may be, as long as links stay
\* live, escrows go forward, and nobody takes its PENDING record.
LEMMA OthersPlaced ==
  ASSUME IInv, NEW h \in Handlers, handler'[h] = handler[h], EscrowsGrow,
         \A c \in Codes : record[c].status \in LiveStatuses =>
                            record'[c].status \in LiveStatuses,
         handler[h].op = "create" =>
           record'[handler[h].code].status = "PENDING"
  PROVE  Placed(handler[h])'
<1>1. Placed(handler[h]) /\ handler[h] \in HandlerRecords
  BY DEF IInv, Places, Shapes
<1>2. \A c \in handler'[h].todo : record'[c].status \in LiveStatuses
  BY <1>1 DEF Placed, HandlerRecords
<1>3. CASE handler[h] = Idle
  BY <1>2, <1>3 DEF Placed
<1>4. CASE Creating(handler[h])
  BY <1>2, <1>4 DEF Placed, Creating, EscrowsGrow
<1>5. CASE Claiming(handler[h])
  BY <1>2, <1>5 DEF Placed, Claiming, EscrowsGrow, Chain!Settled
<1>6. CASE Cancelling(handler[h])
  BY <1>2, <1>6 DEF Placed, Cancelling, EscrowsGrow, Chain!Settled
<1>7. CASE Sweeping(handler[h])
  BY <1>2, <1>7 DEF Placed, Sweeping, EscrowsGrow, Chain!Settled
<1> QED
  BY <1>1, <1>3, <1>4, <1>5, <1>6, <1>7 DEF Placed

LEMMA TransactionType ==
  ASSUME IInv, NEW h \in Handlers, handler[h].at \in {"submit", "sent"}
  PROVE  /\ Transaction(h) \in SentTransactions
         /\ Transaction(h).code = handler[h].code
         /\ Transaction(h).op = handler[h].op
         /\ Transaction(h).user = handler[h].user
         /\ Transaction(h).nonce = handler[h].nonce
         /\ record[handler[h].code].status # "NONE"
         /\ handler[h].op = "claim" => handler[h].user \in Users
<1>1. handler[h] \in HandlerRecords /\ Placed(handler[h])
  BY DEF IInv, Shapes, Places
<1>2. /\ handler[h].op \in {"create", "claim", "cancel", "refund"}
      /\ handler[h].code \in Codes
      /\ record[handler[h].code].status # "NONE"
      /\ handler[h].op = "claim" => handler[h].user \in Users
  BY <1>1, IdleFacts
  DEF Placed, Creating, Claiming, Cancelling, Sweeping, LiveStatuses
<1> QED
  BY <1>1, <1>2 DEF Transaction, SentTransactions, HandlerRecords

\* A handler moves without touching rows or chain, perhaps leaving behind
\* the transaction it sent.
LEMMA QuietKeepsInv ==
  ASSUME IInv, NEW h \in Handlers, NEW x \in HandlerRecords,
         handler' = [handler EXCEPT ![h] = x],
         \/ orphans' = orphans
         \/ handler[h].at = "sent" /\ orphans' = orphans \cup {Transaction(h)},
         UNCHANGED <<db, chain>>,
         Placed(x), x.nonce <= sessionNonce,
         x.op = "create" => handler[h].op = "create" /\ x.code = handler[h].code
  PROVE  IInv'
<1>1. UNCHANGED <<record, sessionActive, sessionNonce, escrowStatus, escrowPayee, clock>>
  BY DEF db, chain
<1>2. handler'[h] = x /\ \A g \in Handlers : g # h => handler'[g] = handler[g]
  BY DEF IInv, Shapes
<1>3. Shapes'
  <2>1. orphans' \subseteq SentTransactions
    BY TransactionType DEF IInv, Shapes
  <2> QED
    BY <1>1, <2>1 DEF IInv, Shapes
<1>4. Nonces'
  <2>1. Opened' = Opened /\ Cancelled' = Cancelled
    BY <1>1 DEF Opened, Cancelled
  <2>2. \A g \in Handlers : handler'[g].nonce <= sessionNonce'
    BY <1>1, <1>2 DEF IInv, Nonces
  <2>3. \A tx \in orphans' : tx.nonce <= sessionNonce'
    BY <1>1, TransactionType DEF IInv, Nonces
  <2> QED
    BY <1>1, <2>1, <2>2, <2>3 DEF IInv, Nonces
<1>5. Places'
  <2>1. EscrowsGrow
    BY <1>1 DEF EscrowsGrow
  <2>2. ASSUME NEW g \in Handlers, g # h PROVE Placed(handler[g])'
    <3>1. handler[g].op = "create" => record[handler[g].code].status = "PENDING"
      BY IdleFacts
      DEF IInv, Places, Placed, Creating, Claiming, Cancelling, Sweeping
    <3> QED
      BY <1>1, <1>2, <2>1, <2>2, <3>1, OthersPlaced
  <2>3. Placed(handler[h])'
    BY <1>1, <1>2 DEF Placed, Creating, Claiming, Cancelling, Sweeping
  <2> QED
    BY <2>2, <2>3 DEF Places
<1>6. OneCreator'
  BY <1>2 DEF IInv, OneCreator
<1>7. OrphansHaveRecords'
  BY <1>1, TransactionType DEF IInv, OrphansHaveRecords
<1>8. RecordFollowsChain' /\ ClaimantWasPaid'
  BY <1>1 DEF IInv, RecordFollowsChain, ClaimantWasPaid
<1> QED
  BY <1>3, <1>4, <1>5, <1>6, <1>7, <1>8 DEF IInv

\* What a handler holds while it runs.
LEMMA HandlerFacts ==
  ASSUME IInv, NEW h \in Handlers
  PROVE  /\ handler[h] \in HandlerRecords /\ Placed(handler[h])
         /\ handler[h].nonce \in Nat /\ handler[h].nonce <= sessionNonce
         /\ sessionNonce \in Nat
         /\ handler[h].todo \subseteq Codes
         /\ \A c \in handler[h].todo : record[c].status \in LiveStatuses
         /\ handler[h].op = "create" => Creating(handler[h])
         /\ handler[h].op = "claim" => Claiming(handler[h])
         /\ handler[h].op = "cancel" => Cancelling(handler[h])
         /\ handler[h].op = "refund" => Sweeping(handler[h])
         /\ handler[h].op = "none" => handler[h] = Idle
<1>1. handler[h] \in HandlerRecords /\ Placed(handler[h])
  BY DEF IInv, Shapes, Places
<1>2. handler[h].nonce <= sessionNonce /\ sessionNonce \in Nat
  BY DEF IInv, Shapes, Nonces
<1> QED
  BY <1>1, <1>2, IdleFacts
  DEF HandlerRecords, Placed, Creating, Claiming, Cancelling, Sweeping

\* Idle, and the loop of the sweep, are places a handler may always return to.
LEMMA RestingPlaced ==
  ASSUME IInv, NEW h \in Handlers
  PROVE  /\ Placed(Idle) /\ Placed(Loop(handler[h].todo))
         /\ \A rest \in SUBSET handler[h].todo : Placed(Loop(rest))
<1>1. Placed(Idle)
  BY IdleFacts DEF Placed
<1>2. ASSUME NEW rest \in SUBSET handler[h].todo PROVE Placed(Loop(rest))
  <2>1. rest \in SUBSET Codes
    BY HandlerFacts
  <2>2. CASE Loop(rest) = Idle
    BY <1>1, <2>2
  <2>3. CASE Loop(rest).op = "refund" /\ Loop(rest).at = "next" /\ Loop(rest).todo = rest
    BY <1>2, <2>3, HandlerFacts DEF Placed, Sweeping
  <2> QED
    BY <2>1, <2>2, <2>3, IdleFacts
<1> QED
  BY <1>1, <1>2

\* Where a thrown error takes a handler.
LEMMA ThrowFacts ==
  ASSUME IInv, NEW h \in Handlers, Throw(h),
         handler[h].at \in {"session", "escrow", "submit", "sent", "landed"}
  PROVE  \E x \in HandlerRecords :
           /\ handler' = [handler EXCEPT ![h] = x]
           /\ Placed(x) /\ x.nonce <= sessionNonce
           /\ x.op = "create" => handler[h].op = "create" /\ x.code = handler[h].code
<1>1. CASE handler[h].op = "create"
  <2> DEFINE x == [handler[h] EXCEPT !.at = "failed"]
  <2>1. handler' = [handler EXCEPT ![h].at = "failed"]
    BY <1>1 DEF Throw, Goto
  <2>2. handler' = [handler EXCEPT ![h] = x]
    BY <2>1
  <2>3. /\ x \in HandlerRecords /\ x.op = "create" /\ x.at = "failed"
        /\ x.code = handler[h].code /\ x.nonce = handler[h].nonce
        /\ x.todo = handler[h].todo
    BY <1>1, HandlerFacts DEF HandlerRecords
  <2>4. Placed(x)
    <3> HIDE DEF x
    <3> QED
      BY <1>1, <2>3, HandlerFacts DEF Placed, Creating
  <2> HIDE DEF x
  <2> QED
    BY <1>1, <2>2, <2>3, <2>4, HandlerFacts
<1>2. CASE handler[h].op = "refund"
  <2> DEFINE x == Loop(handler[h].todo)
  <2>1. handler' = [handler EXCEPT ![h] = x]
    BY <1>2 DEF Throw, NextLink
  <2>2. x \in HandlerRecords /\ x.nonce = 0 /\ x.op # "create"
    BY HandlerFacts, IdleFacts
  <2>3. Placed(x)
    BY RestingPlaced
  <2> HIDE DEF x
  <2>4. x.nonce <= sessionNonce
    BY <2>2, HandlerFacts
  <2> QED
    BY <2>1, <2>2, <2>3, <2>4
<1>3. CASE handler[h].op \notin {"create", "refund"}
  <2>1. handler' = [handler EXCEPT ![h] = Idle]
    BY <1>3 DEF Throw, Return
  <2>2. Idle.nonce <= sessionNonce
    BY IdleFacts, HandlerFacts
  <2> QED
    BY <2>1, <2>2, IdleFacts, RestingPlaced
<1> QED
  BY <1>1, <1>2, <1>3

LEMMA ThrowKeepsInv ==
  ASSUME IInv, NEW h \in Handlers, Throw(h),
         handler[h].at \in {"session", "escrow", "submit", "sent", "landed"},
         \/ orphans' = orphans
         \/ handler[h].at = "sent" /\ orphans' = orphans \cup {Transaction(h)},
         UNCHANGED <<db, chain>>
  PROVE  IInv'
BY ThrowFacts, QuietKeepsInv

LEMMA AbandonFacts ==
  ASSUME NEW h \in Handlers, Abandon(h)
  PROVE  \/ orphans' = orphans
         \/ handler[h].at = "sent" /\ orphans' = orphans \cup {Transaction(h)}
BY DEF Abandon

\* A handler goes on to another await of the same operation.
LEMMA MoveKeepsInv ==
  ASSUME IInv, NEW h \in Handlers, NEW place, Goto(h, place),
         UNCHANGED <<db, orphans, chain>>,
         \/ place = "sent" /\ handler[h].at = "submit"
         \/ place = "submit" /\ handler[h].at = "escrow"
         \/ place = "redeem" /\ handler[h].at = "landed" /\ handler[h].op = "claim"
  PROVE  IInv'
<1> DEFINE x == [handler[h] EXCEPT !.at = place]
<1>1. handler' = [handler EXCEPT ![h] = x]
  BY DEF Goto
<1>2. /\ x \in HandlerRecords /\ x.at = place /\ x.op = handler[h].op
      /\ x.code = handler[h].code /\ x.nonce = handler[h].nonce
      /\ x.user = handler[h].user /\ x.todo = handler[h].todo
      /\ x.seen = handler[h].seen
  BY HandlerFacts DEF HandlerRecords
<1>3. Placed(x)
  <2> HIDE DEF x
  <2>1. handler[h].op \in {"create", "claim", "cancel", "refund"}
    BY HandlerFacts, IdleFacts DEF HandlerRecords
  <2>2. CASE handler[h].op = "create"
    BY <1>2, <2>2, HandlerFacts DEF Placed, Creating
  <2>3. CASE handler[h].op = "claim"
    BY <1>2, <2>3, HandlerFacts DEF Placed, Claiming
  <2>4. CASE handler[h].op = "cancel"
    BY <1>2, <2>4, HandlerFacts DEF Placed, Cancelling
  <2>5. CASE handler[h].op = "refund"
    BY <1>2, <2>5, HandlerFacts DEF Placed, Sweeping
  <2> QED
    BY <2>1, <2>2, <2>3, <2>4, <2>5
<1> HIDE DEF x
<1> QED
  BY <1>1, <1>2, <1>3, HandlerFacts, QuietKeepsInv

\* A request starts on a link whose record is ACTIVE.
LEMMA StartKeepsInv ==
  ASSUME IInv, NEW h \in Handlers,
         \/ \E c \in Codes : CancelClaimLink(h, c) \/ ClaimExpired(h, c)
         \/ \E c \in Codes, u \in Users : Claim(h, c, u)
         \/ SweepExpired(h)
  PROVE  IInv'
<1>1. UNCHANGED <<db, orphans, chain>>
  BY DEF CancelClaimLink, ClaimExpired, Claim, SweepExpired
<1>2. ASSUME NEW c \in Codes, CancelClaimLink(h, c) PROVE IInv'
  <2> DEFINE x == [Idle EXCEPT !.op = "cancel", !.at = "session", !.code = c]
  <2>1. handler' = [handler EXCEPT ![h] = x] /\ record[c].status = "ACTIVE"
    BY <1>2 DEF CancelClaimLink
  <2>2. /\ x \in HandlerRecords /\ x.op = "cancel" /\ x.at = "session"
        /\ x.code = c /\ x.nonce = 0 /\ x.todo = {}
    BY IdleFacts DEF HandlerRecords, Idle
  <2> HIDE DEF x
  <2>3. Placed(x)
    BY <2>1, <2>2 DEF Placed, Cancelling, LiveStatuses
  <2>4. x.nonce <= sessionNonce
    BY <2>2, HandlerFacts
  <2> QED
    BY <1>1, <2>1, <2>2, <2>3, <2>4, QuietKeepsInv
<1>3. ASSUME NEW c \in Codes, NEW u \in Users, Claim(h, c, u) PROVE IInv'
  <2> DEFINE x == [Idle EXCEPT !.op = "claim", !.at = "escrow", !.code = c, !.user = u]
  <2>1. handler' = [handler EXCEPT ![h] = x] /\ record[c].status = "ACTIVE"
    BY <1>3 DEF Claim
  <2>2. /\ x \in HandlerRecords /\ x.op = "claim" /\ x.at = "escrow"
        /\ x.code = c /\ x.user = u /\ x.nonce = 0 /\ x.todo = {}
    BY IdleFacts DEF HandlerRecords, Idle
  <2> HIDE DEF x
  <2>3. Placed(x)
    BY <2>1, <2>2 DEF Placed, Claiming, LiveStatuses
  <2>4. x.nonce <= sessionNonce
    BY <2>2, HandlerFacts
  <2> QED
    BY <1>1, <2>1, <2>2, <2>3, <2>4, QuietKeepsInv
<1>4. ASSUME (\E c \in Codes : ClaimExpired(h, c)) \/ SweepExpired(h)
      PROVE  IInv'
  <2>1. PICK T \in SUBSET Codes :
          /\ \A c \in T : record[c].status = "ACTIVE"
          /\ handler' = [handler EXCEPT ![h] =
               [Idle EXCEPT !.op = "refund", !.at = "next", !.todo = T]]
    BY <1>4 DEF ClaimExpired, SweepExpired, Sweepable
  <2> DEFINE x == [Idle EXCEPT !.op = "refund", !.at = "next", !.todo = T]
  <2>2. /\ x \in HandlerRecords /\ x.op = "refund" /\ x.at = "next"
        /\ x.nonce = 0 /\ x.todo = T
    BY IdleFacts DEF HandlerRecords, Idle
  <2>3. handler' = [handler EXCEPT ![h] = x]
    BY <2>1
  <2> HIDE DEF x
  <2>4. Placed(x)
    BY <2>1, <2>2 DEF Placed, Sweeping, LiveStatuses
  <2>5. x.nonce <= sessionNonce
    BY <2>2, HandlerFacts
  <2> QED
    BY <1>1, <2>2, <2>3, <2>4, <2>5, QuietKeepsInv
<1> QED
  BY <1>2, <1>3, <1>4

\* refundExpiredLink decides by what it reads on chain.
LEMMA RefundDecisionKeepsInv ==
  ASSUME IInv, NEW h \in Handlers, NEW c \in Codes, RefundExpiredLink(h, c)
  PROVE  IInv'
<1> DEFINE rest == handler[h].todo \ {c}
           here == [handler[h] EXCEPT !.code = c, !.todo = rest,
                                      !.seen = escrowStatus[c]]
           toSubmit == [here EXCEPT !.at = "submit"]
           toSync == [here EXCEPT !.at = "sync"]
<1>1. /\ handler[h].at = "next" /\ c \in handler[h].todo
      /\ UNCHANGED <<db, orphans, chain>>
      /\ \/ handler' = [handler EXCEPT ![h] = Loop(rest)]
         \/ handler' = [handler EXCEPT ![h] = toSubmit]
         \/ /\ handler' = [handler EXCEPT ![h] = toSync]
            /\ escrowStatus[c] \notin {"NONE", "ACTIVE"}
  BY DEF RefundExpiredLink
<1>2. handler[h].op = "refund" /\ record[c].status \in LiveStatuses
  BY <1>1, HandlerFacts, IdleFacts
  DEF Placed, Creating, Claiming, Cancelling, Sweeping
<1>3. rest \in SUBSET handler[h].todo /\ rest \in SUBSET Codes
  BY HandlerFacts
<1>4. /\ toSubmit \in HandlerRecords /\ toSubmit.op = "refund"
      /\ toSubmit.at = "submit" /\ toSubmit.code = c /\ toSubmit.todo = rest
      /\ toSubmit.nonce = handler[h].nonce
  BY <1>2, <1>3, HandlerFacts DEF HandlerRecords, IInv, Shapes
<1>5. /\ toSync \in HandlerRecords /\ toSync.op = "refund" /\ toSync.at = "sync"
      /\ toSync.code = c /\ toSync.todo = rest /\ toSync.seen = escrowStatus[c]
      /\ toSync.nonce = handler[h].nonce
  BY <1>2, <1>3, HandlerFacts DEF HandlerRecords, IInv, Shapes
<1> HIDE DEF rest, here, toSubmit, toSync
<1>6. CASE handler' = [handler EXCEPT ![h] = Loop(rest)]
  <2>1. Loop(rest).nonce <= sessionNonce
    BY <1>3, IdleFacts, HandlerFacts
  <2>2. Loop(rest) \in HandlerRecords /\ Loop(rest).op # "create"
    BY <1>3, IdleFacts
  <2>3. Placed(Loop(rest))
    BY <1>3, RestingPlaced
  <2> QED
    BY <1>1, <1>6, <2>1, <2>2, <2>3, QuietKeepsInv
<1>7. CASE handler' = [handler EXCEPT ![h] = toSubmit]
  <2>1. Placed(toSubmit)
    BY <1>2, <1>3, <1>4, HandlerFacts DEF Placed, Sweeping
  <2> QED
    BY <1>1, <1>4, <1>7, <2>1, HandlerFacts, QuietKeepsInv
<1>8. CASE /\ handler' = [handler EXCEPT ![h] = toSync]
           /\ escrowStatus[c] \notin {"NONE", "ACTIVE"}
  <2>1. escrowStatus[c] \in Chain!Settled
    BY <1>8 DEF IInv, Shapes, EscrowStatuses, Chain!Settled
  <2>2. Placed(toSync)
    BY <1>2, <1>3, <1>5, <2>1, HandlerFacts DEF Placed, Sweeping
  <2> QED
    BY <1>1, <1>5, <1>8, <2>2, HandlerFacts, QuietKeepsInv
<1> QED
  BY <1>1, <1>6, <1>7, <1>8

\* Every other step of a handler that only reads, waits, throws or stops.
LEMMA WaitKeepsInv ==
  ASSUME IInv, NEW h \in Handlers,
         \/ ReadSession(h) \/ ReadEscrow(h) \/ Redeem(h) \/ Submit(h)
         \/ ChainRefuses(h) \/ LoseConfirmation(h) \/ Abort(h)
  PROVE  IInv'
<1>1. ASSUME ReadSession(h) PROVE IInv'
  <2>1. CASE sessionActive
    <3> DEFINE x == [handler[h] EXCEPT !.nonce = sessionNonce, !.at = "submit"]
    <3>1. /\ handler[h].at = "session" /\ handler' = [handler EXCEPT ![h] = x]
          /\ UNCHANGED <<db, orphans, chain>>
      BY <1>1, <2>1 DEF ReadSession
    <3>2. /\ x \in HandlerRecords /\ x.at = "submit" /\ x.op = handler[h].op
          /\ x.code = handler[h].code /\ x.nonce = sessionNonce
          /\ x.todo = handler[h].todo
      BY HandlerFacts DEF HandlerRecords
    <3> HIDE DEF x
    <3>3. handler[h].op \in {"create", "cancel"}
      BY <3>1, HandlerFacts, IdleFacts
      DEF Placed, Creating, Claiming, Cancelling, Sweeping
    <3>4. Placed(x)
      BY <3>2, <3>3, HandlerFacts DEF Placed, Creating, Cancelling
    <3>5. x.nonce <= sessionNonce
      BY <3>2, HandlerFacts
    <3> QED
      BY <3>1, <3>2, <3>4, <3>5, QuietKeepsInv
  <2>2. CASE ~sessionActive
    BY <1>1, <2>2, ThrowKeepsInv DEF ReadSession
  <2> QED
    BY <2>1, <2>2
<1>2. ASSUME ReadEscrow(h) PROVE IInv'
  BY <1>2, MoveKeepsInv, ThrowKeepsInv DEF ReadEscrow
<1>3. ASSUME Return(h), Abandon(h), UNCHANGED <<db, chain>> PROVE IInv'
  <2>1. Idle.nonce <= sessionNonce
    BY IdleFacts, HandlerFacts
  <2> QED
    BY <1>3, <2>1, IdleFacts, RestingPlaced, AbandonFacts, QuietKeepsInv DEF Return
<1>4. ASSUME Return(h), UNCHANGED <<db, orphans, chain>> PROVE IInv'
  <2>1. Idle.nonce <= sessionNonce
    BY IdleFacts, HandlerFacts
  <2> QED
    BY <1>4, <2>1, IdleFacts, RestingPlaced, QuietKeepsInv DEF Return
<1>5. ASSUME Redeem(h) PROVE IInv'
  BY <1>4, <1>5, MoveKeepsInv DEF Redeem
<1>6. ASSUME Submit(h) PROVE IInv'
  BY <1>6, MoveKeepsInv DEF Submit
<1>7. ASSUME ChainRefuses(h) PROVE IInv'
  BY <1>7, ThrowKeepsInv DEF ChainRefuses
<1>8. ASSUME LoseConfirmation(h) PROVE IInv'
  BY <1>8, AbandonFacts, ThrowKeepsInv DEF LoseConfirmation
<1>9. ASSUME Abort(h) PROVE IInv'
  BY <1>3, <1>9 DEF Abort
<1> QED
  BY <1>1, <1>2, <1>5, <1>6, <1>7, <1>8, <1>9

-----------------------------------------------------------------------------
(* Writing a record.                                                       *)

\* A handler writes r to the record of c and goes on as x: what r reports
\* has happened on chain, and no other handler is creating c.
LEMMA WriteKeepsInv ==
  ASSUME IInv, NEW h \in Handlers, NEW c \in Codes, NEW r \in Records,
         NEW x \in HandlerRecords,
         record' = [record EXCEPT ![c] = r],
         handler' = [handler EXCEPT ![h] = x],
         UNCHANGED <<sessionActive, orphans, chain>>,
         \/ x = Idle
         \/ x.op = "refund" /\ x.at = "next" /\ x.todo \subseteq handler[h].todo
         \/ /\ x.op = "create" /\ x.at = "session" /\ x.code = c /\ x.todo = {}
            /\ r.status = "PENDING",
         x.nonce <= sessionNonce,
         \/ handler[h].op = "create" /\ handler[h].code = c
         \/ record[c].status # "PENDING",
         r.status # "NONE",
         record[c].status \in LiveStatuses => r.status \in LiveStatuses,
         Reports(r.status, escrowStatus[c]),
         r.claimedBy # NoUser =>
           escrowStatus[c] = "CLAIMED" /\ escrowPayee[c] = r.claimedBy
  PROVE  IInv'
<1>1. UNCHANGED <<sessionNonce, escrowStatus, escrowPayee, clock>>
  BY DEF chain
<1>2. handler'[h] = x /\ \A g \in Handlers : g # h => handler'[g] = handler[g]
  BY DEF IInv, Shapes
<1>3. record'[c] = r /\ \A b \in Codes : b # c => record'[b] = record[b]
  BY DEF IInv, Shapes
<1>4. \A g \in Handlers : g # h /\ handler[g].op = "create" =>
        /\ handler[g].code # c /\ handler[g].code \in Codes
        /\ record[handler[g].code].status = "PENDING"
  BY HandlerFacts DEF IInv, OneCreator, Creating
<1>5. \A b \in Codes : record[b].status \in LiveStatuses =>
                        record'[b].status \in LiveStatuses
  BY <1>3
<1>6. Shapes'
  BY <1>1 DEF IInv, Shapes
<1>7. Nonces'
  <2>1. Opened' = Opened /\ Cancelled' = Cancelled
    BY <1>1 DEF Opened, Cancelled
  <2>2. \A g \in Handlers : handler'[g].nonce <= sessionNonce'
    BY <1>1, <1>2 DEF IInv, Nonces
  <2> QED
    BY <1>1, <2>1, <2>2 DEF IInv, Nonces
<1>8. Places'
  <2>1. EscrowsGrow
    BY <1>1 DEF EscrowsGrow
  <2>2. ASSUME NEW g \in Handlers, g # h PROVE Placed(handler[g])'
    BY <1>2, <1>3, <1>4, <1>5, <2>1, <2>2, OthersPlaced
  <2>3. Placed(handler[h])'
    <3>1. CASE x = Idle
      BY <1>2, <3>1, IdleFacts DEF Placed
    <3>2. CASE x.op = "refund" /\ x.at = "next" /\ x.todo \subseteq handler[h].todo
      BY <1>2, <1>5, <3>2, HandlerFacts DEF Placed, Sweeping
    <3>3. CASE /\ x.op = "create" /\ x.at = "session" /\ x.code = c /\ x.todo = {}
               /\ r.status = "PENDING"
      BY <1>2, <1>3, <3>3 DEF Placed, Creating
    <3> QED
      BY <3>1, <3>2, <3>3
  <2> QED
    BY <2>2, <2>3 DEF Places
<1>9. OneCreator'
  BY <1>2, <1>4, IdleFacts DEF IInv, OneCreator
<1>10. OrphansHaveRecords'
  BY <1>3 DEF IInv, OrphansHaveRecords, Shapes, SentTransactions
<1>11. RecordFollowsChain'
  BY <1>1, <1>3 DEF IInv, RecordFollowsChain, Reports
<1>12. ClaimantWasPaid'
  BY <1>1, <1>3 DEF IInv, ClaimantWasPaid
<1> QED
  BY <1>6, <1>7, <1>8, <1>9, <1>10, <1>11, <1>12 DEF IInv

\* A record may be written once more, with what the escrow came to, when it
\* is live, or by its creator while it is PENDING.
FinalStays ==
  \A c \in Codes : record[c].status \in FinalStatuses =>
    record'[c].status = record[c].status

\* The record of c is written with the outcome the escrow already has.
LEMMA OutcomeKeepsInv ==
  ASSUME IInv, NEW h \in Handlers, NEW c \in Codes, NEW r \in Records,
         NEW x \in HandlerRecords,
         record' = [record EXCEPT ![c] = r],
         handler' = [handler EXCEPT ![h] = x],
         UNCHANGED <<sessionActive, orphans, chain>>,
         x = Idle \/ x = Loop(handler[h].todo),
         record[c].status \in LiveStatuses,
         r.status \in {"CLAIMED", "CANCELLED", "EXPIRED"},
         Reports(r.status, escrowStatus[c]),
         r.claimedBy # NoUser =>
           escrowStatus[c] = "CLAIMED" /\ escrowPayee[c] = r.claimedBy
  PROVE  IInv' /\ FinalStays
<1>1. /\ x.nonce <= sessionNonce
      /\ \/ x = Idle
         \/ x.op = "refund" /\ x.at = "next" /\ x.todo \subseteq handler[h].todo
  BY IdleFacts, HandlerFacts
<1>2. /\ record[c].status # "PENDING" /\ r.status # "NONE"
      /\ r.status \in LiveStatuses
  BY DEF LiveStatuses
<1>3. IInv'
  BY <1>1, <1>2, WriteKeepsInv
<1>4. record[c].status \in FinalStatuses => r.status = record[c].status
  BY DEF IInv, RecordFollowsChain, Reports, LiveStatuses, FinalStatuses
<1>5. record'[c] = r /\ \A b \in Codes : b # c => record'[b] = record[b]
  BY DEF IInv, Shapes
<1> QED
  BY <1>3, <1>4, <1>5 DEF FinalStays

LEMMA RecordStep ==
  ASSUME IInv, NEW h \in Handlers,
         \/ \E c \in Codes : CreateClaimLink(h, c)
         \/ MarkFailed(h) \/ Activate(h) \/ MarkClaimed(h) \/ MarkCancelled(h)
         \/ SyncRecord(h) \/ MarkExpired(h)
  PROVE  IInv' /\ FinalStays
<1> DEFINE k == handler[h].code
<1>1. ASSUME NEW c \in Codes, CreateClaimLink(h, c) PROVE IInv' /\ FinalStays
  <2> DEFINE r == [record[c] EXCEPT !.status = "PENDING",
                                    !.expiresAt = clock + LinkLifetime]
             x == [Idle EXCEPT !.op = "create", !.at = "session", !.code = c]
  <2>1. /\ record[c] = NoRecord /\ clock + LinkLifetime < MaxTime
        /\ record' = [record EXCEPT ![c] = r]
        /\ handler' = [handler EXCEPT ![h] = x]
        /\ UNCHANGED <<sessionActive, orphans, chain>>
    BY <1>1 DEF CreateClaimLink
  <2>2. record[c].status = "NONE" /\ record[c].claimedBy = NoUser
    BY <2>1 DEF NoRecord
  <2>3. r \in Records /\ r.status = "PENDING" /\ r.claimedBy = NoUser
    <3>1. clock + LinkLifetime \in 0 .. MaxTime
      BY <2>1, ServiceAssumption DEF IInv, Shapes
    <3>2. record[c] \in Records
      BY DEF IInv, Shapes
    <3> QED
      BY <2>2, <3>1, <3>2 DEF Records, RecordStatuses
  <2>4. /\ x \in HandlerRecords /\ x.op = "create" /\ x.at = "session"
        /\ x.code = c /\ x.nonce = 0 /\ x.todo = {}
    BY IdleFacts DEF HandlerRecords, Idle
  <2>5. Reports(r.status, escrowStatus[c])
    BY <2>3 DEF Reports
  <2>6. record[c].status \notin LiveStatuses
    BY <2>2 DEF LiveStatuses
  <2> HIDE DEF r, x
  <2>7. x.nonce <= sessionNonce
    BY <2>4, HandlerFacts
  <2>8. IInv'
    BY <2>1, <2>2, <2>3, <2>4, <2>5, <2>6, <2>7, WriteKeepsInv
  <2>9. FinalStays
    BY <2>1, <2>2 DEF FinalStays, FinalStatuses, IInv, Shapes
  <2> QED
    BY <2>8, <2>9
<1>2. ASSUME MarkFailed(h) \/ Activate(h) PROVE IInv' /\ FinalStays
  <2>1. /\ handler[h].op = "create" /\ Creating(handler[h])
        /\ k \in Codes /\ record[k].status = "PENDING"
    BY <1>2, HandlerFacts, IdleFacts
    DEF MarkFailed, Activate, Placed, Creating, Claiming, Cancelling, Sweeping
  <2>2. PICK r \in Records :
          /\ record' = [record EXCEPT ![k] = r]
          /\ r.claimedBy = record[k].claimedBy
          /\ \/ r.status = "FAILED"
             \/ r.status = "ACTIVE" /\ handler[h].at = "landed"
    <3>1. CASE MarkFailed(h)
      <4> DEFINE r == [record[k] EXCEPT !.status = "FAILED"]
      <4>1. record' = [record EXCEPT ![k] = r]
        BY <3>1 DEF MarkFailed, SetStatus
      <4>2. r \in Records /\ r.status = "FAILED" /\ r.claimedBy = record[k].claimedBy
        BY <2>1 DEF IInv, Shapes, Records, RecordStatuses
      <4> QED
        BY <4>1, <4>2
    <3>2. CASE Activate(h)
      <4> DEFINE r == [record[k] EXCEPT !.status = "ACTIVE", !.envelope = TRUE]
      <4>1. record' = [record EXCEPT ![k] = r] /\ handler[h].at = "landed"
        BY <3>2 DEF Activate
      <4>2. r \in Records /\ r.status = "ACTIVE" /\ r.claimedBy = record[k].claimedBy
        BY <2>1 DEF IInv, Shapes, Records, RecordStatuses
      <4> QED
        BY <4>1, <4>2
    <3> QED
      BY <1>2, <3>1, <3>2
  <2>3. /\ handler' = [handler EXCEPT ![h] = Idle]
        /\ UNCHANGED <<sessionActive, orphans, chain>>
    BY <1>2 DEF MarkFailed, Activate, Return
  <2>4. Reports(r.status, escrowStatus[k])
    BY <2>1, <2>2 DEF Reports, Creating
  <2>5. r.claimedBy # NoUser =>
          escrowStatus[k] = "CLAIMED" /\ escrowPayee[k] = r.claimedBy
    BY <2>1, <2>2 DEF IInv, ClaimantWasPaid
  <2>6. record[k].status \notin LiveStatuses
    BY <2>1 DEF LiveStatuses
  <2>7. Idle.nonce <= sessionNonce
    BY IdleFacts, HandlerFacts
  <2>8. IInv'
    BY <2>1, <2>2, <2>3, <2>4, <2>5, <2>6, <2>7, IdleFacts, WriteKeepsInv
  <2>9. FinalStays
    BY <2>1, <2>2 DEF FinalStays, FinalStatuses, IInv, Shapes
  <2> QED
    BY <2>8, <2>9
<1>3. ASSUME MarkClaimed(h) PROVE IInv' /\ FinalStays
  <2> DEFINE r == [record[k] EXCEPT !.status = "CLAIMED",
                                    !.claimedBy = handler[h].user]
  <2>1. Claiming(handler[h]) /\ handler[h].at = "redeem"
    BY <1>3, HandlerFacts, IdleFacts
    DEF MarkClaimed, Placed, Creating, Claiming, Cancelling, Sweeping
  <2>2. /\ record' = [record EXCEPT ![k] = r]
        /\ handler' = [handler EXCEPT ![h] = Idle]
        /\ UNCHANGED <<sessionActive, orphans, chain>>
    BY <1>3 DEF MarkClaimed, Return
  <2>3. k \in Codes /\ record[k] \in Records /\ handler[h].user \in Users
    BY <2>1 DEF Claiming, IInv, Shapes
  <2>4. /\ r \in Records /\ r.status = "CLAIMED"
        /\ r.claimedBy = handler[h].user
    BY <2>3 DEF Records, RecordStatuses
  <2> HIDE DEF r
  <2>5. /\ record[k].status \in LiveStatuses
        /\ escrowStatus[k] = "CLAIMED" /\ escrowPayee[k] = handler[h].user
    BY <2>1 DEF Claiming
  <2>6. Reports(r.status, escrowStatus[k])
    BY <2>4, <2>5 DEF Reports
  <2> QED
    BY <2>2, <2>3, <2>4, <2>5, <2>6, IdleFacts, OutcomeKeepsInv
<1>4. ASSUME MarkCancelled(h) \/ MarkExpired(h) \/ SyncRecord(h)
      PROVE  IInv' /\ FinalStays
  <2>1. PICK st \in {"CLAIMED", "CANCELLED", "EXPIRED"} :
          /\ SetStatus(k, st)
          /\ k \in Codes /\ record[k].status \in LiveStatuses
          /\ Reports(st, escrowStatus[k])
    <3>1. CASE MarkCancelled(h)
      BY <3>1, HandlerFacts DEF MarkCancelled, Cancelling, Reports
    <3>2. CASE MarkExpired(h)
      BY <3>2, HandlerFacts DEF MarkExpired, Sweeping, Reports
    <3>3. CASE SyncRecord(h)
      <4>1. Sweeping(handler[h]) /\ handler[h].at = "sync"
        BY <3>3, HandlerFacts, IdleFacts
        DEF SyncRecord, Placed, Creating, Claiming, Cancelling, Sweeping
      <4>2. /\ k \in Codes /\ record[k].status \in LiveStatuses
            /\ handler[h].seen = escrowStatus[k]
            /\ handler[h].seen \in {"CLAIMED", "CANCELLED", "REFUNDED"}
        BY <4>1 DEF Sweeping, Chain!Settled
      <4> DEFINE st == PaymentLinkStatus(handler[h].seen)
      <4>3. SetStatus(k, st)
        BY <3>3 DEF SyncRecord
      <4>4. st \in {"CLAIMED", "CANCELLED", "EXPIRED"} /\ Reports(st, escrowStatus[k])
        BY <4>2 DEF PaymentLinkStatus, Reports
      <4> HIDE DEF st
      <4> QED
        BY <4>2, <4>3, <4>4
    <3> QED
      BY <1>4, <3>1, <3>2, <3>3
  <2> DEFINE r == [record[k] EXCEPT !.status = st]
  <2>2. record' = [record EXCEPT ![k] = r]
    BY <2>1 DEF SetStatus
  <2>3. r \in Records /\ r.status = st /\ r.claimedBy = record[k].claimedBy
    BY <2>1 DEF IInv, Shapes, Records, RecordStatuses
  <2> HIDE DEF r
  <2>4. /\ UNCHANGED <<sessionActive, orphans, chain>>
        /\ \/ handler' = [handler EXCEPT ![h] = Idle]
           \/ handler' = [handler EXCEPT ![h] = Loop(handler[h].todo)]
    BY <1>4 DEF MarkCancelled, MarkExpired, SyncRecord, Return, NextLink
  <2>5. r.claimedBy # NoUser =>
          escrowStatus[k] = "CLAIMED" /\ escrowPayee[k] = r.claimedBy
    BY <2>1, <2>3 DEF IInv, ClaimantWasPaid
  <2>6. Idle \in HandlerRecords /\ Loop(handler[h].todo) \in HandlerRecords
    BY IdleFacts, HandlerFacts
  <2> QED
    BY <2>1, <2>2, <2>3, <2>4, <2>5, <2>6, OutcomeKeepsInv
<1> QED
  BY <1>1, <1>2, <1>3, <1>4

-----------------------------------------------------------------------------
(* What happens on chain.                                                  *)

\* What an executed transaction does to its escrow and to the nonce.
ExecutesOn(tx) ==
  /\ \A c \in Codes : c # tx.code =>
       escrowStatus'[c] = escrowStatus[c] /\ escrowPayee'[c] = escrowPayee[c]
  /\ \/ /\ tx.op = "create" /\ escrowStatus[tx.code] = "NONE"
        /\ escrowStatus'[tx.code] = "ACTIVE"
     \/ /\ tx.op = "claim" /\ escrowStatus[tx.code] = "ACTIVE"
        /\ escrowStatus'[tx.code] = "CLAIMED" /\ escrowPayee'[tx.code] = tx.user
     \/ /\ tx.op = "cancel" /\ escrowStatus[tx.code] = "ACTIVE"
        /\ escrowStatus'[tx.code] = "CANCELLED"
     \/ /\ tx.op = "refund" /\ escrowStatus[tx.code] = "ACTIVE"
        /\ escrowStatus'[tx.code] = "REFUNDED"
  /\ sessionNonce' = IF tx.op \in SessionOps THEN sessionNonce + 1 ELSE sessionNonce

\* The escrow of a link with a record changes as its program allows: the
\* nonce still counts, and rows and claimants stay true.
LEMMA ExecuteFacts ==
  ASSUME IInv, NEW tx \in SentTransactions, Execute(tx),
         record[tx.code].status # "NONE", tx.op = "claim" => tx.user \in Users,
         UNCHANGED db
  PROVE  /\ ExecutesOn(tx)
         /\ escrowStatus' \in [Codes -> EscrowStatuses]
         /\ escrowPayee' \in [Codes -> Users \cup {NoUser}]
         /\ clock' = clock
         /\ sessionNonce' \in Nat /\ sessionNonce <= sessionNonce'
         /\ sessionNonce' = Cardinality(Opened') + Cardinality(Cancelled')
         /\ EscrowsGrow
         /\ RecordFollowsChain' /\ ClaimantWasPaid'
<1>1. /\ tx.code \in Codes /\ tx.op \in {"create", "claim", "cancel", "refund"}
      /\ tx.user \in Users \cup {NoUser}
  BY DEF SentTransactions
<1>2. /\ escrowStatus \in [Codes -> EscrowStatuses]
      /\ escrowPayee \in [Codes -> Users \cup {NoUser}]
      /\ sessionNonce \in Nat
  BY DEF IInv, Shapes
<1>3. /\ ExecutesOn(tx) /\ clock' = clock
      /\ escrowStatus' \in [Codes -> EscrowStatuses]
      /\ escrowPayee' \in [Codes -> Users \cup {NoUser}]
  <2>1. CASE tx.op = "create"
    BY <1>1, <1>2, <2>1 DEF Execute, Chain!Open, ExecutesOn, EscrowStatuses
  <2>2. CASE tx.op = "claim"
    BY <1>1, <1>2, <2>2
    DEF Execute, Chain!Claim, Chain!Settle, ExecutesOn, EscrowStatuses
  <2>3. CASE tx.op = "cancel"
    BY <1>1, <1>2, <2>3
    DEF Execute, Chain!Cancel, Chain!Settle, ExecutesOn, EscrowStatuses
  <2>4. CASE tx.op = "refund"
    BY <1>1, <1>2, <2>4
    DEF Execute, Chain!Refund, Chain!Settle, ExecutesOn, EscrowStatuses
  <2> QED
    BY <1>1, <2>1, <2>2, <2>3, <2>4
<1>4. sessionNonce' \in Nat /\ sessionNonce <= sessionNonce'
  BY <1>2, <1>3 DEF ExecutesOn
<1>5. EscrowsGrow
  BY <1>3 DEF ExecutesOn, EscrowsGrow, Chain!Settled
<1>6. sessionNonce' = Cardinality(Opened') + Cardinality(Cancelled')
  <2>1. /\ IsFiniteSet(Opened) /\ IsFiniteSet(Cancelled)
        /\ sessionNonce = Cardinality(Opened) + Cardinality(Cancelled)
    BY ServiceAssumption, FS_Subset DEF Opened, Cancelled, IInv, Nonces
  <2>2. Cardinality(Opened) \in Nat /\ Cardinality(Cancelled) \in Nat
    BY <2>1, FS_CardinalityType
  <2>3. CASE tx.op = "create"
    <3>1. /\ Opened' = Opened \cup {tx.code} /\ tx.code \notin Opened
          /\ Cancelled' = Cancelled
      BY <1>1, <1>3, <2>3 DEF ExecutesOn, Opened, Cancelled
    <3>2. Cardinality(Opened') = Cardinality(Opened) + 1
      BY <2>1, <3>1, FS_AddElement
    <3>3. sessionNonce' = sessionNonce + 1
      BY <1>3, <2>3 DEF ExecutesOn, SessionOps
    <3> QED
      BY <2>1, <2>2, <3>1, <3>2, <3>3
  <2>4. CASE tx.op = "cancel"
    <3>1. /\ Cancelled' = Cancelled \cup {tx.code} /\ tx.code \notin Cancelled
          /\ Opened' = Opened
      BY <1>1, <1>3, <2>4 DEF ExecutesOn, Opened, Cancelled
    <3>2. Cardinality(Cancelled') = Cardinality(Cancelled) + 1
      BY <2>1, <3>1, FS_AddElement
    <3>3. sessionNonce' = sessionNonce + 1
      BY <1>3, <2>4 DEF ExecutesOn, SessionOps
    <3> QED
      BY <2>1, <2>2, <3>1, <3>2, <3>3
  <2>5. CASE tx.op \in {"claim", "refund"}
    <3>1. Cancelled' = Cancelled /\ Opened' = Opened
      BY <1>1, <1>3, <2>5 DEF ExecutesOn, Opened, Cancelled
    <3>2. sessionNonce' = sessionNonce
      BY <1>3, <2>5 DEF ExecutesOn, SessionOps
    <3> QED
      BY <2>1, <3>1, <3>2
  <2> QED
    BY <1>1, <2>3, <2>4, <2>5
<1>7. RecordFollowsChain'
  BY <1>1, <1>3 DEF ExecutesOn, IInv, RecordFollowsChain, Reports, db
<1>8. ClaimantWasPaid'
  BY <1>1, <1>3 DEF ExecutesOn, IInv, ClaimantWasPaid, db
<1> QED
  BY <1>3, <1>4, <1>5, <1>6, <1>7, <1>8

LEMMA LandStep ==
  ASSUME IInv,
         \/ \E h \in Handlers : Land(h)
         \/ \E tx \in orphans : LandOrphan(tx)
  PROVE  IInv'
<1>1. PICK tx \in SentTransactions :
        /\ Execute(tx)
        /\ record[tx.code].status # "NONE" /\ (tx.op = "claim" => tx.user \in Users)
        /\ UNCHANGED db
        /\ orphans' \subseteq orphans
        /\ \/ handler' = handler
           \/ \E h \in Handlers :
                /\ handler[h].at = "sent"
                /\ tx.op = handler[h].op /\ tx.code = handler[h].code
                /\ tx.user = handler[h].user
                /\ handler' = [handler EXCEPT ![h].at = "landed"]
  <2>1. ASSUME NEW h \in Handlers, Land(h)
        PROVE  /\ Transaction(h) \in SentTransactions
               /\ Transaction(h).op = handler[h].op
               /\ Transaction(h).code = handler[h].code
               /\ Transaction(h).user = handler[h].user
               /\ record[Transaction(h).code].status # "NONE"
               /\ Transaction(h).op = "claim" => Transaction(h).user \in Users
               /\ handler[h].at = "sent" /\ Execute(Transaction(h))
               /\ UNCHANGED <<db, orphans>>
               /\ handler' = [handler EXCEPT ![h].at = "landed"]
    BY <2>1, TransactionType DEF Land, Goto
  <2>2. ASSUME NEW tx \in orphans, LandOrphan(tx)
        PROVE  /\ tx \in SentTransactions /\ record[tx.code].status # "NONE"
               /\ tx.op = "claim" => tx.user \in Users
               /\ Execute(tx) /\ UNCHANGED <<db, handler>>
               /\ orphans' \subseteq orphans
    BY <2>2 DEF LandOrphan, IInv, Shapes, OrphansHaveRecords
  <2> QED
    BY <2>1, <2>2
<1>2. /\ ExecutesOn(tx)
      /\ escrowStatus' \in [Codes -> EscrowStatuses]
      /\ escrowPayee' \in [Codes -> Users \cup {NoUser}]
      /\ clock' = clock
      /\ sessionNonce' \in Nat /\ sessionNonce <= sessionNonce'
      /\ sessionNonce' = Cardinality(Opened') + Cardinality(Cancelled')
      /\ EscrowsGrow
      /\ RecordFollowsChain' /\ ClaimantWasPaid'
  BY <1>1, ExecuteFacts
<1>3. \A g \in Handlers :
        /\ handler'[g].op = handler[g].op /\ handler'[g].code = handler[g].code
        /\ handler'[g].nonce = handler[g].nonce
        /\ handler'[g] \in HandlerRecords
        /\ \/ handler'[g] = handler[g]
           \/ /\ handler[g].at = "sent" /\ handler'[g].at = "landed"
              /\ tx.op = handler[g].op /\ tx.code = handler[g].code
              /\ tx.user = handler[g].user
              /\ handler'[g].user = handler[g].user
              /\ handler'[g].todo = handler[g].todo
  BY <1>1 DEF IInv, Shapes, HandlerRecords
<1>4. Shapes'
  <2>1. handler' \in [Handlers -> HandlerRecords]
    BY <1>1, <1>3 DEF IInv, Shapes
  <2> QED
    BY <1>1, <1>2, <2>1 DEF IInv, Shapes, db
<1>5. Nonces'
  <2>1. \A g \in Handlers : handler'[g].nonce <= sessionNonce'
    BY <1>2, <1>3, HandlerFacts
  <2>2. \A t \in orphans' : t.nonce <= sessionNonce'
    BY <1>1, <1>2 DEF IInv, Nonces, Shapes, SentTransactions
  <2> QED
    BY <1>2, <2>1, <2>2 DEF Nonces
<1>6. Places'
  <2> SUFFICES ASSUME NEW g \in Handlers PROVE Placed(handler[g])'
    BY DEF Places
  <2>1. CASE handler'[g] = handler[g]
    <3>1. handler[g].op = "create" => record[handler[g].code].status = "PENDING"
      BY HandlerFacts DEF Creating
    <3> QED
      BY <1>1, <1>2, <2>1, <3>1, OthersPlaced DEF db
  <2>2. CASE /\ handler[g].at = "sent" /\ handler'[g].at = "landed"
             /\ tx.op = handler[g].op /\ tx.code = handler[g].code
             /\ tx.user = handler[g].user
             /\ handler'[g].user = handler[g].user
             /\ handler'[g].todo = handler[g].todo
    <3>1. record' = record
      BY <1>1 DEF db
    <3>2. \A c \in handler'[g].todo : record'[c].status \in LiveStatuses
      BY <2>2, <3>1, HandlerFacts
    <3>3. CASE tx.op = "create"
      BY <1>2, <1>3, <2>2, <3>1, <3>2, <3>3, HandlerFacts
      DEF ExecutesOn, Placed, Creating
    <3>4. CASE tx.op = "claim"
      BY <1>2, <1>3, <2>2, <3>1, <3>2, <3>4, HandlerFacts
      DEF ExecutesOn, Placed, Claiming
    <3>5. CASE tx.op = "cancel"
      BY <1>2, <1>3, <2>2, <3>1, <3>2, <3>5, HandlerFacts
      DEF ExecutesOn, Placed, Cancelling
    <3>6. CASE tx.op = "refund"
      BY <1>2, <1>3, <2>2, <3>1, <3>2, <3>6, HandlerFacts
      DEF ExecutesOn, Placed, Sweeping
    <3> QED
      BY <3>3, <3>4, <3>5, <3>6 DEF SentTransactions
  <2> QED
    BY <1>3, <2>1, <2>2
<1>7. OneCreator'
  BY <1>3 DEF IInv, OneCreator
<1>8. OrphansHaveRecords'
  BY <1>1 DEF IInv, OrphansHaveRecords, db
<1> QED
  BY <1>2, <1>4, <1>5, <1>6, <1>7, <1>8 DEF IInv

\* Strangers refund expired links, transactions expire, the session is
\* revoked, time passes.
LEMMA EnvironmentStep ==
  ASSUME IInv,
         \/ \E c \in Codes : ForeignRefund(c)
         \/ \E tx \in orphans : ExpireOrphan(tx)
         \/ RevokeSessionKey \/ Tick \/ UNCHANGED vars
  PROVE  IInv'
<1>1. UNCHANGED <<record, handler, sessionNonce>> /\ orphans' \subseteq orphans
  BY DEF ForeignRefund, ExpireOrphan, RevokeSessionKey, Tick, vars, db, chain
<1>2. sessionActive' \in BOOLEAN
  <2>1. CASE RevokeSessionKey
    BY <2>1 DEF RevokeSessionKey
  <2>2. CASE sessionActive' = sessionActive
    BY <2>2 DEF IInv, Shapes
  <2> QED
    BY <2>1, <2>2 DEF ForeignRefund, ExpireOrphan, Tick, vars, db
<1>3. clock' \in 0 .. MaxTime
  BY ServiceAssumption
  DEF ForeignRefund, ExpireOrphan, RevokeSessionKey, Tick, vars, chain, IInv,
      Shapes, Chain!Advance, Chain!Refund, Chain!Settle
<1>4. \/ UNCHANGED <<escrowStatus, escrowPayee>>
      \/ \E c \in Codes : /\ escrowStatus[c] = "ACTIVE"
                          /\ escrowStatus' = [escrowStatus EXCEPT ![c] = "REFUNDED"]
                          /\ escrowPayee' = escrowPayee
  BY DEF ForeignRefund, ExpireOrphan, RevokeSessionKey, Tick, vars, chain,
         Chain!Advance, Chain!Refund, Chain!Settle
<1>5. /\ escrowStatus' \in [Codes -> EscrowStatuses]
      /\ escrowPayee' = escrowPayee
      /\ \A c \in Codes : \/ escrowStatus'[c] = escrowStatus[c]
                          \/ /\ escrowStatus[c] = "ACTIVE"
                             /\ escrowStatus'[c] = "REFUNDED"
  BY <1>4 DEF IInv, Shapes, EscrowStatuses
<1>6. EscrowsGrow
  BY <1>5 DEF EscrowsGrow, Chain!Settled
<1>7. Shapes'
  BY <1>1, <1>2, <1>3, <1>5 DEF IInv, Shapes
<1>8. Nonces'
  <2>1. Opened' = Opened /\ Cancelled' = Cancelled
    BY <1>5 DEF Opened, Cancelled
  <2> QED
    BY <1>1, <2>1 DEF IInv, Nonces
<1>9. Places'
  <2> SUFFICES ASSUME NEW h \in Handlers PROVE Placed(handler[h])'
    BY DEF Places
  <2>1. handler[h].op = "create" => record[handler[h].code].status = "PENDING"
    BY HandlerFacts DEF Creating
  <2> QED
    BY <1>1, <1>6, <2>1, OthersPlaced
<1>10. OneCreator' /\ OrphansHaveRecords'
  BY <1>1 DEF IInv, OneCreator, OrphansHaveRecords
<1>11. RecordFollowsChain' /\ ClaimantWasPaid'
  BY <1>1, <1>5 DEF IInv, RecordFollowsChain, Reports, ClaimantWasPaid
<1> QED
  BY <1>7, <1>8, <1>9, <1>10, <1>11 DEF IInv

LEMMA InvStep == IInv /\ [Next]_vars => IInv'
<1> SUFFICES ASSUME IInv, [Next]_vars PROVE IInv'
  OBVIOUS
<1>1. ASSUME NEW h \in Handlers, HandlerStep(h) PROVE IInv'
  BY <1>1, RecordStep, StartKeepsInv, RefundDecisionKeepsInv, WaitKeepsInv, LandStep
  DEF HandlerStep
<1> QED
  BY <1>1, LandStep, EnvironmentStep DEF Next

-----------------------------------------------------------------------------
(* The theorems.                                                           *)

LEMMA Invariance == Spec => []IInv
BY InvInit, InvStep, PTL DEF Spec

\* The rows and the handlers keep their shape, and a session signs at most
\* two transactions per code, for any number of codes and handlers.
THEOREM TypeCorrect == Spec => []TypeOK
<1>1. IInv => TypeOK
  <2> SUFFICES ASSUME IInv PROVE TypeOK
    OBVIOUS
  <2> DEFINE n == 2 * Cardinality(Codes)
  <2>1. /\ IsFiniteSet(Opened) /\ Cardinality(Opened) <= Cardinality(Codes)
        /\ IsFiniteSet(Cancelled) /\ Cardinality(Cancelled) <= Cardinality(Codes)
    BY ServiceAssumption, FS_Subset DEF Opened, Cancelled
  <2>2. /\ Cardinality(Codes) \in Nat /\ Cardinality(Opened) \in Nat
        /\ Cardinality(Cancelled) \in Nat
    BY <2>1, ServiceAssumption, FS_CardinalityType
  <2>3. n \in Nat /\ sessionNonce \in 0 .. n
    BY <2>1, <2>2 DEF IInv, Nonces
  <2> HIDE DEF n
  <2>4. handler \in [Handlers ->
         [op : {"none", "create", "claim", "cancel", "refund"},
          at : {"idle", "session", "escrow", "submit", "sent", "landed",
                "redeem", "sync", "failed", "next"},
          code : Codes \cup {NoCode}, user : Users \cup {NoUser},
          nonce : 0 .. n,
          seen : {"NONE", "ACTIVE", "CLAIMED", "CANCELLED", "REFUNDED"},
          todo : SUBSET Codes]]
    <3>1. \A h \in Handlers : handler[h].nonce \in 0 .. n
      BY <2>3, HandlerFacts
    <3> QED
      BY <3>1 DEF IInv, Shapes, HandlerRecords, EscrowStatuses
  <2>5. orphans \subseteq [op : {"create", "claim", "cancel", "refund"}, code : Codes,
                          user : Users \cup {NoUser}, nonce : 0 .. n]
    <3>1. \A tx \in orphans : tx \in SentTransactions /\ tx.nonce \in 0 .. n
      BY <2>3 DEF IInv, Shapes, Nonces, SentTransactions
    <3> QED
      BY <3>1 DEF SentTransactions
  <2> QED
    BY <2>3, <2>4, <2>5 DEF n, IInv, Shapes, Records, TypeOK, Transactions
<1> QED
  BY <1>1, Invariance, PTL

\* Whichever handlers, retries and late transactions race for a link, its
\* record reports CLAIMED, CANCELLED or EXPIRED only after the escrow was
\* released in exactly that way, and ACTIVE only after it was funded.
THEOREM RecordsFollowChain == Spec => []RecordFollowsChain
BY Invariance, PTL DEF IInv

\* The user a record names as claimant is the one the escrow paid.
THEOREM ClaimantPaid == Spec => []ClaimantWasPaid
BY Invariance, PTL DEF IInv

\* No step rewrites a final record, although the updates go by key alone.
THEOREM FinalRecords == Spec => FinalRecordsStay
<1>1. ASSUME IInv, [Next]_vars PROVE [FinalStays]_vars
  <2>1. CASE record' = record
    BY <2>1 DEF FinalStays
  <2>2. ASSUME NEW h \in Handlers, HandlerStep(h) PROVE FinalStays \/ record' = record
    BY <1>1, <2>2, RecordStep
    DEF HandlerStep, CancelClaimLink, ClaimExpired, RefundExpiredLink, Claim,
        SweepExpired, ReadSession, ReadEscrow, Redeem, Submit, Land, ChainRefuses,
        LoseConfirmation, Abort, db
  <2>3. ASSUME NEW tx \in orphans, LandOrphan(tx) \/ ExpireOrphan(tx)
        PROVE  record' = record
    BY <2>3 DEF LandOrphan, ExpireOrphan, db
  <2>4. ASSUME \/ \E c \in Codes : ForeignRefund(c)
               \/ RevokeSessionKey \/ Tick
        PROVE  record' = record
    BY <2>4 DEF ForeignRefund, RevokeSessionKey, Tick, db
  <2> QED
    BY <1>1, <2>1, <2>2, <2>3, <2>4 DEF Next
<1> QED
  BY <1>1, Invariance, PTL DEF Spec, FinalRecordsStay, FinalStays

\* The service, its retries and its abandoned transactions take every link
\* only through the life LinkEscrow promises: one funding, one payout.
THEOREM ServiceImplementsEscrow == Spec => Chain!Spec
<1>1. Init => Chain!Init
  BY DEF Init
<1>2. ASSUME IInv, [Next]_vars PROVE [Chain!Next]_Chain!escrowVars
  <2>1. ASSUME NEW tx \in SentTransactions, Execute(tx), tx.op = "claim" => tx.user \in Users
        PROVE  Chain!Next
    <3>1. tx.code \in Codes /\ record[tx.code].expiresAt \in 0 .. MaxTime
      BY <1>2 DEF SentTransactions, IInv, Shapes, Records
    <3> QED
      BY <2>1, <3>1 DEF Execute, Chain!Next
  <2>2. CASE UNCHANGED <<escrowStatus, escrowAmount, escrowDeadline, escrowPayee,
                         escrowPaid, clock>>
    BY <2>2 DEF Chain!escrowVars
  <2>3. ASSUME NEW h \in Handlers, HandlerStep(h)
        PROVE  \/ Land(h)
               \/ UNCHANGED <<escrowStatus, escrowAmount, escrowDeadline,
                              escrowPayee, escrowPaid, clock>>
    BY <2>3
    DEF HandlerStep, CreateClaimLink, CancelClaimLink, ClaimExpired,
        RefundExpiredLink, Claim, SweepExpired, ReadSession, ReadEscrow, Redeem,
        MarkFailed, Activate, MarkClaimed, MarkCancelled, SyncRecord, MarkExpired,
        Submit, ChainRefuses, LoseConfirmation, Abort, chain
  <2>4. ASSUME NEW h \in Handlers, Land(h) PROVE Chain!Next
    BY <1>2, <2>1, <2>4, TransactionType DEF Land
  <2>5. ASSUME NEW tx \in orphans, LandOrphan(tx) PROVE Chain!Next
    BY <1>2, <2>1, <2>5 DEF LandOrphan, IInv, Shapes, OrphansHaveRecords
  <2>6. ASSUME NEW tx \in orphans, ExpireOrphan(tx)
        PROVE  UNCHANGED <<escrowStatus, escrowAmount, escrowDeadline,
                           escrowPayee, escrowPaid, clock>>
    BY <2>6 DEF ExpireOrphan, chain
  <2>7. ASSUME NEW c \in Codes, ForeignRefund(c) PROVE Chain!Next
    BY <2>7 DEF ForeignRefund, Chain!Next
  <2>8. Tick => Chain!Next
    BY DEF Tick, Chain!Next
  <2>9. RevokeSessionKey \/ UNCHANGED vars =>
          UNCHANGED <<escrowStatus, escrowAmount, escrowDeadline, escrowPayee,
                      escrowPaid, clock>>
    BY DEF RevokeSessionKey, vars, chain
  <2> QED
    BY <1>2, <2>2, <2>3, <2>4, <2>5, <2>6, <2>7, <2>8, <2>9 DEF Next
<1> QED
  BY <1>1, <1>2, Invariance, PTL DEF Spec, Chain!Spec

-----------------------------------------------------------------------------
(* What the records call overdue is overdue on chain.                      *)

\* The sweep and the late claim work only on links that have expired.
Overdue(x) ==
  x.op = "refund" => /\ \A c \in x.todo : Expired(c)
                     /\ x.at # "next" => Expired(x.code)

DeadlineInv ==
  /\ escrowDeadline \in [Codes -> 0 .. MaxTime]
  /\ \A c \in Codes : escrowStatus[c] # "NONE" => escrowDeadline[c] = record[c].expiresAt
  /\ \A c \in Codes : record[c].status \in LiveStatuses => record[c].envelope = TRUE
  /\ \A h \in Handlers : Overdue(handler[h])

LEMMA DeadlineInit == Init => DeadlineInv
<1> SUFFICES ASSUME Init PROVE DeadlineInv
  OBVIOUS
<1>1. /\ escrowStatus = [c \in Codes |-> "NONE"] /\ escrowDeadline = [c \in Codes |-> 0]
      /\ record = [c \in Codes |-> NoRecord] /\ handler = [h \in Handlers |-> Idle]
  BY DEF Init, Chain!Init
<1>2. 0 \in 0 .. MaxTime
  BY ServiceAssumption
<1> QED
  BY <1>1, <1>2, IdleFacts DEF DeadlineInv, Overdue, NoRecord, LiveStatuses

\* Links that are worked on have a record, whose expiry stays.
LEMMA OverdueStays ==
  ASSUME IInv, NEW h \in Handlers, Overdue(handler[h]), handler'[h] = handler[h],
         clock' \in Nat, clock <= clock',
         \A c \in Codes : \/ record'[c].expiresAt = record[c].expiresAt
                          \/ record[c].status = "NONE"
  PROVE  Overdue(handler[h])'
<1> SUFFICES ASSUME handler[h].op = "refund" PROVE Overdue(handler[h])'
  BY DEF Overdue
<1>1. Sweeping(handler[h]) /\ handler[h].todo \subseteq Codes
      /\ \A c \in handler[h].todo : record[c].status \in LiveStatuses
  BY HandlerFacts
<1>2. ASSUME NEW c \in Codes, record[c].status \in LiveStatuses, Expired(c) PROVE Expired(c)'
  <2>1. record[c] \in Records /\ clock \in Nat
    BY DEF IInv, Shapes
  <2>2. record'[c].expiresAt = record[c].expiresAt /\ record[c].expiresAt \in Nat
    BY <1>2, <2>1 DEF LiveStatuses, Records
  <2> QED
    BY <1>2, <2>1, <2>2 DEF Expired
<1>3. \A c \in handler[h].todo : Expired(c)'
  BY <1>1, <1>2 DEF Overdue
<1>4. handler[h].at # "next" => Expired(handler[h].code)'
  <2> SUFFICES ASSUME handler[h].at # "next" PROVE Expired(handler[h].code)'
    OBVIOUS
  <2>1. PICK c \in Codes : c = handler[h].code /\ record[c].status \in LiveStatuses /\ Expired(c)
    BY <1>1 DEF Sweeping, Overdue
  <2>2. Expired(c)'
    BY <1>2, <2>1
  <2> QED
    BY <2>1, <2>2 DEF Expired
<1> QED
  BY <1>3, <1>4 DEF Overdue

\* Where the step of a handler takes it.
LEMMA OverdueMove ==
  ASSUME IInv, DeadlineInv, NEW h \in Handlers, HandlerStep(h)
  PROVE  \E x : handler' = [handler EXCEPT ![h] = x] /\ Overdue(x)
<1> DEFINE old == handler[h]
           Moves(x) == handler' = [handler EXCEPT ![h] = x] /\ Overdue(x)
<1>1. old \in HandlerRecords /\ Overdue(old) /\ old.todo \subseteq Codes
  BY HandlerFacts DEF DeadlineInv
<1>2. Overdue(Idle)
  BY IdleFacts DEF Overdue
<1>3. ASSUME NEW rest \in SUBSET Codes, \A c \in rest : Expired(c) PROVE Overdue(Loop(rest))
  BY <1>2, <1>3, IdleFacts DEF Overdue
<1>4. ASSUME Return(h) PROVE \E x : Moves(x)
  BY <1>2, <1>4 DEF Return
<1>5. ASSUME NextLink(h), old.op = "refund" PROVE \E x : Moves(x)
  BY <1>1, <1>3, <1>5 DEF NextLink, Overdue
<1>6. ASSUME NEW place, Goto(h, place), place # "next", old.op # "refund" \/ old.at # "next"
      PROVE  \E x : Moves(x)
  <2>1. PICK x : x = [old EXCEPT !.at = place]
    OBVIOUS
  <2>2. handler' = [handler EXCEPT ![h] = x]
    BY <1>6, <2>1 DEF Goto
  <2>3. x.op = old.op /\ x.todo = old.todo /\ x.code = old.code
    BY <1>1, <2>1 DEF HandlerRecords
  <2>4. Overdue(x)
    BY <1>1, <1>6, <2>3 DEF Overdue
  <2> QED
    BY <2>2, <2>4
<1>7. ASSUME Throw(h) PROVE \E x : Moves(x)
  BY <1>4, <1>5, <1>6, <1>7 DEF Throw
<1>8. ASSUME NEW c \in Codes, CreateClaimLink(h, c) \/ CancelClaimLink(h, c)
      PROVE  \E x : Moves(x)
  <2>1. PICK op \in {"create", "cancel"} : handler' = [handler EXCEPT ![h] =
          [Idle EXCEPT !.op = op, !.at = "session", !.code = c]]
    BY <1>8 DEF CreateClaimLink, CancelClaimLink
  <2>2. Overdue([Idle EXCEPT !.op = op, !.at = "session", !.code = c])
    BY DEF Overdue, Idle
  <2> QED
    BY <2>1, <2>2
<1>9. ASSUME NEW c \in Codes, NEW u \in Users, Claim(h, c, u) PROVE \E x : Moves(x)
  <2>1. handler' = [handler EXCEPT ![h] =
          [Idle EXCEPT !.op = "claim", !.at = "escrow", !.code = c, !.user = u]]
    BY <1>9 DEF Claim
  <2>2. Overdue([Idle EXCEPT !.op = "claim", !.at = "escrow", !.code = c, !.user = u])
    BY DEF Overdue, Idle
  <2> QED
    BY <2>1, <2>2
<1>10. ASSUME (\E c \in Codes : ClaimExpired(h, c)) \/ SweepExpired(h) PROVE \E x : Moves(x)
  <2>1. PICK T \in SUBSET Codes :
          /\ \A c \in T : Expired(c)
          /\ handler' = [handler EXCEPT ![h] =
               [Idle EXCEPT !.op = "refund", !.at = "next", !.todo = T]]
    BY <1>10 DEF ClaimExpired, SweepExpired, Sweepable
  <2>2. Overdue([Idle EXCEPT !.op = "refund", !.at = "next", !.todo = T])
    BY <2>1 DEF Overdue, Idle
  <2> QED
    BY <2>1, <2>2
<1>11. ASSUME NEW c \in Codes, RefundExpiredLink(h, c) PROVE \E x : Moves(x)
  <2>1. PICK rest : rest = old.todo \ {c}
    OBVIOUS
  <2>2. PICK place \in {"submit", "sync"} :
          \/ handler' = [handler EXCEPT ![h] = Loop(rest)]
          \/ handler' = [handler EXCEPT ![h] =
               [old EXCEPT !.code = c, !.todo = rest, !.seen = escrowStatus[c], !.at = place]]
    <3>1. \A place : [[old EXCEPT !.code = c, !.todo = rest, !.seen = escrowStatus[c]]
                        EXCEPT !.at = place]
                     = [old EXCEPT !.code = c, !.todo = rest, !.seen = escrowStatus[c], !.at = place]
      BY <1>1
    <3> QED
      BY <1>11, <2>1, <3>1 DEF RefundExpiredLink
  <2>3. old.op = "refund" /\ c \in old.todo
    BY <1>11, HandlerFacts, IdleFacts
    DEF RefundExpiredLink, Placed, Creating, Claiming, Cancelling, Sweeping
  <2>4. rest \in SUBSET Codes /\ Expired(c) /\ \A b \in rest : Expired(b)
    BY <1>1, <2>1, <2>3 DEF Overdue
  <2>5. Overdue(Loop(rest))
    BY <1>3, <2>4
  <2>6. PICK x : x =
          [old EXCEPT !.code = c, !.todo = rest, !.seen = escrowStatus[c], !.at = place]
    OBVIOUS
  <2>7. x.todo = rest /\ x.code = c
    BY <1>1, <2>6 DEF HandlerRecords
  <2>8. Overdue(x)
    BY <2>4, <2>7 DEF Overdue
  <2> QED
    BY <2>2, <2>5, <2>6, <2>8
<1>12. ASSUME ReadSession(h) PROVE \E x : Moves(x)
  <2>1. CASE sessionActive
    <3>1. handler' = [handler EXCEPT ![h].nonce = sessionNonce, ![h].at = "submit"]
      BY <1>12, <2>1 DEF ReadSession
    <3>2. PICK x : x = [old EXCEPT !.nonce = sessionNonce, !.at = "submit"]
      OBVIOUS
    <3>3. handler' = [handler EXCEPT ![h] = x]
      BY <3>1, <3>2
    <3>4. x.op = old.op /\ x.todo = old.todo /\ x.code = old.code
      BY <1>1, <3>2 DEF HandlerRecords
    <3>5. Overdue(x)
      BY <1>1, <1>12, <3>4 DEF Overdue, ReadSession
    <3> QED
      BY <3>3, <3>5
  <2>2. CASE ~sessionActive
    BY <1>7, <1>12, <2>2 DEF ReadSession
  <2> QED
    BY <2>1, <2>2
<1>13. ASSUME ReadEscrow(h) \/ Redeem(h) \/ Submit(h) \/ Land(h) PROVE \E x : Moves(x)
  BY <1>4, <1>6, <1>7, <1>13 DEF ReadEscrow, Redeem, Submit, Land
<1>14. ASSUME ChainRefuses(h) \/ LoseConfirmation(h) PROVE \E x : Moves(x)
  BY <1>7, <1>14 DEF ChainRefuses, LoseConfirmation
<1>15. ASSUME MarkFailed(h) \/ Activate(h) \/ MarkClaimed(h) \/ MarkCancelled(h) \/ Abort(h)
       PROVE  \E x : Moves(x)
  BY <1>4, <1>15 DEF MarkFailed, Activate, MarkClaimed, MarkCancelled, Abort
<1>16. ASSUME SyncRecord(h) \/ MarkExpired(h) PROVE \E x : Moves(x)
  <2>1. old.op = "refund" /\ NextLink(h)
    BY <1>16, HandlerFacts, IdleFacts
    DEF SyncRecord, MarkExpired, Placed, Creating, Claiming, Cancelling, Sweeping
  <2> QED
    BY <1>5, <2>1
<1> QED
  BY <1>8, <1>9, <1>10, <1>11, <1>12, <1>13, <1>14, <1>15, <1>16 DEF HandlerStep

\* What the step of a handler writes: the expiry only into a new record, and
\* no record goes live without the envelope.
LEMMA HandlerWrites ==
  ASSUME IInv, DeadlineInv, NEW h \in Handlers, HandlerStep(h), NEW c \in Codes
  PROVE  /\ \/ record'[c].expiresAt = record[c].expiresAt
            \/ record[c].status = "NONE" /\ record'[c].status = "PENDING"
         /\ record'[c].status \in LiveStatuses => record'[c].envelope = TRUE
<1>1. record \in [Codes -> Records] /\ record[c] \in Records
      /\ (record[c].status \in LiveStatuses => record[c].envelope = TRUE)
  BY DEF IInv, Shapes, DeadlineInv
<1>2. CASE record' = record
  BY <1>1, <1>2
<1>3. ASSUME NEW b \in Codes, CreateClaimLink(h, b)
      PROVE  /\ \/ record'[c].expiresAt = record[c].expiresAt
                \/ record[c].status = "NONE" /\ record'[c].status = "PENDING"
             /\ record'[c].status \in LiveStatuses => record'[c].envelope = TRUE
  BY <1>1, <1>3 DEF CreateClaimLink, NoRecord, Records, LiveStatuses
<1>4. ASSUME NEW k \in Codes, NEW s, SetStatus(k, s),
             s \in LiveStatuses => record[k].status \in LiveStatuses
      PROVE  /\ record'[c].expiresAt = record[c].expiresAt
             /\ record'[c].status \in LiveStatuses => record'[c].envelope = TRUE
  BY <1>1, <1>4 DEF SetStatus, Records, DeadlineInv
<1>5. ASSUME MarkFailed(h) \/ MarkCancelled(h) \/ SyncRecord(h) \/ MarkExpired(h)
      PROVE  \E k \in Codes : \E s :
               SetStatus(k, s) /\ (s \in LiveStatuses => record[k].status \in LiveStatuses)
  <2>1. CASE MarkFailed(h)
    <3>1. handler[h].code \in Codes
      BY <2>1, HandlerFacts, IdleFacts
      DEF MarkFailed, Placed, Creating, Claiming, Cancelling, Sweeping
    <3> QED
      BY <2>1, <3>1 DEF MarkFailed, LiveStatuses
  <2>2. CASE MarkCancelled(h) \/ SyncRecord(h) \/ MarkExpired(h)
    <3>1. handler[h].code \in Codes /\ record[handler[h].code].status \in LiveStatuses
      BY <2>2, HandlerFacts, IdleFacts
      DEF MarkCancelled, SyncRecord, MarkExpired, Placed, Creating, Claiming, Cancelling, Sweeping
    <3> QED
      BY <2>2, <3>1 DEF MarkCancelled, SyncRecord, MarkExpired
  <2> QED
    BY <1>5, <2>1, <2>2
<1>6. ASSUME Activate(h)
      PROVE  /\ record'[c].expiresAt = record[c].expiresAt
             /\ record'[c].status \in LiveStatuses => record'[c].envelope = TRUE
  BY <1>1, <1>6 DEF Activate, Records
<1>7. ASSUME MarkClaimed(h)
      PROVE  /\ record'[c].expiresAt = record[c].expiresAt
             /\ record'[c].status \in LiveStatuses => record'[c].envelope = TRUE
  <2>1. handler[h].code \in Codes /\ record[handler[h].code].status \in LiveStatuses
    BY <1>7, HandlerFacts, IdleFacts
    DEF MarkClaimed, Placed, Creating, Claiming, Cancelling, Sweeping
  <2> QED
    BY <1>1, <1>7, <2>1 DEF MarkClaimed, Records, DeadlineInv
<1>8. \/ \E b \in Codes : CreateClaimLink(h, b)
      \/ MarkFailed(h) \/ MarkCancelled(h) \/ SyncRecord(h) \/ MarkExpired(h)
      \/ Activate(h) \/ MarkClaimed(h) \/ record' = record
  BY DEF HandlerStep, CancelClaimLink, ClaimExpired, RefundExpiredLink, Claim, SweepExpired,
         ReadSession, ReadEscrow, Redeem, Submit, Land, ChainRefuses, LoseConfirmation, Abort, db
<1> QED
  BY <1>2, <1>3, <1>4, <1>5, <1>6, <1>7, <1>8

\* What happens on chain: a link is opened with its record's expiry, and no
\* deadline moves afterwards.
DeadlinesFollow ==
  /\ escrowDeadline' \in [Codes -> 0 .. MaxTime]
  /\ \A c \in Codes : \/ escrowStatus'[c] = "NONE"
                      \/ escrowStatus[c] # "NONE" /\ escrowDeadline'[c] = escrowDeadline[c]
                      \/ record[c].status # "NONE" /\ escrowDeadline'[c] = record[c].expiresAt

LEMMA ExecuteDeadlines ==
  ASSUME IInv, DeadlineInv, NEW tx \in SentTransactions, Execute(tx),
         record[tx.code].status # "NONE"
  PROVE  DeadlinesFollow /\ clock' = clock
<1>1. /\ escrowStatus \in [Codes -> EscrowStatuses] /\ escrowDeadline \in [Codes -> 0 .. MaxTime]
      /\ tx.code \in Codes /\ record[tx.code].expiresAt \in 0 .. MaxTime
  BY DEF IInv, Shapes, DeadlineInv, SentTransactions, Records
<1>2. CASE tx.op = "create"
  BY <1>1, <1>2 DEF Execute, Chain!Open, DeadlinesFollow
<1>3. CASE tx.op # "create"
  <2>1. escrowDeadline' = escrowDeadline /\ clock' = clock
        /\ escrowStatus[tx.code] = "ACTIVE"
        /\ \A c \in Codes : c # tx.code => escrowStatus'[c] = escrowStatus[c]
    BY <1>1, <1>3 DEF Execute, Chain!Claim, Chain!Cancel, Chain!Refund, Chain!Settle
  <2> QED
    BY <1>1, <2>1 DEF DeadlinesFollow
<1> QED
  BY <1>2, <1>3

\* The chain's side of every step.
LEMMA ChainDeadlines ==
  ASSUME IInv, DeadlineInv, [Next]_vars
  PROVE  DeadlinesFollow /\ clock' \in Nat /\ clock <= clock'
<1>1. clock \in Nat /\ escrowDeadline \in [Codes -> 0 .. MaxTime]
      /\ escrowStatus \in [Codes -> EscrowStatuses]
  BY DEF IInv, Shapes, DeadlineInv
<1>2. CASE UNCHANGED <<escrowStatus, escrowDeadline>> /\ clock' \in {clock, clock + 1}
  BY <1>1, <1>2 DEF DeadlinesFollow
<1>3. ASSUME NEW h \in Handlers, HandlerStep(h)
      PROVE  Land(h) \/ UNCHANGED <<escrowStatus, escrowDeadline, clock>>
  BY <1>3
  DEF HandlerStep, CreateClaimLink, CancelClaimLink, ClaimExpired, RefundExpiredLink, Claim,
      SweepExpired, ReadSession, ReadEscrow, Redeem, MarkFailed, Activate, MarkClaimed,
      MarkCancelled, SyncRecord, MarkExpired, Submit, ChainRefuses, LoseConfirmation, Abort, chain
<1>4. ASSUME NEW h \in Handlers, Land(h) PROVE DeadlinesFollow /\ clock' = clock
  BY <1>4, TransactionType, ExecuteDeadlines DEF Land
<1>5. ASSUME NEW tx \in orphans, LandOrphan(tx) PROVE DeadlinesFollow /\ clock' = clock
  BY <1>5, ExecuteDeadlines DEF LandOrphan, IInv, Shapes, OrphansHaveRecords
<1>6. ASSUME NEW c \in Codes, ForeignRefund(c) PROVE DeadlinesFollow /\ clock' = clock
  BY <1>1, <1>6 DEF ForeignRefund, Chain!Refund, Chain!Settle, DeadlinesFollow
<1>7. ASSUME \/ \E tx \in orphans : ExpireOrphan(tx)
             \/ RevokeSessionKey \/ Tick \/ UNCHANGED vars
      PROVE  UNCHANGED <<escrowStatus, escrowDeadline>> /\ clock' \in {clock, clock + 1}
  BY <1>7 DEF ExpireOrphan, RevokeSessionKey, Tick, Chain!Advance, vars, chain
<1> QED
  BY <1>1, <1>2, <1>3, <1>4, <1>5, <1>6, <1>7 DEF Next

LEMMA DeadlineStep == IInv /\ DeadlineInv /\ [Next]_vars => DeadlineInv'
<1> SUFFICES ASSUME IInv, DeadlineInv, [Next]_vars PROVE DeadlineInv'
  OBVIOUS
<1>1. DeadlinesFollow /\ clock' \in Nat /\ clock <= clock'
  BY ChainDeadlines
<1>2. CASE \E h \in Handlers : HandlerStep(h)
  <2>1. PICK h \in Handlers : HandlerStep(h)
    BY <1>2
  <2>2. \A c \in Codes : /\ \/ record'[c].expiresAt = record[c].expiresAt
                            \/ record[c].status = "NONE" /\ record'[c].status = "PENDING"
                         /\ record'[c].status \in LiveStatuses => record'[c].envelope = TRUE
    BY <2>1, HandlerWrites
  <2>3. PICK x : handler' = [handler EXCEPT ![h] = x] /\ Overdue(x)
    BY <2>1, OverdueMove
  <2>4. handler'[h] = x /\ \A o \in Handlers : o # h => handler'[o] = handler[o]
    BY <2>3 DEF IInv, Shapes
  <2>5. Overdue(x)'
    <3> SUFFICES ASSUME x.op = "refund" PROVE Overdue(x)'
      BY DEF Overdue
    <3>1. IInv'
      BY InvStep
    <3>2. Placed(x)' /\ x \in HandlerRecords
      <4>1. Placed(handler[h])' /\ handler'[h] \in HandlerRecords
        BY <3>1 DEF IInv, Places, Shapes
      <4> QED
        BY <2>4, <4>1 DEF Placed, Creating, Claiming, Cancelling, Sweeping
    <3>3. /\ x.todo \subseteq Codes /\ \A c \in x.todo : record'[c].status \in LiveStatuses
          /\ x.at # "next" => x.code \in Codes /\ record'[x.code].status \in LiveStatuses
      BY <3>2, IdleFacts
      DEF Placed, Creating, Claiming, Cancelling, Sweeping, HandlerRecords
    <3>4. ASSUME NEW c \in Codes, record'[c].status \in LiveStatuses, Expired(c) PROVE Expired(c)'
      <4>1. record'[c].expiresAt = record[c].expiresAt
        BY <2>2, <3>4 DEF LiveStatuses
      <4>2. record[c].expiresAt \in Nat /\ clock \in Nat
        BY DEF IInv, Shapes, Records
      <4> QED
        BY <1>1, <3>4, <4>1, <4>2 DEF Expired
    <3>5. /\ \A c \in x.todo : Expired(c)'
          /\ x.at # "next" => Expired(x.code)'
      BY <2>3, <3>3, <3>4 DEF Overdue
    <3> QED
      BY <3>5 DEF Overdue
  <2>6. ASSUME NEW o \in Handlers PROVE Overdue(handler[o])'
    <3>1. CASE o = h
      BY <2>4, <2>5, <3>1 DEF Overdue, Expired
    <3>2. CASE o # h
      BY <1>1, <2>2, <2>4, <3>2, OverdueStays DEF DeadlineInv
    <3> QED
      BY <3>1, <3>2
  <2>7. ASSUME NEW c \in Codes, escrowStatus'[c] # "NONE"
        PROVE  escrowDeadline'[c] = record'[c].expiresAt
    <3>1. escrowStatus[c] # "NONE" => record[c].status # "NONE"
      BY DEF IInv, RecordFollowsChain, Reports
    <3> QED
      BY <1>1, <2>2, <2>7, <3>1 DEF DeadlinesFollow, DeadlineInv
  <2> QED
    BY <1>1, <2>2, <2>6, <2>7 DEF DeadlineInv, DeadlinesFollow
<1>3. CASE record' = record /\ handler' = handler
  <2>1. \A o \in Handlers : Overdue(handler[o])'
    BY <1>1, <1>3, OverdueStays DEF DeadlineInv
  <2> QED
    BY <1>1, <1>3, <2>1 DEF DeadlineInv, DeadlinesFollow
<1> QED
  BY <1>2, <1>3 DEF Next, LandOrphan, ExpireOrphan, ForeignRefund, RevokeSessionKey, Tick, vars, db

\* The safety half of ActiveLinksSettle: whatever sweeps, claims, cancellations
\* and strangers race for it, an active link whose time is over is listed by
\* the sweep and either settled already or refundable at once, and no refund
\* that a handler has in its hands can be refused as too early.
THEOREM OverdueLinksEnd == Spec => []OverdueLinksCanEnd
<1>1. ASSUME IInv, DeadlineInv PROVE OverdueLinksCanEnd
  <2>1. ASSUME NEW c \in Codes, record[c].status \in LiveStatuses, Expired(c),
               NEW tx, tx.op = "refund", tx.code = c
        PROVE  escrowStatus[c] \in Chain!Settled \/ Executable(tx)
    <3>1. escrowStatus[c] \in EscrowStatuses \ {"NONE"}
      BY <1>1, <2>1 DEF IInv, Shapes, RecordFollowsChain, Reports, LiveStatuses
    <3>2. escrowDeadline[c] = record[c].expiresAt /\ record[c].expiresAt \in Nat /\ clock \in Nat
      BY <1>1, <3>1 DEF DeadlineInv, IInv, Shapes, Records
    <3>3. clock > escrowDeadline[c]
      BY <2>1, <3>2 DEF Expired
    <3>4. NonceMatches(tx)
      BY <2>1 DEF NonceMatches, SessionOps
    <3>5. escrowStatus[c] = "ACTIVE" => Executable(tx)
      BY <2>1, <3>3, <3>4 DEF Executable
    <3> QED
      BY <3>1, <3>5 DEF EscrowStatuses, Chain!Settled
  <2>2. ASSUME NEW c \in Codes, record[c].status = "ACTIVE", Expired(c)
        PROVE  /\ Sweepable(c)
               /\ \/ escrowStatus[c] \in Chain!Settled
                  \/ Executable([op |-> "refund", code |-> c, user |-> NoUser, nonce |-> 0])
    <3>1. record[c].status \in LiveStatuses /\ record[c].envelope = TRUE
      BY <1>1, <2>2 DEF DeadlineInv, LiveStatuses
    <3>2. Sweepable(c)
      BY <2>2, <3>1 DEF Sweepable
    <3> QED
      BY <2>1, <2>2, <3>1, <3>2
  <2>3. ASSUME NEW h \in Handlers, Refunding(h), handler[h].at \in {"submit", "sent"}
        PROVE  \/ escrowStatus[handler[h].code] \in Chain!Settled
               \/ Executable(Transaction(h))
    <3>1. handler[h].op = "refund" /\ Sweeping(handler[h]) /\ Overdue(handler[h])
      BY <1>1, <2>3, HandlerFacts DEF Refunding, DeadlineInv
    <3>2. /\ handler[h].code \in Codes /\ record[handler[h].code].status \in LiveStatuses
          /\ Expired(handler[h].code)
      BY <2>3, <3>1 DEF Sweeping, Overdue
    <3>3. Transaction(h).op = "refund" /\ Transaction(h).code = handler[h].code
      BY <3>1 DEF Transaction
    <3> QED
      BY <2>1, <3>2, <3>3
  <2> QED
    BY <2>2, <2>3 DEF OverdueLinksCanEnd
<1> QED
  BY <1>1, DeadlineInit, DeadlineStep, Invariance, InvStep, PTL DEF Spec
=============================================================================
