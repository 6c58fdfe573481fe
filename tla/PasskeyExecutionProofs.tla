----------------------- MODULE PasskeyExecutionProofs -----------------------
(***************************************************************************)
(* Proofs about PasskeyExecution for every number of approvals, of         *)
(* concurrent requests and of abandoned transactions, every time to live   *)
(* and every interleaving.                                                 *)
(***************************************************************************)
EXTENDS PasskeyExecution, FiniteSetTheorems, TLAPS

-----------------------------------------------------------------------------
(* The inductive invariant.                                                *)

Executed == {a \in Approvals : executions[a] > 0}

Payloads ==
  [state : {"unused", "staged", "gone"}, kind : Kinds,
   target : Approvals \cup {NoApproval}, nonce : Nat,
   initializeVault : BOOLEAN, expiresAt : 0 .. MaxTime + PrepareTtl]

\* TypeOK without the bound on the nonces, which needs the counting below.
Shapes ==
  /\ approval \in [Approvals -> Payloads]
  /\ linkRow \in [Approvals -> {"NONE", "PENDING", "ACTIVE", "FAILED",
                                "CANCELLED", "SETTLED"}]
  /\ fundingTx \subseteq Approvals
  /\ sessionRow \in [Approvals -> {"NONE", "PROVISIONED", "ACTIVATED"}]
  /\ handler \in [Handlers -> [at : {"idle", "submit", "sent", "landed", "failed"},
                               holds : Approvals \cup {NoApproval}]]
  /\ orphans \subseteq Approvals
  /\ vaultExists \in BOOLEAN /\ vaultNonce \in Nat
  /\ granted \subseteq Approvals
  /\ escrow \in [Approvals -> {"NONE", "ACTIVE", "CANCELLED", "SETTLED"}]
  /\ executions \in [Approvals -> Nat]
  /\ clock \in 0 .. MaxTime

\* The program counts executed approvals: every execution was approved on a
\* nonce below the current one, and an approval is prepared on no later one.
Nonces ==
  /\ vaultNonce = Cardinality(Executed)
  /\ ~vaultExists => vaultNonce = 0
  /\ \A a \in Approvals :
       /\ approval[a].initializeVault => approval[a].nonce = 0
       /\ approval[a].nonce <= vaultNonce
       /\ executions[a] > 0 => /\ approval[a].state = "gone"
                               /\ approval[a].nonce < vaultNonce
  /\ OneExecutionPerNonce

\* Whoever holds an approval has taken it out of Redis, and alone.
Held ==
  /\ \A h \in Handlers :
       IF handler[h].at = "idle" THEN handler[h].holds = NoApproval
       ELSE /\ handler[h].holds \in Approvals
            /\ approval[handler[h].holds].state = "gone"
  /\ \A g, h \in Handlers :
       g # h => handler[g].holds # handler[h].holds
                \/ handler[h].holds = NoApproval
  /\ \A a \in orphans : approval[a].state = "gone"

\* A cancellation names a link that was active when it was prepared.
Targets ==
  \A a \in Approvals : approval[a].kind = "sol_payment_link_cancel" =>
    /\ approval[a].target \in Approvals
    /\ linkRow[approval[a].target] \in {"ACTIVE", "CANCELLED", "SETTLED"}

\* The row of a new link stays PENDING while its approval is staged or held.
PendingRows ==
  /\ \A a \in Approvals :
       /\ approval[a].state = "unused" => linkRow[a] = "NONE"
       /\ approval[a].state = "staged" /\ approval[a].kind = "sol_payment_link"
            => linkRow[a] = "PENDING"
  /\ \A h \in Handlers :
       handler[h].at # "idle" /\ approval[handler[h].holds].kind = "sol_payment_link"
         => linkRow[handler[h].holds] = "PENDING"

\* What the program did for an approval that landed.
Done(a) ==
  /\ approval[a].kind = "sol_payment_link" => escrow[a] # "NONE"
  /\ approval[a].kind = "sol_payment_link_cancel" =>
       escrow[approval[a].target] = "CANCELLED"
  /\ approval[a].kind = "session_grant" => a \in granted

Landed ==
  \A h \in Handlers : handler[h].at = "landed" => Done(handler[h].holds)

IInv ==
  /\ Shapes /\ Nonces /\ Held /\ Targets /\ PendingRows /\ Landed
  /\ ActivatedSessionsAreGranted /\ LinkRowsFollowChain

-----------------------------------------------------------------------------
(* One lemma per kind of step.                                             *)

LEMMA InvInit == Init => IInv
<1> SUFFICES ASSUME Init PROVE IInv
  OBVIOUS
<1>1. Executed = {}
  BY DEF Init, Executed
<1>2. Cardinality(Executed) = 0
  BY <1>1, FS_EmptySet
<1>3. Shapes
  <2>1. Unused \in Payloads
    BY PasskeyAssumption DEF Unused, Payloads, Kinds
  <2>2. vaultExists \in BOOLEAN
    BY DEF Init
  <2>3. 0 \in Nat /\ 0 \in 0 .. MaxTime
    BY PasskeyAssumption
  <2>4. handler \in [Handlers -> [at : {"idle", "submit", "sent", "landed", "failed"},
                                holds : Approvals \cup {NoApproval}]]
    BY DEF Init, Idle
  <2> QED
    BY <2>1, <2>2, <2>3, <2>4 DEF Init, Shapes
<1>4. Nonces
  BY <1>2 DEF Init, Nonces, Unused, OneExecutionPerNonce
<1> QED
  BY <1>3, <1>4
  DEF Init, IInv, Held, Targets, PendingRows, Landed, Unused, Idle,
      ActivatedSessionsAreGranted, LinkRowsFollowChain

\* Preparing an approval concerns nobody else: it is unused, so no handler,
\* no transaction and no execution knows of it.
LEMMA PrepareStep ==
  ASSUME IInv, NEW a \in Approvals,
         \/ PrepareTransfer(a) \/ PrepareSolPaymentLink(a) \/ PrepareSessionGrant(a)
         \/ \E link \in Approvals : PrepareCancelSolPaymentLink(a, link)
  PROVE  IInv'
<1> DEFINE Staged(kind, target) ==
      [state |-> "staged", kind |-> kind, target |-> target, nonce |-> vaultNonce,
       initializeVault |-> ~vaultExists, expiresAt |-> clock + PrepareTtl]
<1>1. PICK kind \in Kinds, target \in Approvals \cup {NoApproval} :
        /\ approval' = [approval EXCEPT ![a] = Staged(kind, target)]
        /\ kind = "sol_payment_link" => linkRow' = [linkRow EXCEPT ![a] = "PENDING"]
        /\ kind # "sol_payment_link" => linkRow' = linkRow
        /\ kind = "sol_payment_link_cancel" =>
             target \in Approvals /\ linkRow[target] = "ACTIVE"
  BY DEF PrepareTransfer, PrepareSolPaymentLink, PrepareSessionGrant,
         PrepareCancelSolPaymentLink, Stage, Kinds, db
<1>2. /\ approval[a] = Unused
      /\ UNCHANGED <<fundingTx, handler, orphans, chain, clock>>
      /\ \/ sessionRow' = sessionRow
         \/ sessionRow' = [sessionRow EXCEPT ![a] = "PROVISIONED"]
  BY DEF PrepareTransfer, PrepareSolPaymentLink, PrepareSessionGrant,
         PrepareCancelSolPaymentLink, Stage, Kinds, db
<1>3. /\ approval[a].state = "unused" /\ linkRow[a] = "NONE"
      /\ executions[a] = 0 /\ a \notin orphans
      /\ \A h \in Handlers : handler[h].holds # a
  BY <1>2, PasskeyAssumption
  DEF IInv, Shapes, Payloads, Unused, PendingRows, Nonces, Held
<1>4. Executed' = Executed
  BY <1>2 DEF Executed, chain
<1>5. Shapes'
  <2>1. Staged(kind, target) \in Payloads
    BY <1>1, PasskeyAssumption DEF IInv, Shapes, Payloads
  <2> QED
    BY <1>1, <1>2, <2>1 DEF IInv, Shapes, chain
<1>6. Nonces'
  <2>1. \A b \in Approvals : b # a => approval'[b] = approval[b]
    BY <1>1 DEF IInv, Shapes
  <2>2. /\ approval'[a].nonce = vaultNonce
        /\ approval'[a].initializeVault => ~vaultExists
    BY <1>1 DEF IInv, Shapes
  <2>3. vaultNonce \in Nat /\ \A b \in Approvals : executions[b] \in Nat
    BY DEF IInv, Shapes
  <2>4. UNCHANGED <<vaultNonce, vaultExists, executions>>
    BY <1>2 DEF chain
  <2>5. OneExecutionPerNonce'
    BY <1>3, <2>1, <2>3, <2>4 DEF IInv, Nonces, OneExecutionPerNonce
  <2> QED
    BY <1>3, <1>4, <2>1, <2>2, <2>3, <2>4, <2>5 DEF IInv, Nonces
<1>7. Held'
  BY <1>1, <1>2, <1>3 DEF IInv, Shapes, Payloads, Held
<1>8. Targets'
  BY <1>1, <1>2, <1>3 DEF IInv, Shapes, Payloads, Targets
<1>9. PendingRows'
  BY <1>1, <1>2, <1>3 DEF IInv, Shapes, Payloads, PendingRows, Held
<1>10. Landed'
  BY <1>1, <1>2, <1>3 DEF IInv, Shapes, Payloads, Landed, Done, chain, Held
<1>11. (ActivatedSessionsAreGranted /\ LinkRowsFollowChain)'
  BY <1>1, <1>2, <1>3
  DEF IInv, Shapes, Payloads, ActivatedSessionsAreGranted, LinkRowsFollowChain, chain
<1> QED
  BY <1>5, <1>6, <1>7, <1>8, <1>9, <1>10, <1>11 DEF IInv

\* An approval leaves Redis: expired, wasted, or taken by one idle handler.
LEMMA TakeStep ==
  ASSUME IInv, NEW a \in Approvals,
         \/ ExpireApproval(a) \/ WasteApproval(a)
         \/ \E h \in Handlers : TakeApproval(h, a)
  PROVE  IInv'
<1>1. /\ approval[a].state = "staged"
      /\ approval' = [approval EXCEPT ![a].state = "gone"]
      /\ UNCHANGED <<db, orphans, chain, clock>>
      /\ \/ handler' = handler
         \/ \E h \in Handlers :
              /\ handler[h] = Idle
              /\ handler' = [handler EXCEPT ![h] = [at |-> "submit", holds |-> a]]
  BY DEF ExpireApproval, WasteApproval, TakeApproval
<1>2. /\ executions[a] = 0
      /\ \A h \in Handlers : handler[h].holds # a
  BY <1>1, PasskeyAssumption DEF IInv, Shapes, Payloads, Nonces, Held
<1>3. Executed' = Executed
  BY <1>1 DEF Executed, chain
<1>4. Shapes'
  <2>1. [approval[a] EXCEPT !.state = "gone"] \in Payloads
    BY DEF IInv, Shapes, Payloads
  <2>2. approval' \in [Approvals -> Payloads]
    BY <1>1, <2>1 DEF IInv, Shapes
  <2> QED
    BY <1>1, <2>2 DEF IInv, Shapes, chain, db
<1>5. Nonces'
  BY <1>1, <1>2, <1>3 DEF IInv, Shapes, Payloads, Nonces, OneExecutionPerNonce, chain
<1>6. Held'
  BY <1>1, <1>2 DEF IInv, Shapes, Payloads, Held, Idle
<1>7. Targets'
  BY <1>1 DEF IInv, Shapes, Payloads, Targets, db
<1>8. PendingRows'
  BY <1>1, <1>2 DEF IInv, Shapes, Payloads, PendingRows, Held, Idle, db
<1>9. Landed'
  BY <1>1, <1>2 DEF IInv, Shapes, Payloads, Landed, Done, Held, chain
<1>10. (ActivatedSessionsAreGranted /\ LinkRowsFollowChain)'
  BY <1>1 DEF IInv, ActivatedSessionsAreGranted, LinkRowsFollowChain, chain, db
<1> QED
  BY <1>4, <1>5, <1>6, <1>7, <1>8, <1>9, <1>10 DEF IInv

\* What an execution does on chain: an approval that was taken executes only
\* on the nonce it was prepared for, so it is not executed yet, and the set
\* of executed approvals grows by one with the nonce.  What earlier
\* executions achieved stays.
LEMMA ExecuteFacts ==
  ASSUME IInv, NEW a \in Approvals, approval[a].state = "gone", Execute(a),
         UNCHANGED <<approval, db, clock>>
  PROVE  /\ vaultExists' \in BOOLEAN /\ vaultNonce' \in Nat
         /\ granted \subseteq granted' /\ granted' \subseteq Approvals
         /\ escrow' \in [Approvals -> {"NONE", "ACTIVE", "CANCELLED", "SETTLED"}]
         /\ executions' \in [Approvals -> Nat]
         /\ Nonces'
         /\ Done(a)'
         /\ \A b \in Approvals : Done(b) => Done(b)'
         /\ ActivatedSessionsAreGranted' /\ LinkRowsFollowChain'
<1>1. /\ Executable(a)
      /\ vaultExists' = TRUE
      /\ vaultNonce' = vaultNonce + 1
      /\ executions' = [executions EXCEPT ![a] = @ + 1]
  BY DEF Execute
<1>2. vaultNonce \in Nat /\ executions \in [Approvals -> Nat]
  BY DEF IInv, Shapes
<1>3. approval[a].nonce = vaultNonce
  BY <1>1 DEF Executable, NonceCurrent, IInv, Nonces
<1>4. executions[a] = 0
  BY <1>2, <1>3 DEF IInv, Nonces
<1>5. vaultExists' \in BOOLEAN /\ vaultNonce' \in Nat
  BY <1>1, <1>2
<1>6. executions' \in [Approvals -> Nat]
  BY <1>1, <1>2
<1>7. /\ executions'[a] = 1
      /\ \A b \in Approvals : b # a => executions'[b] = executions[b]
  BY <1>1, <1>2, <1>4
<1>8. Nonces'
  <2>1. Executed' = Executed \cup {a} /\ a \notin Executed
    BY <1>4, <1>7 DEF Executed
  <2>2. IsFiniteSet(Executed)
    BY PasskeyAssumption, FS_Subset DEF Executed
  <2>3. Cardinality(Executed') = Cardinality(Executed) + 1
    BY <2>1, <2>2, FS_AddElement
  <2>4. \A b \in Approvals : approval'[b] = approval[b] /\ approval[b].nonce \in Nat
    BY DEF IInv, Shapes, Payloads
  <2>5. OneExecutionPerNonce'
    BY <1>2, <1>3, <1>7, <2>4 DEF IInv, Nonces, OneExecutionPerNonce
  <2>6. \A b \in Approvals :
          /\ approval'[b].initializeVault => approval'[b].nonce = 0
          /\ approval'[b].nonce <= vaultNonce'
          /\ executions'[b] > 0 => /\ approval'[b].state = "gone"
                                   /\ approval'[b].nonce < vaultNonce'
    BY <1>1, <1>2, <1>3, <1>7, <2>4 DEF IInv, Nonces
  <2>7. vaultNonce' = Cardinality(Executed')
    BY <1>1, <2>3 DEF IInv, Nonces
  <2> QED
    BY <1>1, <2>5, <2>6, <2>7 DEF Nonces
<1>9. /\ granted \subseteq granted' /\ granted' \subseteq Approvals
      /\ approval[a].kind = "session_grant" => a \in granted'
  BY DEF Execute, IInv, Shapes
<1>10. /\ escrow' \in [Approvals -> {"NONE", "ACTIVE", "CANCELLED", "SETTLED"}]
       /\ approval[a].kind = "sol_payment_link" => escrow'[a] # "NONE"
       /\ approval[a].kind = "sol_payment_link_cancel" =>
            escrow'[approval[a].target] = "CANCELLED"
       /\ \A b \in Approvals :
            /\ escrow[b] # "NONE" => escrow'[b] # "NONE"
            /\ escrow[b] \in {"CANCELLED", "SETTLED"} => escrow'[b] = escrow[b]
  BY <1>1 DEF Execute, Executable, IInv, Shapes, Targets
<1>11. Done(a)'
  BY <1>9, <1>10 DEF Done
<1>12. \A b \in Approvals : Done(b) => Done(b)'
  BY <1>9, <1>10 DEF Done, IInv, Targets
<1>13. ActivatedSessionsAreGranted' /\ LinkRowsFollowChain'
  BY <1>9, <1>10
  DEF IInv, Shapes, ActivatedSessionsAreGranted, LinkRowsFollowChain, db
<1> QED
  BY <1>5, <1>6, <1>8, <1>9, <1>10, <1>11, <1>12, <1>13

\* A transaction lands, its handler still waiting for it or not.
LEMMA LandStep ==
  ASSUME IInv,
         \/ \E h \in Handlers : Land(h)
         \/ \E a \in orphans : LandOrphan(a)
  PROVE  IInv'
<1>1. PICK a \in Approvals :
        /\ approval[a].state = "gone"
        /\ Execute(a)
        /\ UNCHANGED <<approval, db, clock>>
        /\ orphans' \subseteq orphans
        /\ \/ handler' = handler
           \/ \E h \in Handlers :
                /\ handler[h].at = "sent" /\ handler[h].holds = a
                /\ handler' = [handler EXCEPT ![h].at = "landed"]
  BY DEF Land, LandOrphan, Goto, IInv, Held, Shapes
<1>2. Shapes'
  BY <1>1, ExecuteFacts DEF IInv, Shapes, db
<1>3. Held'
  BY <1>1 DEF IInv, Shapes, Held
<1>4. Targets' /\ PendingRows'
  BY <1>1 DEF IInv, Shapes, Targets, PendingRows, db
<1>5. Landed'
  <2>1. Done(a)' /\ \A b \in Approvals : Done(b) => Done(b)'
    BY <1>1, ExecuteFacts
  <2>2. \A h \in Handlers : handler'[h].at = "landed" =>
          /\ handler'[h].holds = handler[h].holds
          /\ handler[h].holds \in Approvals
          /\ handler[h].at = "landed" \/ handler[h].holds = a
    BY <1>1 DEF IInv, Shapes, Held
  <2> QED
    BY <2>1, <2>2 DEF IInv, Landed
<1> QED
  BY <1>1, <1>2, <1>3, <1>4, <1>5, ExecuteFacts DEF IInv

\* A handler goes on, gives up or disappears: the chain and the rows are
\* untouched, and what it held is held by a transaction on its way at most.
LEMMA HandlerStep ==
  ASSUME IInv, NEW h \in Handlers,
         Submit(h) \/ ChainRefuses(h) \/ LoseConfirmation(h) \/ Abort(h)
  PROVE  IInv'
<1>1. /\ handler[h] # Idle
      /\ \/ handler' = [handler EXCEPT ![h].at = "sent"]
         \/ handler' = [handler EXCEPT ![h].at = "failed"]
         \/ handler' = [handler EXCEPT ![h] = Idle]
      /\ orphans' = orphans \/ orphans' = orphans \cup {handler[h].holds}
      /\ UNCHANGED <<approval, db, chain, clock>>
  BY DEF Submit, ChainRefuses, LoseConfirmation, Abort, Throw, Abandon, Goto,
         Return, Idle
<1>2. /\ handler[h].at # "idle" /\ handler[h].holds \in Approvals
      /\ approval[handler[h].holds].state = "gone"
  BY <1>1 DEF IInv, Held, Idle, Shapes
<1>3. Executed' = Executed
  BY <1>1 DEF Executed, chain
<1>4. Shapes'
  BY <1>1, <1>2 DEF IInv, Shapes, Idle, chain, db
<1>5. Nonces'
  BY <1>1, <1>3 DEF IInv, Nonces, OneExecutionPerNonce, chain
<1>6. Held'
  BY <1>1, <1>2 DEF IInv, Shapes, Held, Idle
<1>7. Targets' /\ PendingRows'
  BY <1>1, <1>2 DEF IInv, Shapes, Targets, PendingRows, db, Idle
<1>8. Landed'
  BY <1>1, <1>2 DEF IInv, Shapes, Landed, Done, Idle, chain
<1>9. (ActivatedSessionsAreGranted /\ LinkRowsFollowChain)'
  BY <1>1 DEF IInv, ActivatedSessionsAreGranted, LinkRowsFollowChain, chain, db
<1> QED
  BY <1>4, <1>5, <1>6, <1>7, <1>8, <1>9 DEF IInv

\* executeAction writes its outcome: the row of its own link is still
\* PENDING, the row of the link it cancels still ACTIVE or CANCELLED, and
\* what it writes has happened on chain.
LEMMA RecordStep ==
  ASSUME IInv, NEW h \in Handlers,
         RecordOutcome(h) \/ FailPendingSolPaymentLink(h)
  PROVE  /\ IInv'
         /\ \A b \in Approvals :
              linkRow[b] \in {"FAILED", "CANCELLED", "SETTLED"} =>
                linkRow'[b] = linkRow[b]
<1> DEFINE a == handler[h].holds
           kind == approval[a].kind
<1>1. /\ handler[h].at # "idle"
      /\ handler' = [handler EXCEPT ![h] = Idle]
      /\ UNCHANGED <<approval, orphans, chain, clock>>
  BY DEF RecordOutcome, FailPendingSolPaymentLink, Return
<1>2. a \in Approvals /\ approval[a].state = "gone"
  BY <1>1 DEF IInv, Held
<1>3. kind = "sol_payment_link" => linkRow[a] = "PENDING"
  BY <1>1 DEF IInv, PendingRows
<1>4. kind = "sol_payment_link_cancel" =>
        /\ approval[a].target \in Approvals
        /\ linkRow[approval[a].target] \in {"ACTIVE", "CANCELLED", "SETTLED"}
  BY <1>2 DEF IInv, Targets
<1>5. RecordOutcome(h) => Done(a)
  BY DEF RecordOutcome, IInv, Landed
<1>6. \A b \in Approvals :
        \/ linkRow'[b] = linkRow[b]
        \/ /\ b = a /\ kind = "sol_payment_link"
           /\ linkRow'[b] = "ACTIVE" /\ escrow[b] # "NONE"
        \/ /\ b = a /\ linkRow[a] = "PENDING" /\ linkRow'[b] = "FAILED"
        \/ /\ linkRow[b] \in {"ACTIVE", "CANCELLED", "SETTLED"}
           /\ linkRow'[b] = "CANCELLED" /\ escrow[b] = "CANCELLED"
  BY <1>2, <1>4, <1>5
  DEF RecordOutcome, FailPendingSolPaymentLink, Done, IInv, Shapes
<1>7. /\ linkRow' \in [Approvals -> {"NONE", "PENDING", "ACTIVE", "FAILED",
                                     "CANCELLED", "SETTLED"}]
      /\ fundingTx' \subseteq Approvals
      /\ sessionRow' \in [Approvals -> {"NONE", "PROVISIONED", "ACTIVATED"}]
  BY <1>2, <1>4
  DEF RecordOutcome, FailPendingSolPaymentLink, IInv, Shapes
<1>8. \A g \in Handlers : g # h /\ handler[g].at # "idle" =>
        handler[g].holds # a /\ handler[g].holds \in Approvals
  BY <1>2, PasskeyAssumption DEF IInv, Held
<1>9. Shapes'
  BY <1>1, <1>7 DEF IInv, Shapes, Idle, chain
<1>10. Nonces'
  <2>1. Executed' = Executed
    BY <1>1 DEF Executed, chain
  <2> QED
    BY <1>1, <2>1 DEF IInv, Nonces, OneExecutionPerNonce, chain
<1>11. Held'
  BY <1>1 DEF IInv, Shapes, Held, Idle
<1>12. Targets'
  BY <1>1, <1>3, <1>6 DEF IInv, Targets
<1>13. PendingRows'
  BY <1>1, <1>2, <1>6, <1>8 DEF IInv, Shapes, PendingRows, Idle
<1>14. Landed'
  BY <1>1 DEF IInv, Shapes, Landed, Done, Idle, chain
<1>15. ActivatedSessionsAreGranted'
  BY <1>1, <1>2, <1>5
  DEF RecordOutcome, FailPendingSolPaymentLink, Done, IInv, Shapes,
      ActivatedSessionsAreGranted, chain
<1>16. LinkRowsFollowChain'
  BY <1>1, <1>6, <1>7 DEF IInv, LinkRowsFollowChain, chain
<1>17. \A b \in Approvals :
         linkRow[b] \in {"FAILED", "CANCELLED", "SETTLED"} =>
           linkRow'[b] = linkRow[b]
  BY <1>3, <1>6 DEF IInv, LinkRowsFollowChain
<1> QED
  BY <1>9, <1>10, <1>11, <1>12, <1>13, <1>14, <1>15, <1>16, <1>17 DEF IInv

\* Claims, refunds and sweeps of PaymentLinkService, late transactions that
\* expire, and time.
LEMMA EnvironmentStep ==
  ASSUME IInv,
         \/ \E a \in Approvals : SettleElsewhere(a) \/ SyncElsewhere(a)
         \/ \E a \in orphans : ExpireOrphan(a)
         \/ Tick \/ UNCHANGED vars
  PROVE  IInv'
<1>1. /\ UNCHANGED <<approval, fundingTx, sessionRow, handler, vaultExists,
                     vaultNonce, granted, executions>>
      /\ orphans' \subseteq orphans
  BY DEF SettleElsewhere, SyncElsewhere, ExpireOrphan, Tick, vars, db, chain
<1>2. clock' \in 0 .. MaxTime
  BY PasskeyAssumption
  DEF SettleElsewhere, SyncElsewhere, ExpireOrphan, Tick, vars, IInv, Shapes
<1>3. /\ escrow' \in [Approvals -> {"NONE", "ACTIVE", "CANCELLED", "SETTLED"}]
      /\ \A b \in Approvals :
           /\ escrow[b] # "NONE" => escrow'[b] # "NONE"
           /\ escrow[b] \in {"CANCELLED", "SETTLED"} => escrow'[b] = escrow[b]
  BY DEF SettleElsewhere, SyncElsewhere, ExpireOrphan, Tick, vars, chain, IInv,
         Shapes
<1>4. /\ linkRow' \in [Approvals -> {"NONE", "PENDING", "ACTIVE", "FAILED",
                                     "CANCELLED", "SETTLED"}]
      /\ \A b \in Approvals :
           \/ linkRow'[b] = linkRow[b]
           \/ /\ linkRow[b] = "ACTIVE"
              /\ escrow'[b] = escrow[b]
              /\ linkRow'[b] = escrow[b] /\ escrow[b] \in {"CANCELLED", "SETTLED"}
  BY DEF SettleElsewhere, SyncElsewhere, ExpireOrphan, Tick, vars, db, chain,
         IInv, Shapes
<1>5. Shapes'
  BY <1>1, <1>2, <1>3, <1>4 DEF IInv, Shapes
<1>6. Nonces'
  <2>1. Executed' = Executed
    BY <1>1 DEF Executed
  <2> QED
    BY <1>1, <2>1 DEF IInv, Nonces, OneExecutionPerNonce
<1>7. Held' /\ ActivatedSessionsAreGranted'
  BY <1>1 DEF IInv, Held, ActivatedSessionsAreGranted
<1>8. Targets'
  BY <1>1, <1>4 DEF IInv, Targets
<1>9. PendingRows'
  BY <1>1, <1>4 DEF IInv, PendingRows, Held
<1>10. Landed'
  BY <1>1, <1>3 DEF IInv, Landed, Done, Targets, Held
<1>11. LinkRowsFollowChain'
  BY <1>3, <1>4 DEF IInv, LinkRowsFollowChain
<1> QED
  BY <1>5, <1>6, <1>7, <1>8, <1>9, <1>10, <1>11 DEF IInv

LEMMA InvStep == IInv /\ [Next]_vars => IInv'
<1> SUFFICES ASSUME IInv, [Next]_vars PROVE IInv'
  OBVIOUS
<1>1. ASSUME NEW a \in Approvals, Preparing(a) PROVE IInv'
  BY <1>1, PrepareStep, TakeStep DEF Preparing
<1>2. ASSUME NEW h \in Handlers, Executing(h) PROVE IInv'
  BY <1>2, TakeStep, LandStep, HandlerStep, RecordStep DEF Executing
<1> QED
  BY <1>1, <1>2, LandStep, EnvironmentStep DEF Next

-----------------------------------------------------------------------------
(* The theorems.                                                           *)

LEMMA Invariance == Spec => []IInv
BY InvInit, InvStep, PTL DEF Spec

\* For any number of approvals the rows, payloads and handlers keep their
\* shape and the vault nonce never outgrows the approvals prepared.
THEOREM TypeCorrect == Spec => []TypeOK
<1>1. IInv => TypeOK
  <2> SUFFICES ASSUME IInv PROVE TypeOK
    OBVIOUS
  <2>1. IsFiniteSet(Executed) /\ Cardinality(Executed) <= Cardinality(Approvals)
    BY PasskeyAssumption, FS_Subset DEF Executed
  <2>2. Cardinality(Approvals) \in Nat
    BY PasskeyAssumption, FS_CardinalityType
  <2>3. vaultNonce \in 0 .. Cardinality(Approvals)
    BY <2>1, <2>2 DEF IInv, Shapes, Nonces
  <2>4. \A a \in Approvals : approval[a].nonce \in 0 .. Cardinality(Approvals)
    BY <2>2, <2>3 DEF IInv, Shapes, Payloads, Nonces
  <2>5. approval \in [Approvals ->
         [state : {"unused", "staged", "gone"},
          kind : Kinds,
          target : Approvals \cup {NoApproval},
          nonce : 0 .. Cardinality(Approvals), initializeVault : BOOLEAN,
          expiresAt : 0 .. MaxTime + PrepareTtl]]
    BY <2>4 DEF IInv, Shapes, Payloads
  <2> QED
    BY <2>3, <2>5 DEF IInv, Shapes, TypeOK
<1> QED
  BY <1>1, Invariance, PTL

\* No approval executes twice, and of the approvals prepared on one vault
\* nonce at most one executes: for any number of approvals, of executeAction
\* requests and of late transactions.
THEOREM OneExecution == Spec => []OneExecutionPerNonce
<1>1. IInv => OneExecutionPerNonce
  BY DEF IInv, Nonces
<1> QED
  BY <1>1, Invariance, PTL

\* However many executeAction requests race, redis.takeJson hands an approval
\* to one of them, and a staged approval is in nobody's hands.
THEOREM TakenOnce == Spec => []ApprovalTakenOnce
<1>1. IInv => ApprovalTakenOnce
  <2> SUFFICES ASSUME IInv, NEW a \in Approvals
               PROVE  /\ approval[a].state # "gone" => Holders(a) = 0
                      /\ Cardinality({h \in Handlers : handler[h].holds = a}) <= 1
    BY DEF ApprovalTakenOnce
  <2> DEFINE H == {h \in Handlers : handler[h].holds = a}
  <2>1. H = {} \/ \E h \in Handlers : H = {h}
    BY PasskeyAssumption DEF IInv, Held
  <2>2. Cardinality(H) = 0 \/ Cardinality(H) = 1
    BY <2>1, FS_EmptySet, FS_Singleton
  <2>3. approval[a].state # "gone" => H = {} /\ a \notin orphans
    BY PasskeyAssumption DEF IInv, Held
  <2>4. ASSUME approval[a].state # "gone" PROVE Holders(a) = 0
    <3>1. Cardinality(H) = 0
      BY <2>3, <2>4, FS_EmptySet
    <3>2. Holders(a) = 0 + 0
      BY <2>3, <2>4, <3>1, Zenon DEF Holders
    <3> QED
      BY <3>2
  <2> QED
    BY <2>2, <2>4
<1> QED
  BY <1>1, Invariance, PTL

\* The backend never signs with a session key whose grant did not execute.
THEOREM SessionsGranted == Spec => []ActivatedSessionsAreGranted
BY Invariance, PTL DEF IInv

\* The row of a native link never runs ahead of its escrow.
THEOREM RowsFollowChain == Spec => []LinkRowsFollowChain
BY Invariance, PTL DEF IInv

\* No step of any handler, claim or sweep rewrites the row of a link that
\* failed, was cancelled or was settled.
THEOREM ClosedRowsStay == Spec => ClosedLinkRowsStay
<1> DEFINE Stays ==
      \A a \in Approvals : linkRow[a] \in {"FAILED", "CANCELLED", "SETTLED"} =>
        linkRow'[a] = linkRow[a]
<1>1. ASSUME IInv, [Next]_vars PROVE [Stays]_vars
  <2>1. ASSUME NEW a \in Approvals, Preparing(a) PROVE Stays
    <3>1. \/ linkRow' = linkRow
          \/ /\ approval[a] = Unused
             /\ linkRow' = [linkRow EXCEPT ![a] = "PENDING"]
      BY <2>1
      DEF Preparing, PrepareTransfer, PrepareSolPaymentLink, PrepareSessionGrant,
          PrepareCancelSolPaymentLink, ExpireApproval, WasteApproval, db
    <3> QED
      BY <1>1, <3>1 DEF IInv, Shapes, PendingRows, Unused
  <2>2. ASSUME NEW h \in Handlers, Executing(h) PROVE Stays
    BY <1>1, <2>2, RecordStep
    DEF Executing, TakeApproval, Submit, Land, ChainRefuses, LoseConfirmation,
        Abort, db
  <2>3. ASSUME NEW a \in Approvals, SettleElsewhere(a) \/ SyncElsewhere(a)
        PROVE  Stays
    BY <1>1, <2>3 DEF SettleElsewhere, SyncElsewhere, db, IInv, Shapes
  <2>4. ASSUME NEW a \in orphans, LandOrphan(a) \/ ExpireOrphan(a) PROVE Stays
    BY <2>4 DEF LandOrphan, ExpireOrphan, db
  <2>5. Tick => Stays
    BY DEF Tick, db
  <2> QED
    BY <1>1, <2>1, <2>2, <2>3, <2>4, <2>5 DEF Next
<1> QED
  BY <1>1, Invariance, PTL DEF Spec, ClosedLinkRowsStay
=============================================================================
