-------------------------- MODULE PasskeyExecution --------------------------
(***************************************************************************)
(* SolanaPasskeyExecutionService: an action of a vault owner is prepared   *)
(* (the vault nonce is read, a challenge staged in Redis for five minutes),*)
(* signed on the owner's device, and executed by a second request that     *)
(* takes the staged approval, submits it and records the outcome.          *)
(*                                                                         *)
(* One vault and its owner.  An approval is identified by its prepareId;   *)
(* the short link or the session key created while preparing is named by   *)
(* the same identifier.  The handlers of executeAction interleave at their *)
(* awaits with each other, with late transactions and with the services    *)
(* that claim, refund and synchronise native links (PaymentLinkService).   *)
(***************************************************************************)
EXTENDS Integers, FiniteSets

CONSTANTS
  Approvals,    \* prepareIds
  NoApproval,
  Handlers,     \* concurrent executions of executeAction
  PrepareTtl,   \* PREPARE_TTL_MS
  MaxOrphans,   \* bound: abandoned transactions on their way at a time
  MaxTime       \* bound: the last value of the clock

ASSUME PasskeyAssumption ==
  /\ NoApproval \notin Approvals
  /\ PrepareTtl \in Nat /\ MaxOrphans \in Nat /\ MaxTime \in Nat
  /\ IsFiniteSet(Approvals)

VARIABLES
  approval,     \* the staged approvals, and the payload of those taken
  linkRow,      \* status of the ShortLink row an approval created
  fundingTx,    \* approvals whose ShortLink row has a fundingTxHash
  sessionRow,   \* state of the SessionKey row an approval created
  handler,      \* where each handler is, and the approval it holds
  orphans,      \* approvals whose transaction nobody waits for any more
  vaultExists, vaultNonce,
  granted,      \* approvals whose session account exists on chain
  escrow,       \* status of the payment-link account an approval creates
  executions,   \* history: how often the program executed each approval
  clock

db == <<linkRow, fundingTx, sessionRow>>
chain == <<vaultExists, vaultNonce, granted, escrow, executions>>
vars == <<approval, linkRow, fundingTx, sessionRow, handler, orphans,
          vaultExists, vaultNonce, granted, escrow, executions, clock>>

Kinds ==
  {"transfer", "sol_payment_link", "sol_payment_link_cancel", "session_grant"}

Unused ==
  [state |-> "unused", kind |-> "transfer", target |-> NoApproval, nonce |-> 0,
   initializeVault |-> FALSE, expiresAt |-> 0]

Idle == [at |-> "idle", holds |-> NoApproval]

Init ==
  /\ approval = [a \in Approvals |-> Unused]
  /\ linkRow = [a \in Approvals |-> "NONE"]
  /\ fundingTx = {}
  /\ sessionRow = [a \in Approvals |-> "NONE"]
  /\ handler = [h \in Handlers |-> Idle]
  /\ orphans = {}
  /\ vaultExists = FALSE /\ vaultNonce = 0
  /\ granted = {}
  /\ escrow = [a \in Approvals |-> "NONE"]
  /\ executions = [a \in Approvals |-> 0]
  /\ clock = 0

-----------------------------------------------------------------------------
(* Preparing.                                                              *)

\* Faulty variant: the expiry is rounded up instead of down.
StageRoundingUp(a, kind, target) ==
  approval' = [approval EXCEPT ![a] =
    [state |-> "staged", kind |-> kind, target |-> target,
     nonce |-> vaultNonce, initializeVault |-> ~vaultExists,
     expiresAt |-> clock + PrepareTtl + 1]]

\* The vault nonce is read here and never looked at again by the backend.
Stage(a, kind, target) ==
  approval' = [approval EXCEPT ![a] =
    [state |-> "staged", kind |-> kind, target |-> target,
     nonce |-> vaultNonce, initializeVault |-> ~vaultExists,
     expiresAt |-> clock + PrepareTtl]]

\* prepareTransfer and prepareSolTransfer.
PrepareTransfer(a) ==
  /\ approval[a] = Unused
  /\ vaultExists
  /\ Stage(a, "transfer", NoApproval)
  /\ UNCHANGED <<db, handler, orphans, chain, clock>>

PrepareSolPaymentLink(a) ==
  /\ approval[a] = Unused
  /\ vaultExists
  /\ linkRow' = [linkRow EXCEPT ![a] = "PENDING"]
  /\ Stage(a, "sol_payment_link", NoApproval)
  /\ UNCHANGED <<fundingTx, sessionRow, handler, orphans, chain, clock>>

PrepareCancelSolPaymentLink(a, link) ==
  /\ approval[a] = Unused
  /\ linkRow[link] = "ACTIVE"
  /\ vaultExists
  /\ Stage(a, "sol_payment_link_cancel", link)
  /\ UNCHANGED <<db, handler, orphans, chain, clock>>

\* provisionSessionKey stores the key before the owner has signed for it.
PrepareSessionGrant(a) ==
  /\ approval[a] = Unused
  /\ sessionRow' = [sessionRow EXCEPT ![a] = "PROVISIONED"]
  /\ Stage(a, "session_grant", NoApproval)
  /\ UNCHANGED <<linkRow, fundingTx, handler, orphans, chain, clock>>

\* The Redis key reaches the end of its time to live.
ExpireApproval(a) ==
  /\ approval[a].state = "staged" /\ clock >= approval[a].expiresAt
  /\ approval' = [approval EXCEPT ![a].state = "gone"]
  /\ UNCHANGED <<db, handler, orphans, chain, clock>>

-----------------------------------------------------------------------------
(* Executing.                                                              *)

\* Faulty variant: the approval is read with get and deleted afterwards.
TakeWithoutDelete(h, a) ==
  /\ handler[h] = Idle
  /\ approval[a].state = "staged"
  /\ handler' = [handler EXCEPT ![h] = [at |-> "submit", holds |-> a]]
  /\ UNCHANGED <<approval, db, orphans, chain, clock>>

\* takeJson is GETDEL: the key is read and removed in one command.
TakeApproval(h, a) ==
  /\ handler[h] = Idle
  /\ approval[a].state = "staged"
  /\ approval' = [approval EXCEPT ![a].state = "gone"]
  /\ handler' = [handler EXCEPT ![h] = [at |-> "submit", holds |-> a]]
  /\ UNCHANGED <<db, orphans, chain, clock>>

\* Another account, another passkey or another challenge: executeAction
\* throws, but the approval has been taken.
WasteApproval(a) ==
  /\ approval[a].state = "staged"
  /\ approval' = [approval EXCEPT ![a].state = "gone"]
  /\ UNCHANGED <<db, handler, orphans, chain, clock>>

Goto(h, place) == handler' = [handler EXCEPT ![h].at = place]
Return(h) == handler' = [handler EXCEPT ![h] = Idle]

\* Faulty variant: the program does not compare the nonce.
NonceIgnored(a) == ~approval[a].initializeVault => vaultExists

\* The vault nonce the owner signed is the current one.
NonceCurrent(a) ==
  IF approval[a].initializeVault THEN ~vaultExists
  ELSE vaultExists /\ vaultNonce = approval[a].nonce

\* What the instruction of the approval requires of the account it creates
\* or settles.
Executable(a) ==
  /\ NonceCurrent(a)
  /\ clock <= approval[a].expiresAt
  /\ approval[a].kind = "sol_payment_link" => escrow[a] = "NONE"
  /\ approval[a].kind = "sol_payment_link_cancel" =>
       escrow[approval[a].target] = "ACTIVE"
  /\ approval[a].kind = "session_grant" => a \notin granted

Execute(a) ==
  /\ Executable(a)
  /\ vaultExists' = TRUE
  /\ vaultNonce' = vaultNonce + 1
  /\ granted' = IF approval[a].kind = "session_grant" THEN granted \cup {a}
                ELSE granted
  /\ escrow' = CASE approval[a].kind = "sol_payment_link" ->
                      [escrow EXCEPT ![a] = "ACTIVE"]
                 [] approval[a].kind = "sol_payment_link_cancel" ->
                      [escrow EXCEPT ![approval[a].target] = "CANCELLED"]
                 [] OTHER -> escrow
  /\ executions' = [executions EXCEPT ![a] = @ + 1]

Submit(h) ==
  /\ handler[h].at = "submit"
  /\ Executable(handler[h].holds)
  /\ Goto(h, "sent")
  /\ UNCHANGED <<approval, db, orphans, chain, clock>>

Land(h) ==
  /\ handler[h].at = "sent"
  /\ Execute(handler[h].holds)
  /\ Goto(h, "landed")
  /\ UNCHANGED <<approval, db, orphans, clock>>

\* The catch block: only the row of a new link is touched.
Throw(h) ==
  IF approval[handler[h].holds].kind = "sol_payment_link"
    THEN Goto(h, "failed") ELSE Return(h)

Abandon(h) ==
  IF handler[h].at = "sent"
    THEN /\ Cardinality(orphans) < MaxOrphans
         /\ orphans' = orphans \cup {handler[h].holds}
    ELSE UNCHANGED orphans

ChainRefuses(h) ==
  /\ handler[h].at \in {"submit", "sent"}
  /\ Throw(h)
  /\ UNCHANGED <<approval, db, orphans, chain, clock>>

LoseConfirmation(h) ==
  /\ handler[h].at \in {"sent", "landed"}
  /\ Throw(h)
  /\ Abandon(h)
  /\ UNCHANGED <<approval, db, chain, clock>>

\* failPendingSolPaymentLink: a conditional update.
FailPendingSolPaymentLink(h) ==
  /\ handler[h].at = "failed"
  /\ LET a == handler[h].holds IN
     linkRow' = IF linkRow[a] = "PENDING" /\ a \notin fundingTx
                  THEN [linkRow EXCEPT ![a] = "FAILED"] ELSE linkRow
  /\ Return(h)
  /\ UNCHANGED <<approval, fundingTx, sessionRow, orphans, chain, clock>>

\* Faulty variant: the rows are updated as soon as the transaction is sent.
RecordOnSend(h) ==
  LET a == handler[h].holds
      kind == approval[a].kind
  IN
  /\ handler[h].at = "sent"
  /\ linkRow' = IF kind = "sol_payment_link" THEN [linkRow EXCEPT ![a] = "ACTIVE"]
                ELSE linkRow
  /\ fundingTx' = fundingTx
  /\ sessionRow' = IF kind = "session_grant"
                     THEN [sessionRow EXCEPT ![a] = "ACTIVATED"] ELSE sessionRow
  /\ Return(h)
  /\ UNCHANGED <<approval, orphans, chain, clock>>

\* After the confirmation: activateSolPaymentLink, markSolPaymentLinkCancelled
\* or, in the closing transaction, activatedAt of the session key.
RecordOutcome(h) ==
  LET a == handler[h].holds
      kind == approval[a].kind
  IN
  /\ handler[h].at = "landed"
  /\ linkRow' = CASE kind = "sol_payment_link" -> [linkRow EXCEPT ![a] = "ACTIVE"]
                  [] kind = "sol_payment_link_cancel" ->
                       [linkRow EXCEPT ![approval[a].target] = "CANCELLED"]
                  [] OTHER -> linkRow
  /\ fundingTx' = IF kind = "sol_payment_link" THEN fundingTx \cup {a} ELSE fundingTx
  /\ sessionRow' = IF kind = "session_grant"
                     THEN [sessionRow EXCEPT ![a] = "ACTIVATED"] ELSE sessionRow
  /\ Return(h)
  /\ UNCHANGED <<approval, orphans, chain, clock>>

-----------------------------------------------------------------------------
(* Everything else.                                                        *)

Abort(h) ==
  /\ handler[h] # Idle
  /\ Return(h)
  /\ Abandon(h)
  /\ UNCHANGED <<approval, db, chain, clock>>

LandOrphan(a) ==
  /\ Execute(a)
  /\ orphans' = orphans \ {a}
  /\ UNCHANGED <<approval, db, handler, clock>>

ExpireOrphan(a) ==
  /\ orphans' = orphans \ {a}
  /\ UNCHANGED <<approval, db, handler, chain, clock>>

\* PaymentLinkService: the link is claimed, or refunded after its expiry.
SettleElsewhere(a) ==
  /\ escrow[a] = "ACTIVE"
  /\ escrow' = [escrow EXCEPT ![a] = "SETTLED"]
  /\ UNCHANGED <<approval, db, handler, orphans, vaultExists, vaultNonce,
                 granted, executions, clock>>

\* PaymentLinkService: redeem, or the sweep, writes what the chain says.
SyncElsewhere(a) ==
  /\ linkRow[a] = "ACTIVE"
  /\ escrow[a] \in {"SETTLED", "CANCELLED"}
  /\ linkRow' = [linkRow EXCEPT ![a] = escrow[a]]
  /\ UNCHANGED <<approval, fundingTx, sessionRow, handler, orphans, chain, clock>>

Tick ==
  /\ clock < MaxTime
  /\ clock' = clock + 1
  /\ UNCHANGED <<approval, db, handler, orphans, chain>>

-----------------------------------------------------------------------------
Preparing(a) ==
  \/ PrepareTransfer(a) \/ PrepareSolPaymentLink(a) \/ PrepareSessionGrant(a)
  \/ \E link \in Approvals : PrepareCancelSolPaymentLink(a, link)
  \/ ExpireApproval(a) \/ WasteApproval(a)

Executing(h) ==
  \/ \E a \in Approvals : TakeApproval(h, a)
  \/ Submit(h) \/ Land(h) \/ ChainRefuses(h) \/ LoseConfirmation(h)
  \/ FailPendingSolPaymentLink(h) \/ RecordOutcome(h) \/ Abort(h)

Next ==
  \/ \E a \in Approvals : Preparing(a) \/ SettleElsewhere(a) \/ SyncElsewhere(a)
  \/ \E h \in Handlers : Executing(h)
  \/ \E a \in orphans : LandOrphan(a) \/ ExpireOrphan(a)
  \/ Tick

Spec == Init /\ [][Next]_vars

-----------------------------------------------------------------------------
(* Properties.                                                             *)

\* The staged payloads, the rows and the handlers keep their shape, and the
\* vault nonce never outgrows the number of approvals.
TypeOK ==
  /\ approval \in [Approvals ->
       [state : {"unused", "staged", "gone"},
        kind : Kinds,
        target : Approvals \cup {NoApproval},
        nonce : 0 .. Cardinality(Approvals), initializeVault : BOOLEAN,
        expiresAt : 0 .. MaxTime + PrepareTtl]]
  /\ linkRow \in [Approvals -> {"NONE", "PENDING", "ACTIVE", "FAILED",
                                "CANCELLED", "SETTLED"}]
  /\ fundingTx \subseteq Approvals
  /\ sessionRow \in [Approvals -> {"NONE", "PROVISIONED", "ACTIVATED"}]
  /\ handler \in [Handlers -> [at : {"idle", "submit", "sent", "landed", "failed"},
                               holds : Approvals \cup {NoApproval}]]
  /\ orphans \subseteq Approvals
  /\ vaultExists \in BOOLEAN /\ vaultNonce \in 0 .. Cardinality(Approvals)
  /\ granted \subseteq Approvals
  /\ escrow \in [Approvals -> {"NONE", "ACTIVE", "CANCELLED", "SETTLED"}]
  /\ executions \in [Approvals -> Nat]
  /\ clock \in 0 .. MaxTime

\* An approval executes at most once, and of several approvals prepared on
\* the same vault nonce at most one executes, however the transactions are
\* delayed (the nonce read in prepare*, checked by the program).
OneExecutionPerNonce ==
  \A a, b \in Approvals :
    /\ executions[a] <= 1
    /\ (a # b /\ executions[a] > 0 /\ executions[b] > 0)
         => approval[a].nonce # approval[b].nonce

\* Who holds an approval: the staged key, one handler, or one transaction
\* still on its way.
Holders(a) ==
  Cardinality({h \in Handlers : handler[h].holds = a})
    + (IF a \in orphans THEN 1 ELSE 0)

\* Two concurrent executeAction requests cannot both go on with one approval
\* (redis.takeJson), and a staged approval is held by nobody.  A handler
\* that gave up on its transaction may still be marking the row.
ApprovalTakenOnce ==
  \A a \in Approvals :
    /\ approval[a].state # "gone" => Holders(a) = 0
    /\ Cardinality({h \in Handlers : handler[h].holds = a}) <= 1

\* A session key the backend will sign with was granted on chain: activatedAt
\* is written for a key only after its own grant was confirmed.
ActivatedSessionsAreGranted ==
  \A a \in Approvals : sessionRow[a] = "ACTIVATED" => a \in granted

\* The row of a native link never runs ahead of the chain, although
\* executeAction updates it by code, without looking at its status, while
\* claims and sweeps update it too.
LinkRowsFollowChain ==
  \A a \in Approvals :
    CASE linkRow[a] = "ACTIVE" -> escrow[a] # "NONE"
      [] linkRow[a] = "CANCELLED" -> escrow[a] = "CANCELLED"
      [] linkRow[a] = "SETTLED" -> escrow[a] = "SETTLED"
      [] OTHER -> TRUE

\* A row that left PENDING by failing, or ACTIVE by settling, stays there: no
\* handler revives a link its sender was told is gone.
ClosedLinkRowsStay ==
  [][\A a \in Approvals :
       linkRow[a] \in {"FAILED", "CANCELLED", "SETTLED"} =>
         linkRow'[a] = linkRow[a]]_vars
=============================================================================
