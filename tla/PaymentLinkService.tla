------------------------- MODULE PaymentLinkService -------------------------
(***************************************************************************)
(* The backend's USDC payment links: the ShortLink record in the database  *)
(* against the escrow on chain, under concurrent requests.                 *)
(*                                                                         *)
(* The asynchronous handlers of SolanaPaymentLinksService (createClaimLink,*)
(* claim, cancelClaimLink, sweepExpired) interleave at their awaits.  Each *)
(* action below runs from one await to the next.  A transaction is         *)
(* simulated, sent, and then either confirmed to its handler or not: the   *)
(* handler's wait may end with an error while the transaction is still on  *)
(* its way, or has already landed.  The process may restart at any time.   *)
(*                                                                         *)
(* On chain a link is what LinkEscrow says (which VaultProgram implements),*)
(* plus the session nonce that create and cancel consume.                  *)
(***************************************************************************)
EXTENDS Integers, FiniteSets

CONSTANTS
  Codes,          \* short-link codes; the escrow address is a hash of the code
  Users,          \* users with a wallet who may try to claim
  NoUser,
  NoCode,
  Addressees,     \* the users assertRecipient lets through, for each code
  Handlers,       \* concurrent executions of a request or of the cron job
  Cron,           \* the handler that runs the daily sweep in FairSpec
  LinkLifetime,   \* LINK_LIFETIME_MS
  MaxOrphans,     \* bound: abandoned transactions on their way at a time
  MaxTime         \* bound: the last value of the clock

ASSUME ServiceAssumption ==
  /\ Addressees \in [Codes -> SUBSET Users]
  /\ NoUser \notin Users /\ NoCode \notin Codes
  /\ LinkLifetime \in Nat \ {0} /\ MaxTime \in Nat /\ MaxOrphans \in Nat
  /\ IsFiniteSet(Codes)
  /\ Cron \in Handlers

VARIABLES
  record,         \* the ShortLink rows
  sessionActive,  \* the sender's SessionKey row: activated, not revoked
  handler,        \* where each handler is, and what it holds across awaits
  orphans,        \* transactions still on their way that nobody waits for
  sessionNonce,   \* on chain: Session.nonce
  escrowStatus, escrowAmount, escrowDeadline, escrowPayee, escrowPaid,
  clock           \* backend and cluster time

Chain == INSTANCE LinkEscrow WITH
  Links <- Codes, Parties <- Users, Nobody <- NoUser, Promises <- {1},
  Instants <- 0 .. MaxTime,
  status <- escrowStatus, promise <- escrowAmount,
  deadline <- escrowDeadline, payee <- escrowPayee, paid <- escrowPaid

db == <<record, sessionActive>>
chain == <<sessionNonce, escrowStatus, escrowAmount, escrowDeadline,
           escrowPayee, escrowPaid, clock>>
vars == <<record, sessionActive, handler, orphans, sessionNonce, escrowStatus,
          escrowAmount, escrowDeadline, escrowPayee, escrowPaid, clock>>

RecordStatuses ==
  {"NONE", "PENDING", "ACTIVE", "FAILED", "CLAIMED", "CANCELLED", "EXPIRED"}
FinalStatuses == {"FAILED", "CLAIMED", "CANCELLED", "EXPIRED"}
SessionOps == {"create", "cancel"}

NoRecord ==
  [status |-> "NONE", envelope |-> FALSE, expiresAt |-> 0, claimedBy |-> NoUser]

\* A handler that is not running a request: it holds nothing.
Idle ==
  [op |-> "none", at |-> "idle", code |-> NoCode, user |-> NoUser,
   nonce |-> 0, seen |-> "NONE", todo |-> {}]

Init ==
  /\ record = [c \in Codes |-> NoRecord]
  /\ sessionActive = TRUE
  /\ handler = [h \in Handlers |-> Idle]
  /\ orphans = {}
  /\ sessionNonce = 0
  /\ Chain!Init

-----------------------------------------------------------------------------
(* What the handlers share.                                                *)

Expired(c) == record[c].expiresAt < clock

\* The handler goes on to another await.
Goto(h, place) == handler' = [handler EXCEPT ![h].at = place]

\* The handler returns or throws to its caller.
Return(h) == handler' = [handler EXCEPT ![h] = Idle]

\* A refund returns to the loop of sweepExpired, which goes on with the rest
\* of the links it read at the start.
Loop(rest) ==
  IF rest = {} THEN Idle
  ELSE [Idle EXCEPT !.op = "refund", !.at = "next", !.todo = rest]
NextLink(h) == handler' = [handler EXCEPT ![h] = Loop(handler[h].todo)]

\* What a thrown error does: createClaimLink goes on to mark the record
\* FAILED, the loop of sweepExpired goes on with the next link.
Throw(h) ==
  CASE handler[h].op = "create" -> Goto(h, "failed")
    [] handler[h].op = "refund" -> NextLink(h)
    [] OTHER -> Return(h)

SetStatus(c, s) == record' = [record EXCEPT ![c].status = s]

-----------------------------------------------------------------------------
(* Transactions.                                                           *)

Transaction(h) ==
  [op |-> handler[h].op, code |-> handler[h].code, user |-> handler[h].user,
   nonce |-> handler[h].nonce]

\* Nobody waits any longer for the transaction the handler sent.
Abandon(h) ==
  IF handler[h].at = "sent"
    THEN /\ Cardinality(orphans) < MaxOrphans
         /\ orphans' = orphans \cup {Transaction(h)}
    ELSE UNCHANGED orphans

NonceMatches(tx) == tx.op \in SessionOps => tx.nonce = sessionNonce

\* The program would execute tx now.
Executable(tx) ==
  /\ NonceMatches(tx)
  /\ CASE tx.op = "create" -> /\ escrowStatus[tx.code] = "NONE"
                              /\ record[tx.code].expiresAt > clock
       [] tx.op = "claim"  -> /\ escrowStatus[tx.code] = "ACTIVE"
                              /\ clock <= escrowDeadline[tx.code]
       [] tx.op = "cancel" -> escrowStatus[tx.code] = "ACTIVE"
       [] tx.op = "refund" -> /\ escrowStatus[tx.code] = "ACTIVE"
                              /\ clock > escrowDeadline[tx.code]

\* The program executes tx.
Execute(tx) ==
  /\ NonceMatches(tx)
  /\ \/ tx.op = "create" /\ Chain!Open(tx.code, 1, record[tx.code].expiresAt)
     \/ tx.op = "claim" /\ Chain!Claim(tx.code, tx.user)
     \/ tx.op = "cancel" /\ Chain!Cancel(tx.code)
     \/ tx.op = "refund" /\ Chain!Refund(tx.code)
  /\ sessionNonce' = IF tx.op \in SessionOps THEN sessionNonce + 1
                     ELSE sessionNonce

\* submit: the transaction passes its simulation and is sent.
Submit(h) ==
  /\ handler[h].at = "submit"
  /\ Executable(Transaction(h))
  /\ Goto(h, "sent")
  /\ UNCHANGED <<db, orphans, chain>>

\* The cluster includes a transaction its handler is still waiting for.
Land(h) ==
  /\ handler[h].at = "sent"
  /\ Execute(Transaction(h))
  /\ Goto(h, "landed")
  /\ UNCHANGED <<db, orphans>>

\* The simulation fails, the transaction is rejected or its blockhash
\* expires (a full escrow, a paused program and an empty vault are reasons
\* too), or a call that only reads the chain fails: submit, or the read,
\* throws and nothing moved.
ChainRefuses(h) ==
  /\ handler[h].at \in {"session", "escrow", "submit", "sent"}
  /\ Throw(h)
  /\ UNCHANGED <<db, orphans, chain>>

\* sendRawTransaction or confirmTransaction throws although the transaction
\* was sent: it may have landed already, or may still do so.
LoseConfirmation(h) ==
  /\ handler[h].at \in {"sent", "landed"}
  /\ Throw(h)
  /\ Abandon(h)
  /\ UNCHANGED <<db, chain>>

LandOrphan(tx) ==
  /\ Execute(tx)
  /\ orphans' = orphans \ {tx}
  /\ UNCHANGED <<db, handler>>

\* Its blockhash is too old: the cluster will never include it.
ExpireOrphan(tx) ==
  /\ orphans' = orphans \ {tx}
  /\ UNCHANGED <<db, handler, chain>>

-----------------------------------------------------------------------------
(* createClaimLink                                                         *)

\* Checks the sender and its session, then creates the PENDING record.
CreateClaimLink(h, c) ==
  /\ handler[h] = Idle
  /\ sessionActive
  /\ record[c] = NoRecord
  /\ clock + LinkLifetime < MaxTime
  /\ record' = [record EXCEPT ![c].status = "PENDING",
                              ![c].expiresAt = clock + LinkLifetime]
  /\ handler' = [handler EXCEPT ![h] =
       [Idle EXCEPT !.op = "create", !.at = "session", !.code = c]]
  /\ UNCHANGED <<sessionActive, orphans, chain>>

\* requireActiveSession and readSession, before a create or a cancel.
ReadSession(h) ==
  /\ handler[h].at = "session"
  /\ IF sessionActive
       THEN handler' = [handler EXCEPT ![h].nonce = sessionNonce,
                                       ![h].at = "submit"]
       ELSE Throw(h)
  /\ UNCHANGED <<db, orphans, chain>>

MarkFailed(h) ==
  /\ handler[h].at = "failed"
  /\ SetStatus(handler[h].code, "FAILED")
  /\ Return(h)
  /\ UNCHANGED <<sessionActive, orphans, chain>>

Activate(h) ==
  /\ handler[h].at = "landed" /\ handler[h].op = "create"
  /\ record' = [record EXCEPT ![handler[h].code].status = "ACTIVE",
                              ![handler[h].code].envelope = TRUE]
  /\ Return(h)
  /\ UNCHANGED <<sessionActive, orphans, chain>>

-----------------------------------------------------------------------------
(* claim                                                                   *)

Claim(h, c, u) ==
  /\ handler[h] = Idle
  /\ record[c].status = "ACTIVE"
  /\ ~Expired(c)
  /\ record[c].envelope
  /\ u \in Addressees[c]
  /\ handler' = [handler EXCEPT ![h] =
       [Idle EXCEPT !.op = "claim", !.at = "escrow", !.code = c, !.user = u]]
  /\ UNCHANGED <<db, orphans, chain>>

\* A claim that comes too late refunds the sender, then throws.
ClaimExpired(h, c) ==
  /\ handler[h] = Idle
  /\ record[c].status = "ACTIVE"
  /\ Expired(c)
  /\ handler' = [handler EXCEPT ![h] =
       [Idle EXCEPT !.op = "refund", !.at = "next", !.todo = {c}]]
  /\ UNCHANGED <<db, orphans, chain>>

\* readPaymentLink: the escrow must still be active.
ReadEscrow(h) ==
  /\ handler[h].at = "escrow" /\ handler[h].op = "claim"
  /\ IF escrowStatus[handler[h].code] = "ACTIVE" THEN Goto(h, "submit")
                                                 ELSE Throw(h)
  /\ UNCHANGED <<db, orphans, chain>>

\* Faulty variant: the record is redeemed as soon as the claim is sent.
RedeemOnSend(h) ==
  /\ handler[h].at \in {"sent", "landed"} /\ handler[h].op = "claim"
  /\ IF record[handler[h].code].status = "ACTIVE" THEN Goto(h, "redeem")
                                                  ELSE Return(h)
  /\ UNCHANGED <<db, orphans, chain>>

\* redeem reads the record again and throws when it is not ACTIVE any more,
\* although the money has moved.
Redeem(h) ==
  /\ handler[h].at = "landed" /\ handler[h].op = "claim"
  /\ IF record[handler[h].code].status = "ACTIVE" THEN Goto(h, "redeem")
                                                  ELSE Return(h)
  /\ UNCHANGED <<db, orphans, chain>>

MarkClaimed(h) ==
  /\ handler[h].at = "redeem"
  /\ record' = [record EXCEPT ![handler[h].code].status = "CLAIMED",
                              ![handler[h].code].claimedBy = handler[h].user]
  /\ Return(h)
  /\ UNCHANGED <<sessionActive, orphans, chain>>

-----------------------------------------------------------------------------
(* cancelClaimLink                                                         *)

CancelClaimLink(h, c) ==
  /\ handler[h] = Idle
  /\ record[c].status = "ACTIVE"
  /\ record[c].envelope
  /\ sessionActive
  /\ handler' = [handler EXCEPT ![h] =
       [Idle EXCEPT !.op = "cancel", !.at = "session", !.code = c]]
  /\ UNCHANGED <<db, orphans, chain>>

\* Faulty variant: only the record is cancelled.
MarkCancelledFirst(h) ==
  /\ handler[h].at = "submit" /\ handler[h].op = "cancel"
  /\ SetStatus(handler[h].code, "CANCELLED")
  /\ Return(h)
  /\ UNCHANGED <<sessionActive, orphans, chain>>

\* The update names the code only: it does not look at the status again.
MarkCancelled(h) ==
  /\ handler[h].at = "landed" /\ handler[h].op = "cancel"
  /\ SetStatus(handler[h].code, "CANCELLED")
  /\ Return(h)
  /\ UNCHANGED <<sessionActive, orphans, chain>>

-----------------------------------------------------------------------------
(* sweepExpired and refundExpiredLink                                      *)

Sweepable(c) == record[c].status = "ACTIVE" /\ Expired(c) /\ record[c].envelope

SweepExpired(h) ==
  /\ handler[h] = Idle
  /\ \E c \in Codes : Sweepable(c)
  /\ handler' = [handler EXCEPT ![h] =
       [Idle EXCEPT !.op = "refund", !.at = "next",
                    !.todo = {c \in Codes : Sweepable(c)}]]
  /\ UNCHANGED <<db, orphans, chain>>

\* Faulty variant: a link that is already settled on chain is skipped.
RefundOnlyActive(h, c) ==
  /\ handler[h].at = "next" /\ c \in handler[h].todo
  /\ LET rest == handler[h].todo \ {c} IN
     handler' = [handler EXCEPT ![h] =
       IF escrowStatus[c] = "ACTIVE"
         THEN [@ EXCEPT !.code = c, !.todo = rest, !.at = "submit"]
         ELSE Loop(rest)]
  /\ UNCHANGED <<db, orphans, chain>>

\* refundExpiredLink reads the escrow: no account, nothing to do; a settled
\* link is only synchronised; an active one is refunded.
RefundExpiredLink(h, c) ==
  /\ handler[h].at = "next" /\ c \in handler[h].todo
  /\ LET rest == handler[h].todo \ {c}
         here == [handler[h] EXCEPT !.code = c, !.todo = rest,
                                    !.seen = escrowStatus[c]]
     IN handler' = [handler EXCEPT ![h] =
          CASE escrowStatus[c] = "NONE" -> Loop(rest)
            [] escrowStatus[c] = "ACTIVE" -> [here EXCEPT !.at = "submit"]
            [] OTHER -> [here EXCEPT !.at = "sync"]]
  /\ UNCHANGED <<db, orphans, chain>>

\* Faulty variants: the chain's own name is stored, and every link the sweep
\* finds settled is taken for refunded.
StatusUnmapped(s) == s
StatusAlwaysExpired(s) == "EXPIRED"

PaymentLinkStatus(s) ==
  CASE s = "CLAIMED" -> "CLAIMED"
    [] s = "CANCELLED" -> "CANCELLED"
    [] s = "REFUNDED" -> "EXPIRED"
    [] OTHER -> "ACTIVE"

SyncRecord(h) ==
  /\ handler[h].at = "sync"
  /\ SetStatus(handler[h].code, PaymentLinkStatus(handler[h].seen))
  /\ NextLink(h)
  /\ UNCHANGED <<sessionActive, orphans, chain>>

MarkExpired(h) ==
  /\ handler[h].at = "landed" /\ handler[h].op = "refund"
  /\ SetStatus(handler[h].code, "EXPIRED")
  /\ NextLink(h)
  /\ UNCHANGED <<sessionActive, orphans, chain>>

-----------------------------------------------------------------------------
(* Everything else.                                                        *)

\* The process restarts, or a database call throws: the handler is gone, a
\* transaction it sent is not.
Abort(h) ==
  /\ handler[h] # Idle
  /\ Return(h)
  /\ Abandon(h)
  /\ UNCHANGED <<db, chain>>

\* The owner revokes the session key, or it expires.
RevokeSessionKey ==
  /\ sessionActive
  /\ sessionActive' = FALSE
  /\ UNCHANGED <<record, handler, orphans, chain>>

\* Anyone may call refund_expired_payment_link.
ForeignRefund(c) ==
  /\ Chain!Refund(c)
  /\ UNCHANGED <<db, handler, orphans, sessionNonce>>

Tick ==
  /\ clock < MaxTime
  /\ Chain!Advance
  /\ UNCHANGED <<db, handler, orphans, sessionNonce>>

-----------------------------------------------------------------------------
HandlerStep(h) ==
  \/ \E c \in Codes : CreateClaimLink(h, c) \/ CancelClaimLink(h, c)
                      \/ ClaimExpired(h, c) \/ RefundExpiredLink(h, c)
  \/ \E c \in Codes, u \in Users : Claim(h, c, u)
  \/ SweepExpired(h)
  \/ ReadSession(h) \/ ReadEscrow(h) \/ Redeem(h)
  \/ MarkFailed(h) \/ Activate(h) \/ MarkClaimed(h) \/ MarkCancelled(h)
  \/ SyncRecord(h) \/ MarkExpired(h)
  \/ Submit(h) \/ Land(h) \/ ChainRefuses(h) \/ LoseConfirmation(h)
  \/ Abort(h)

Next ==
  \/ \E h \in Handlers : HandlerStep(h)
  \/ \E tx \in orphans : LandOrphan(tx) \/ ExpireOrphan(tx)
  \/ \E c \in Codes : ForeignRefund(c)
  \/ RevokeSessionKey
  \/ Tick

Spec == Init /\ [][Next]_vars

Refunding(h) == handler[h].op = "refund"

(***************************************************************************)
(* Time passes, a handler's awaits end, the daily job starts again and     *)
(* again, and no step of it fails every time it is tried: a transaction    *)
(* that is sent day after day lands some day.                              *)
(***************************************************************************)
Fairness ==
  /\ WF_vars(Tick)
  /\ WF_vars(HandlerStep(Cron))
  /\ SF_vars(SweepExpired(Cron))
  /\ \A c \in Codes : SF_vars(RefundExpiredLink(Cron, c))
  /\ SF_vars(Refunding(Cron) /\ Submit(Cron))
  /\ SF_vars(Refunding(Cron) /\ Land(Cron))
  /\ SF_vars(SyncRecord(Cron))

FairSpec == Spec /\ Fairness

-----------------------------------------------------------------------------
(* Properties.                                                             *)

Transactions ==
  [op : {"create", "claim", "cancel", "refund"}, code : Codes,
   user : Users \cup {NoUser}, nonce : 0 .. 2 * Cardinality(Codes)]

\* The rows and the handlers' local variables have the shape the services
\* give them.  A session signs at most two transactions per code.
TypeOK ==
  /\ record \in [Codes -> [status : RecordStatuses, envelope : BOOLEAN,
                           expiresAt : 0 .. MaxTime,
                           claimedBy : Users \cup {NoUser}]]
  /\ sessionActive \in BOOLEAN
  /\ handler \in [Handlers ->
       [op : {"none", "create", "claim", "cancel", "refund"},
        at : {"idle", "session", "escrow", "submit", "sent", "landed",
              "redeem", "sync", "failed", "next"},
        code : Codes \cup {NoCode}, user : Users \cup {NoUser},
        nonce : 0 .. 2 * Cardinality(Codes),
        seen : {"NONE", "ACTIVE", "CLAIMED", "CANCELLED", "REFUNDED"},
        todo : SUBSET Codes]]
  /\ orphans \subseteq Transactions
  /\ sessionNonce \in 0 .. 2 * Cardinality(Codes)

\* The chain status that a record status reports to the users.
Reports(s, onChain) ==
  CASE s = "CLAIMED" -> onChain = "CLAIMED"
    [] s = "CANCELLED" -> onChain = "CANCELLED"
    [] s = "EXPIRED" -> onChain = "REFUNDED"
    [] s = "ACTIVE" -> onChain # "NONE"
    [] s = "NONE" -> onChain = "NONE"
    [] OTHER -> TRUE

\* The record only follows the chain: CLAIMED, CANCELLED and EXPIRED are
\* written after the escrow was released in exactly that way, whichever
\* handlers raced for it, and ACTIVE after it was funded (cancelClaimLink:
\* "the on-chain release ... happens first and the record only follows").
RecordFollowsChain ==
  \A c \in Codes : Reports(record[c].status, escrowStatus[c])

\* The user a record names as claimant is the one the escrow paid, although
\* several users and several attempts may race for one link.
ClaimantWasPaid ==
  \A c \in Codes : record[c].claimedBy # NoUser =>
    escrowStatus[c] = "CLAIMED" /\ escrowPayee[c] = record[c].claimedBy

\* A final record is never rewritten, although cancelClaimLink,
\* refundExpiredLink and createClaimLink update by key, without looking at
\* the status they overwrite.
FinalRecordsStay ==
  [][\A c \in Codes : record[c].status \in FinalStatuses =>
       record'[c].status = record[c].status]_vars

\* A link that became active does not stay so: its money leaves the escrow
\* and its record says how, whatever fails on the way (the daily sweep of
\* expiry.cron.ts, and the state.status check of refundExpiredLink, which
\* repairs a record whose confirmation was lost).
ActiveLinksSettle ==
  \A c \in Codes : record[c].status = "ACTIVE" ~>
    /\ escrowStatus[c] \in Chain!Settled
    /\ record[c].status = PaymentLinkStatus(escrowStatus[c])

\* An active link whose time is over is in the reach of the sweep, and no check
\* of the program stops its refund, now or once it is submitted: the record's
\* expiresAt is the escrow's deadline, so refundExpiredLink never runs early,
\* and an escrow that somebody else settled meanwhile is found settled.
OverdueLinksCanEnd ==
  /\ \A c \in Codes : record[c].status = "ACTIVE" /\ Expired(c) =>
       /\ Sweepable(c)
       /\ \/ escrowStatus[c] \in Chain!Settled
          \/ Executable([op |-> "refund", code |-> c, user |-> NoUser, nonce |-> 0])
  /\ \A h \in Handlers : Refunding(h) /\ handler[h].at \in {"submit", "sent"} =>
       \/ escrowStatus[handler[h].code] \in Chain!Settled
       \/ Executable(Transaction(h))

\* "The USDC could not be escrowed on Solana. No funds were moved." (the
\* bot's answer in platform.service.ts when createClaimLink throws)
FailedMeansNotFunded ==
  \A c \in Codes : record[c].status = "FAILED" => escrowStatus[c] = "NONE"
=============================================================================
