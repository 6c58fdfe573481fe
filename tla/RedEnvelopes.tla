---------------------------- MODULE RedEnvelopes ----------------------------
(***************************************************************************)
(* EnvelopesService and ClaimRetryService: one red envelope, its rows      *)
(* (RedEnvelope, EnvelopeClaim, PendingClaim) and the SocialPayments       *)
(* escrow behind it.  A claim is settled from the claimer's vault and      *)
(* recorded from the values that were read before it, so concurrent claims *)
(* overwrite each other's count.  A claim that landed but could not be     *)
(* recorded is queued, and the retry job claims it again.                  *)
(*                                                                         *)
(* Shares are equal, so an envelope with a share left has a balance left.  *)
(* The creator's vault accepts a call only with its own next nonce.        *)
(*                                                                         *)
(* The relayer is the EVM RelayerService.  relayer.module.ts binds that    *)
(* name to SolanaRelayerService, whose executeLocalSessionAction refuses   *)
(* every call: in the shipped wiring each call to the escrow is refused.   *)
(***************************************************************************)
EXTENDS Integers, FiniteSets

CONSTANTS
  Handlers,    \* concurrent requests, the retry job included
  Claimers,
  Slots,       \* numRecipients
  MaxRetries,  \* a claim is tried again this many times
  MaxOrphans,  \* bound: abandoned transactions on their way at a time
  MaxNonce     \* bound: calls of the creator's vault

VARIABLES
  envelope,    \* the RedEnvelope row; known: onChainId is the escrow's id
  claimRows,   \* claimers with an EnvelopeClaim row
  pending,     \* PendingClaim rows, per claimer
  envHandler,  \* where each request is, and what it holds across awaits
  envOrphans,  \* transactions still on their way that nobody waits for
  escrow,      \* on chain: the envelope
  vaultNonce   \* on chain: localSessionNonces of the creator's vault

vars == <<envelope, claimRows, pending, envHandler, envOrphans, escrow, vaultNonce>>
rows == <<envelope, claimRows, pending>>
chain == <<escrow, vaultNonce>>

NotQueued == [status |-> "none", retries |-> 0]
Idle == [op |-> "none", at |-> "idle", who |-> CHOOSE c \in Claimers : TRUE,
         left |-> 0, read |-> 0, nonce |-> 0]

Init ==
  /\ envelope = [status |-> "NONE", left |-> 0, known |-> FALSE]
  /\ claimRows = {}
  /\ pending = [c \in Claimers |-> NotQueued]
  /\ envHandler = [h \in Handlers |-> Idle]
  /\ envOrphans = {}
  /\ escrow = [state |-> "none", claimed |-> {}, cancel |-> "no"]
  /\ vaultNonce = 0

At(h, op, place) == envHandler[h].op = op /\ envHandler[h].at = place
Start(h, request) == envHandler[h] = Idle /\ envHandler' = [envHandler EXCEPT ![h] = request]
Goto(h, place) == envHandler' = [envHandler EXCEPT ![h].at = place]
Return(h) == envHandler' = [envHandler EXCEPT ![h] = Idle]

-----------------------------------------------------------------------------
(* create: an approval and the creation with consecutive nonces, then the  *)
(* row.                                                                    *)

BeginCreate(h) ==
  /\ envelope.status = "NONE" /\ escrow.state = "none"
  /\ \A g \in Handlers : envHandler[g] = Idle
  /\ Start(h, [Idle EXCEPT !.op = "create", !.at = "approve", !.read = vaultNonce,
                           !.nonce = vaultNonce])
  /\ UNCHANGED <<rows, envOrphans, chain>>

Approved(h) ==
  /\ At(h, "create", "approved")
  /\ envHandler' = [envHandler EXCEPT ![h].at = "sent", ![h].nonce = envHandler[h].read + 1]
  /\ UNCHANGED <<rows, envOrphans, chain>>

\* The id comes from the receipt's event; without a receipt the time stands in.
CreateRow(h, receipt) ==
  /\ At(h, "create", "landed")
  /\ envelope' = [status |-> "ACTIVE", left |-> Slots, known |-> receipt]
  /\ Return(h)
  /\ UNCHANGED <<claimRows, pending, envOrphans, chain>>

-----------------------------------------------------------------------------
(* claimEnvelope.                                                          *)

\* What the envelope that was read must say.
Claimable == envelope.status = "ACTIVE" /\ envelope.left > 0
               /\ Cardinality(claimRows) < Slots

BeginClaim(h, c) ==
  /\ Claimable
  /\ Start(h, [Idle EXCEPT !.op = "claim", !.at = "sent", !.who = c, !.left = envelope.left])
  /\ UNCHANGED <<rows, envOrphans, chain>>

\* Faulty variant: the claim is recorded without waiting for the chain.
RecordEarly(h) ==
  /\ envHandler[h].op \in {"claim", "retry"} /\ envHandler[h].at \in {"sent", "landed"}
  /\ claimRows' = claimRows \cup {envHandler[h].who}
  /\ Goto(h, "recorded")
  /\ UNCHANGED <<envelope, pending, envOrphans, chain>>

RecordClaim(h) ==
  /\ envHandler[h].op \in {"claim", "retry"} /\ envHandler[h].at = "landed"
  /\ claimRows' = claimRows \cup {envHandler[h].who}
  /\ Goto(h, "recorded")
  /\ UNCHANGED <<envelope, pending, envOrphans, chain>>

Completed(item) == [item EXCEPT !.status = "COMPLETED"]

\* Faulty variant: the claim is counted off twice.
CountTwice(h) ==
  /\ envHandler[h].op \in {"claim", "retry"} /\ envHandler[h].at = "recorded"
  /\ envelope' = [envelope EXCEPT !.left = envHandler[h].left - 2,
       !.status = IF envHandler[h].left <= 2 THEN "COMPLETED" ELSE "ACTIVE"]
  /\ pending' = IF envHandler[h].op = "retry"
                  THEN [pending EXCEPT ![envHandler[h].who] = Completed(@)] ELSE pending
  /\ Return(h)
  /\ UNCHANGED <<claimRows, envOrphans, chain>>

\* The count and the status are computed from what was read before the claim.
CountClaim(h) ==
  /\ envHandler[h].op \in {"claim", "retry"} /\ envHandler[h].at = "recorded"
  /\ envelope' = [envelope EXCEPT !.left = envHandler[h].left - 1,
       !.status = IF envHandler[h].left = 1 THEN "COMPLETED" ELSE "ACTIVE"]
  /\ pending' = IF envHandler[h].op = "retry"
                  THEN [pending EXCEPT ![envHandler[h].who] = Completed(@)] ELSE pending
  /\ Return(h)
  /\ UNCHANGED <<claimRows, envOrphans, chain>>

\* A row could not be written: recordPendingClaim queues the claim, and the
\* request succeeds.
QueueClaim(h) ==
  /\ envHandler[h].op = "claim" /\ envHandler[h].at \in {"landed", "recorded"}
  /\ pending' = [pending EXCEPT ![envHandler[h].who] = [status |-> "PENDING", retries |-> 0]]
  /\ Return(h)
  /\ UNCHANGED <<envelope, claimRows, envOrphans, chain>>

-----------------------------------------------------------------------------
(* processPendingClaims.                                                   *)

\* A queued claim is taken by one worker, which calls claimEnvelope again.
RetryTake(h, c) ==
  /\ pending[c].status = "PENDING" /\ pending[c].retries < MaxRetries
  /\ pending' = [pending EXCEPT ![c].status = "PROCESSING"]
  /\ Start(h, [Idle EXCEPT !.op = "retry", !.who = c, !.left = envelope.left,
                           !.at = IF Claimable THEN "sent" ELSE "failed"])
  /\ UNCHANGED <<envelope, claimRows, envOrphans, chain>>

RetryFailed(h) ==
  /\ At(h, "retry", "failed")
  /\ pending' = [pending EXCEPT ![envHandler[h].who] =
       [status |-> IF @.retries + 1 >= MaxRetries THEN "FAILED" ELSE "PENDING",
        retries |-> @.retries + 1]]
  /\ Return(h)
  /\ UNCHANGED <<envelope, claimRows, envOrphans, chain>>

-----------------------------------------------------------------------------
(* cancelEnvelope: a notice first, the refund an hour later.               *)

BeginCancel(h) ==
  /\ envelope.status = "ACTIVE"
  /\ Start(h, [Idle EXCEPT !.op = "cancel", !.read = vaultNonce,
                 !.at = IF Cardinality(claimRows) < Slots THEN "notice" ELSE "landed"])
  /\ UNCHANGED <<rows, envOrphans, chain>>

\* cancelRequestedAt decides between the notice, waiting, and the refund.  The
\* refund is signed with the nonce after the one that was read.
CancelNotice(h) ==
  /\ At(h, "cancel", "notice")
  /\ CASE escrow.cancel = "no" -> envHandler' = [envHandler EXCEPT
            ![h].op = "notice", ![h].at = "sent", ![h].nonce = envHandler[h].read]
       [] escrow.cancel = "running" -> Return(h)
       [] escrow.cancel = "over" -> envHandler' = [envHandler EXCEPT
            ![h].at = "sent", ![h].nonce = envHandler[h].read + 1]
  /\ UNCHANGED <<rows, envOrphans, chain>>

\* The notice ends the request with CANCEL_REQUESTED.
NoticeGiven(h) ==
  /\ At(h, "notice", "landed")
  /\ Return(h)
  /\ UNCHANGED <<rows, envOrphans, chain>>

CancelRow(h) ==
  /\ At(h, "cancel", "landed")
  /\ envelope' = [envelope EXCEPT !.status = "CANCELLED", !.left = 0]
  /\ Return(h)
  /\ UNCHANGED <<claimRows, pending, envOrphans, chain>>

-----------------------------------------------------------------------------
(* Transactions.                                                           *)

CreatorCalls == {"approve", "create", "notice", "cancel"}
Transaction(h) ==
  [op |-> CASE envHandler[h].at = "approve" -> "approve"
            [] envHandler[h].op = "retry" -> "claim"
            [] OTHER -> envHandler[h].op,
   who |-> envHandler[h].who, nonce |-> envHandler[h].nonce]

\* What the vault and the escrow accept.
Accepted(tx) ==
  /\ tx.op \in CreatorCalls => tx.nonce = vaultNonce /\ vaultNonce < MaxNonce
  /\ CASE tx.op = "approve" -> TRUE
       [] tx.op = "create" -> escrow.state = "none"
       [] tx.op = "claim" -> /\ escrow.state = "open" /\ tx.who \notin escrow.claimed
                             /\ Cardinality(escrow.claimed) < Slots /\ envelope.known
       [] tx.op = "notice" -> escrow.state = "open" /\ escrow.cancel = "no" /\ envelope.known
       [] tx.op = "cancel" -> escrow.state = "open" /\ escrow.cancel = "over" /\ envelope.known

Execute(tx) ==
  /\ Accepted(tx)
  /\ vaultNonce' = IF tx.op \in CreatorCalls THEN vaultNonce + 1 ELSE vaultNonce
  /\ escrow' = CASE tx.op = "create" -> [escrow EXCEPT !.state = "open"]
                 [] tx.op = "claim" -> [escrow EXCEPT !.claimed = @ \cup {tx.who}]
                 [] tx.op = "notice" -> [escrow EXCEPT !.cancel = "running"]
                 [] tx.op = "cancel" -> [escrow EXCEPT !.state = "refunded"]
                 [] OTHER -> escrow

OnItsWay(h) == envHandler[h].at \in {"approve", "sent"}

Land(h) ==
  /\ OnItsWay(h) /\ Execute(Transaction(h))
  /\ Goto(h, IF envHandler[h].at = "approve" THEN "approved" ELSE "landed")
  /\ UNCHANGED <<rows, envOrphans>>

\* The call throws, refused or lost on the way: a retry counts it, the other
\* requests report it and are over.
CallFails(h, lost) ==
  /\ OnItsWay(h)
  /\ lost => Cardinality(envOrphans) < MaxOrphans
  /\ envOrphans' = IF lost THEN envOrphans \cup {Transaction(h)} ELSE envOrphans
  /\ IF envHandler[h].op = "retry" THEN Goto(h, "failed") ELSE Return(h)
  /\ UNCHANGED <<rows, chain>>

\* The process restarts.
Abort(h) ==
  /\ envHandler[h] # Idle /\ ~OnItsWay(h)
  /\ Return(h)
  /\ UNCHANGED <<rows, envOrphans, chain>>

LandOrphan(tx) ==
  /\ Execute(tx)
  /\ envOrphans' = envOrphans \ {tx}
  /\ UNCHANGED <<rows, envHandler>>

DropOrphan(tx) ==
  /\ envOrphans' = envOrphans \ {tx}
  /\ UNCHANGED <<rows, envHandler, chain>>

\* Something else the creator pays with the same session key.
OtherCall ==
  /\ vaultNonce < MaxNonce
  /\ vaultNonce' = vaultNonce + 1
  /\ UNCHANGED <<rows, envHandler, envOrphans, escrow>>

HourPasses ==
  /\ escrow.cancel = "running"
  /\ escrow' = [escrow EXCEPT !.cancel = "over"]
  /\ UNCHANGED <<rows, envHandler, envOrphans, vaultNonce>>

-----------------------------------------------------------------------------
Request(h) ==
  \/ BeginCreate(h) \/ Approved(h) \/ \E receipt \in BOOLEAN : CreateRow(h, receipt)
  \/ \E c \in Claimers : BeginClaim(h, c) \/ RetryTake(h, c)
  \/ RecordClaim(h) \/ CountClaim(h) \/ QueueClaim(h) \/ RetryFailed(h)
  \/ BeginCancel(h) \/ CancelNotice(h) \/ NoticeGiven(h) \/ CancelRow(h)
  \/ Land(h) \/ \E lost \in BOOLEAN : CallFails(h, lost)
  \/ Abort(h)

Next ==
  \/ \E h \in Handlers : Request(h)
  \/ \E tx \in envOrphans : LandOrphan(tx) \/ DropOrphan(tx)
  \/ OtherCall \/ HourPasses

Spec == Init /\ [][Next]_vars

-----------------------------------------------------------------------------
(* Properties.                                                             *)

\* The rows and the escrow keep their shape.
TypeOK ==
  /\ envelope \in [status : {"NONE", "ACTIVE", "COMPLETED", "CANCELLED"},
                   left : 0 .. Slots, known : BOOLEAN]
  /\ claimRows \subseteq Claimers
  /\ pending \in [Claimers ->
       [status : {"none", "PENDING", "PROCESSING", "COMPLETED", "FAILED"},
        retries : 0 .. MaxRetries]]
  /\ escrow \in [state : {"none", "open", "refunded"}, claimed : SUBSET Claimers,
                 cancel : {"no", "running", "over"}]
  /\ vaultNonce \in 0 .. MaxNonce

\* A claim row, and a claim that waits for its row in the retry queue, belongs
\* to somebody the escrow has paid: claimEnvelope records nothing for a claim
\* that failed or is still on its way.
ClaimsArePaid ==
  /\ claimRows \subseteq escrow.claimed
  /\ \A c \in Claimers : pending[c].status # "none" => c \in escrow.claimed

\* Concurrent claims overwrite the row's count, but never below what the
\* escrow still has to give: nobody is turned away by a COMPLETED envelope
\* while a share of it is unclaimed.
NeverShutEarly ==
  /\ envelope.status = "COMPLETED" => Cardinality(escrow.claimed) = Slots
  /\ envelope.status = "ACTIVE" => envelope.left >= Slots - Cardinality(escrow.claimed)

\* "The refund will be available in 1 hour - retry then" (cancelEnvelope):
\* a refund sent after the hour is one the vault accepts, if no other call of
\* the creator landed since its nonce was read.
RefundIsAccepted ==
  \A h \in Handlers :
    (At(h, "cancel", "sent") /\ envHandler[h].read = vaultNonce
       /\ vaultNonce < MaxNonce /\ escrow.state = "open" /\ envelope.known)
      => Accepted(Transaction(h))
=============================================================================
