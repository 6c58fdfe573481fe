--------------------------- MODULE MCChatPayments ---------------------------
(* The services behind the chat commands, each on its own: red envelopes,  *)
(* session payments and referrals.  A behaviour belongs to one of them, so *)
(* their state spaces add up and do not multiply.                          *)
EXTENDS Integers, FiniteSets, TLC

CONSTANTS Handlers, MaxOrphans,
  Claimers, Slots, MaxRetries, MaxNonce,
  Payers, Debtor, DailyLimit, MaxRestarts, Stories,
  Referrers, Referees, Nobody, MaxPerDay

\* Finitely many requests and users, and natural numbers for the limits.
ASSUME ChatAssumption ==
  /\ IsFiniteSet(Handlers)
  /\ IsFiniteSet(Claimers) /\ Claimers # {}
  /\ IsFiniteSet(Payers) /\ Debtor \in Payers
  /\ Referees # {}
  /\ Slots \in Nat /\ MaxRetries \in Nat /\ MaxNonce \in Nat /\ DailyLimit \in Nat

VARIABLES service,
  envelope, claimRows, pending, envHandler, envOrphans, escrow, vaultNonce,
  story, split, hasPaid, request, yieldRows, overdue, keyRow, cached, uncleared, spent,
  spendRows, forgotten, restarts, payHandler, payOrphans, moved, granted,
  referrer, reached, points, rewards, refHandler

Envelopes == INSTANCE RedEnvelopes
Payments == INSTANCE SessionPayments
Referring == INSTANCE Referrals

envelopeVars == <<envelope, claimRows, pending, envHandler, envOrphans, escrow, vaultNonce>>
paymentVars == <<story, split, hasPaid, request, yieldRows, overdue, keyRow, cached,
                 uncleared, spent, spendRows, forgotten, restarts, payHandler, payOrphans, moved, granted>>
referralVars == <<referrer, reached, points, rewards, refHandler>>
vars == <<service, envelopeVars, paymentVars, referralVars>>

AllStories ==
  {{"restart", "revoke", "request"}, {"restart", "split"}}
    \cup {{"split", "request", event} : event \in {"grant", "deadline", "cancel", "yield"}}

Init ==
  /\ service \in {"envelopes", "payments", "referrals"}
  /\ Envelopes!Init /\ Payments!Init /\ Referring!Init
  /\ service # "payments" => story = {"cancel", "split", "request"}

Next ==
  /\ UNCHANGED service
  /\ \/ service = "envelopes" /\ Envelopes!Next /\ UNCHANGED <<paymentVars, referralVars>>
     \/ service = "payments" /\ Payments!Next /\ UNCHANGED <<envelopeVars, referralVars>>
     \/ service = "referrals" /\ Referring!Next /\ UNCHANGED <<envelopeVars, paymentVars>>

Spec == Init /\ [][Next]_vars

HandlerSymmetry == Permutations(Handlers)

\* The rows, counters and chain states of the three services keep their shape.
TypeOK == Envelopes!TypeOK /\ Payments!TypeOK /\ Referring!TypeOK

\* RedEnvelopes: who has a claim row or waits for one was paid by the escrow.
ClaimsArePaid == Envelopes!ClaimsArePaid

\* RedEnvelopes: concurrent claims never close an envelope with shares left.
NeverShutEarly == Envelopes!NeverShutEarly

\* SessionPayments: splits and requests record only transfers that landed.
RecordedPaymentsLanded == Payments!RecordedPaymentsLanded

\* SessionPayments: a key pays its daily limit, and once more for each restart.
LimitPerRestart == Payments!LimitPerRestart

\* SessionPayments: a revoked key is cached only after a removal that failed.
RevokedKeysAreNotCached == Payments!RevokedKeysAreNotCached

\* Referrals: a milestone is rewarded at most once, and in order.
MilestonesPayOnce == Referring!MilestonesPayOnce
=============================================================================
