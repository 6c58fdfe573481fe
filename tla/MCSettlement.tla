---------------------------- MODULE MCSettlement ----------------------------
(***************************************************************************)
(* What must happen in the end, in the two background jobs that guarantee  *)
(* it: the daily sweep of PaymentLinkService and the polled scan of        *)
(* DepositListener.  They share no state, so a behaviour is one of either  *)
(* service, chosen at the start, with the other at rest.                   *)
(***************************************************************************)
EXTENDS PaymentLinkService, TLC

CONSTANTS Scanners, Survivor, Wallets, Transfers, MaxBlock, MaxSpan, MaxFaults

\* The bounds of the listener are numbers.
ASSUME ListenerAssumption == MaxBlock \in Nat /\ MaxSpan \in Nat

VARIABLES blocks, registered, cursor, deposits, announced, failedLogs, started,
          scanner, faults, service

Deposits == INSTANCE DepositListener

links == <<record, sessionActive, handler, orphans, sessionNonce, escrowStatus,
           escrowAmount, escrowDeadline, escrowPayee, escrowPaid, clock>>
listener == <<blocks, registered, cursor, deposits, announced, failedLogs,
              started, scanner, faults>>
all == <<links, listener, service>>

\* Every user passes assertRecipient, as for a link without a target handle.
MCAddressees == [c \in Codes |-> Users]

\* A deposit, a payment between members, and one of the protocol's contracts.
MCTransfers ==
  {[from |-> "outside", to |-> "w1", token |-> "known"],
   [from |-> "w1", to |-> "w2", token |-> "known"],
   [from |-> "protocol", to |-> "w1", token |-> "known"]}

InLinks(A) == service = "links" /\ A /\ UNCHANGED <<listener, service>>
InListener(A) == service = "deposits" /\ A /\ UNCHANGED <<links, service>>

SettlementInit == Init /\ Deposits!Init /\ service \in {"links", "deposits"}
SettlementNext == InLinks(Next) \/ InListener(Deposits!Next)

\* The fairness of either service, as its module states it.
SettlementSpec ==
  /\ SettlementInit /\ [][SettlementNext]_all
  /\ WF_all(InLinks(Tick))
  /\ WF_all(InLinks(HandlerStep(Cron)))
  /\ SF_all(InLinks(SweepExpired(Cron)))
  /\ \A c \in Codes : SF_all(InLinks(RefundExpiredLink(Cron, c)))
  /\ SF_all(InLinks(Refunding(Cron) /\ Submit(Cron)))
  /\ SF_all(InLinks(Refunding(Cron) /\ Land(Cron)))
  /\ SF_all(InLinks(SyncRecord(Cron)))
  /\ WF_all(InListener(Deposits!ScanStep(Survivor)))

-----------------------------------------------------------------------------
(* The properties of DepositListener; ActiveLinksSettle is inherited.      *)

\* Scans of two instances that overlap, fail or start over (deposit-listener's
\* scanOnce) never credit a transfer twice, nor one between members.
DepositsCreditedOnce == Deposits!DepositsCreditedOnce

\* However often scans fail or processes stop, the surviving instance's
\* scanOnce catches up with every deposit owed to a member.
DepositsArrive == Deposits!DepositsArrive
=============================================================================
