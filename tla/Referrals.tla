------------------------------ MODULE Referrals ------------------------------
(***************************************************************************)
(* ReferralService and ReferralMilestoneCron: staged rewards of referrals. *)
(* A milestone is claimed by a conditional update of the Referral row,     *)
(* which also adds its points to the row, and rewarded by RewardPoint rows *)
(* that are written afterwards.                                            *)
(***************************************************************************)
EXTENDS Integers, FiniteSets

CONSTANTS
  Handlers,    \* concurrent requests, the daily job included
  Referrers,
  Referees,
  Nobody,      \* the referrer of a user without a Referral row
  MaxPerDay    \* REFERRAL_LIMITS.MAX_PER_DAY

VARIABLES
  referrer,    \* Referral rows: whose code brought the referee
  reached,     \* milestones set in each row
  points,      \* points of each row
  rewards,     \* RewardPoint rows, per referee and milestone
  refHandler   \* where each request is, and what it holds across awaits

rows == <<referrer, reached, points>>
vars == <<rows, rewards, refHandler>>

\* WALLET_CREATED, FIRST_SEND and DEPOSIT_RETAINED_D7, in units of 25.
Milestones == {"wallet", "send", "retained"}
Worth(m) == IF m = "retained" THEN 2 ELSE 1
TotalWorth(S) == Cardinality(S) + (IF "retained" \in S THEN 1 ELSE 0)

NoStage == "none"
Idle == [at |-> "idle", referee |-> CHOOSE e \in Referees : TRUE, by |-> Nobody,
         stage |-> NoStage, then |-> NoStage]

Init ==
  /\ referrer = [e \in Referees |-> Nobody]
  /\ reached = [e \in Referees |-> {}]
  /\ points = [e \in Referees |-> 0]
  /\ rewards = [e \in Referees |-> [m \in Milestones |-> 0]]
  /\ refHandler = [h \in Handlers |-> Idle]

At(h, place) == refHandler[h].at = place
Return(h) == refHandler' = [refHandler EXCEPT ![h] = Idle]

-----------------------------------------------------------------------------
(* processReferral.                                                        *)

BeginReferral(h, r, e) ==
  /\ refHandler[h] = Idle /\ referrer[e] = Nobody
  /\ refHandler' = [refHandler EXCEPT ![h] =
       [Idle EXCEPT !.at = "checks", !.referee = e, !.by = r]]
  /\ UNCHANGED <<rows, rewards>>

\* checkAntiSybil: today's referrals are counted before the row is created.
CheckAntiSybil(h) ==
  /\ At(h, "checks")
  /\ IF Cardinality({e \in Referees : referrer[e] = refHandler[h].by}) >= MaxPerDay
       THEN Return(h) ELSE refHandler' = [refHandler EXCEPT ![h].at = "create"]
  /\ UNCHANGED <<rows, rewards>>

\* refereeId is unique: the first writer wins.
CreateReferral(h) ==
  /\ At(h, "create")
  /\ referrer' = [referrer EXCEPT ![refHandler[h].referee] =
                    IF @ = Nobody THEN refHandler[h].by ELSE @]
  /\ Return(h)
  /\ UNCHANGED <<reached, points, rewards>>

-----------------------------------------------------------------------------
(* markWalletCreated, markFirstSend and markDepositRetainedD7.             *)

\* The row that was read has not reached the stage.  A first send marks the
\* wallet first; the daily job looks only at referees with a wallet.
BeginMilestone(h, stage, e) ==
  LET walletFirst == stage = "send" /\ "wallet" \notin reached[e] IN
  /\ refHandler[h] = Idle /\ referrer[e] # Nobody
  /\ stage \notin reached[e]
  /\ stage = "retained" => "wallet" \in reached[e]
  /\ refHandler' = [refHandler EXCEPT ![h] =
       [Idle EXCEPT !.at = "claim", !.referee = e, !.by = referrer[e],
                    !.stage = IF walletFirst THEN "wallet" ELSE stage,
                    !.then = IF walletFirst THEN stage ELSE NoStage]]
  /\ UNCHANGED <<rows, rewards>>

\* A stage is over: the next one, or the answer.
Advance(h) ==
  refHandler' = [refHandler EXCEPT ![h] =
    IF @.then = NoStage THEN Idle
    ELSE [@ EXCEPT !.at = "claim", !.stage = refHandler[h].then, !.then = NoStage]]

\* Faulty variant: the update does not look at the flag.
ClaimAgain(h) ==
  LET e == refHandler[h].referee
      stage == refHandler[h].stage IN
  /\ At(h, "claim")
  /\ reached' = [reached EXCEPT ![e] = @ \cup {stage}]
  /\ points' = [points EXCEPT ![e] = @ + Worth(stage)]
  /\ refHandler' = [refHandler EXCEPT ![h].at = "reward"]
  /\ UNCHANGED <<referrer, rewards>>

\* The conditional update is the lock: whoever loses it rewards nothing.
Claim(h) ==
  LET e == refHandler[h].referee
      stage == refHandler[h].stage IN
  /\ At(h, "claim")
  /\ IF stage \in reached[e]
       THEN Advance(h) /\ UNCHANGED <<reached, points>>
       ELSE /\ reached' = [reached EXCEPT ![e] = @ \cup {stage}]
            /\ points' = [points EXCEPT ![e] = @ + Worth(stage)]
            /\ refHandler' = [refHandler EXCEPT ![h].at = "reward"]
  /\ UNCHANGED <<referrer, rewards>>

\* The RewardPoint rows: the referrer's and, at the first stage and in the same
\* transaction, the referee's.
Reward(h) ==
  /\ At(h, "reward")
  /\ rewards' = [rewards EXCEPT ![refHandler[h].referee][refHandler[h].stage] = @ + 1]
  /\ Advance(h)
  /\ UNCHANGED rows

\* A statement fails, or the process restarts.
Abort(h) ==
  /\ refHandler[h] # Idle
  /\ Return(h)
  /\ UNCHANGED <<rows, rewards>>

-----------------------------------------------------------------------------
Next ==
  \E h \in Handlers :
    \/ \E e \in Referees : \/ \E r \in Referrers : BeginReferral(h, r, e)
                           \/ \E stage \in Milestones : BeginMilestone(h, stage, e)
    \/ CheckAntiSybil(h) \/ CreateReferral(h) \/ Claim(h) \/ Reward(h) \/ Abort(h)

Spec == Init /\ [][Next]_vars

-----------------------------------------------------------------------------
(* Properties.                                                             *)

\* The rows keep their shape.
TypeOK ==
  /\ referrer \in [Referees -> Referrers \cup {Nobody}]
  /\ reached \in [Referees -> SUBSET Milestones]
  /\ \A e \in Referees : points[e] \in Nat

\* However many requests report a milestone at once, it is rewarded at most
\* once, never before it is set in the row, and the points of the row are
\* those of its milestones; the stages stay in order, so no later one is
\* reached without a wallet.  A request holds the referrer it read, and that
\* is the one who keeps the referral.
MilestonesPayOnce ==
  /\ \A e \in Referees :
       /\ \A m \in Milestones : rewards[e][m] <= IF m \in reached[e] THEN 1 ELSE 0
       /\ points[e] = TotalWorth(reached[e])
       /\ reached[e] # {} => "wallet" \in reached[e]
  /\ \A h \in Handlers :
       refHandler[h].stage # NoStage => referrer[refHandler[h].referee] = refHandler[h].by
=============================================================================
