------------------------- MODULE ChatPaymentsProofs -------------------------
(***************************************************************************)
(* Theorems about the services behind the chat commands, for any number of *)
(* users, of concurrent requests and of transactions on their way, and any *)
(* limits: one inductive invariant for each service, and the step of the   *)
(* composition, in which the other two services stand still.               *)
(***************************************************************************)
EXTENDS MCChatPayments, SumTheorems

-----------------------------------------------------------------------------
(* Cardinality is one operator, whichever module defines it.               *)

LEMMA OneCardinality ==
  \A S : /\ Envelopes!Cardinality(S) = Cardinality(S)
         /\ Payments!Cardinality(S) = Cardinality(S)
         /\ Referring!Cardinality(S) = Cardinality(S)
BY DEF Cardinality, Envelopes!Cardinality, Payments!Cardinality, Referring!Cardinality

-----------------------------------------------------------------------------
(* Referrals: the inductive invariant.                                     *)

Stages == {"wallet", "send", "retained", "none"}
RefRecords ==
  [at : {"idle", "checks", "create", "claim", "reward"}, referee : Referees,
   by : Referrers \cup {Nobody}, stage : Stages, then : Stages]

RefShapes ==
  /\ referrer \in [Referees -> Referrers \cup {Nobody}]
  /\ reached \in [Referees -> SUBSET Referring!Milestones]
  /\ points \in [Referees -> Nat]
  /\ rewards \in [Referees -> [Referring!Milestones -> Nat]]
  /\ refHandler \in [Handlers -> RefRecords]

\* A request with a stage holds the referrer of its row; the wallet comes
\* before every other stage.  Whoever won the conditional update of a stage
\* still owes its reward.
RefHolds(r) ==
  /\ r.at \in {"claim", "reward"} <=> r.stage # "none"
  /\ r.then # "none" => r.stage = "wallet" /\ r.then = "send"
  /\ r.stage # "none" =>
       /\ referrer[r.referee] = r.by /\ r.by # Nobody
       /\ r.stage # "wallet" => "wallet" \in reached[r.referee]
  /\ r.at = "reward" =>
       r.stage \in reached[r.referee] /\ rewards[r.referee][r.stage] = 0

\* And nobody else does.
OneRewarder ==
  \A g, h \in Handlers :
    g # h /\ refHandler[g].at = "reward" /\ refHandler[h].at = "reward" =>
      refHandler[g].referee # refHandler[h].referee \/ refHandler[g].stage # refHandler[h].stage

RefRows ==
  \A e \in Referees :
    /\ \A m \in Referring!Milestones : rewards[e][m] <= IF m \in reached[e] THEN 1 ELSE 0
    /\ points[e] = Referring!TotalWorth(reached[e])
    /\ reached[e] # {} => "wallet" \in reached[e]

RefInv ==
  /\ RefShapes /\ OneRewarder /\ RefRows
  /\ \A h \in Handlers : RefHolds(refHandler[h])

-----------------------------------------------------------------------------
(* Referrals: the proof.                                                   *)

LEMMA MilestonesFinite ==
  ASSUME NEW S \in SUBSET Referring!Milestones
  PROVE  IsFiniteSet(S) /\ Cardinality(S) \in Nat
<1>1. IsFiniteSet({}) /\ IsFiniteSet({"wallet"})
  BY FS_EmptySet, FS_Singleton
<1>2. IsFiniteSet({"wallet"} \cup {"send"})
  BY <1>1, FS_AddElement
<1>3. IsFiniteSet(({"wallet"} \cup {"send"}) \cup {"retained"})
  BY <1>2, FS_AddElement
<1>4. S \subseteq ({"wallet"} \cup {"send"}) \cup {"retained"}
  BY DEF Referring!Milestones
<1>5. IsFiniteSet(S)
  BY <1>3, <1>4, FS_Subset
<1> QED
  BY <1>5, FS_CardinalityType

\* A milestone adds its worth.
LEMMA WorthAdds ==
  ASSUME NEW S \in SUBSET Referring!Milestones, NEW m \in Referring!Milestones, m \notin S
  PROVE  Referring!TotalWorth(S \cup {m}) = Referring!TotalWorth(S) + Referring!Worth(m)
<1>1. IsFiniteSet(S) /\ Cardinality(S) \in Nat
  BY MilestonesFinite
<1>2. Cardinality(S \cup {m}) = Cardinality(S) + 1
  BY <1>1, FS_AddElement
<1> DEFINE T == S \cup {m}
           n == Cardinality(S)
           k == Cardinality(T)
<1> HIDE DEF n, k
<1>3. CASE m = "retained"
  <2>1. "retained" \in T /\ "retained" \notin S
    BY <1>3
  <2>2. Referring!TotalWorth(T) = k + 1 /\ Referring!TotalWorth(S) = n + 0 /\ Referring!Worth(m) = 2
    BY <1>3, <2>1, OneCardinality DEF Referring!TotalWorth, Referring!Worth, n, k
  <2> QED
    BY <1>1, <1>2, <2>2 DEF n, k
<1>4. CASE m # "retained"
  <2>1. "retained" \in T <=> "retained" \in S
    BY <1>4
  <2> DEFINE x == IF "retained" \in S THEN 1 ELSE 0
  <2>2. Referring!TotalWorth(T) = k + x /\ Referring!TotalWorth(S) = n + x /\ Referring!Worth(m) = 1
    BY <1>4, <2>1, OneCardinality DEF Referring!TotalWorth, Referring!Worth, n, k
  <2> QED
    BY <1>1, <1>2, <2>2 DEF n, k
<1> QED
  BY <1>3, <1>4

LEMMA RefIdle ==
  /\ Referring!Idle \in RefRecords
  /\ Referring!Idle.at = "idle" /\ Referring!Idle.stage = "none" /\ Referring!Idle.then = "none"
<1>1. (CHOOSE e \in Referees : TRUE) \in Referees
  BY ChatAssumption
<1> QED
  BY <1>1 DEF Referring!Idle, Referring!NoStage, RefRecords, Stages

LEMMA RefInit == Referring!Init => RefInv
<1> SUFFICES ASSUME Referring!Init PROVE RefInv
  OBVIOUS
<1>1. RefShapes
  BY RefIdle DEF Referring!Init, RefShapes, Referring!Milestones
<1>2. \A h \in Handlers : refHandler[h] = Referring!Idle
  BY DEF Referring!Init
<1>3. OneRewarder /\ \A h \in Handlers : RefHolds(refHandler[h])
  BY <1>2, RefIdle DEF OneRewarder, RefHolds
<1>4. Referring!TotalWorth({}) = 0
  BY FS_EmptySet, OneCardinality DEF Referring!TotalWorth
<1>5. \A e \in Referees : reached[e] = {} /\ points[e] = 0
        /\ \A m \in Referring!Milestones : rewards[e][m] = 0
  BY DEF Referring!Init
<1>6. ASSUME NEW e \in Referees, NEW m \in Referring!Milestones
      PROVE  rewards[e][m] <= IF m \in reached[e] THEN 1 ELSE 0
  BY <1>5
<1>7. RefRows
  BY <1>4, <1>5, <1>6 DEF RefRows
<1> QED
  BY <1>1, <1>3, <1>7 DEF RefInv

\* A request moves on without touching a row, and does not come to owe a
\* reward.
LEMMA RefMove ==
  ASSUME RefInv, NEW h \in Handlers, NEW r \in RefRecords,
         refHandler' = [refHandler EXCEPT ![h] = r],
         RefHolds(r), r.at # "reward",
         UNCHANGED <<referrer, reached, points, rewards>>
  PROVE  RefInv'
<1>1. refHandler'[h] = r /\ \A g \in Handlers : g # h => refHandler'[g] = refHandler[g]
  BY DEF RefInv, RefShapes
<1>2. RefShapes'
  BY DEF RefInv, RefShapes
<1>3. OneRewarder'
  BY <1>1 DEF RefInv, OneRewarder
<1>4. RefRows'
  BY DEF RefInv, RefRows
<1>5. \A g \in Handlers : RefHolds(refHandler[g])'
  BY <1>1 DEF RefInv, RefHolds
<1> QED
  BY <1>2, <1>3, <1>4, <1>5 DEF RefInv

\* What a request goes on with when its stage is over.
LEMMA RefAdvance ==
  ASSUME RefInv, NEW h \in Handlers, Referring!Advance(h),
         refHandler[h].stage \in reached[refHandler[h].referee]
  PROVE  \E r \in RefRecords :
           /\ refHandler' = [refHandler EXCEPT ![h] = r]
           /\ r.at # "reward" /\ RefHolds(r)
           /\ r.stage # "none" => r.referee = refHandler[h].referee
<1> DEFINE q == refHandler[h]
           r == IF q.then = "none" THEN Referring!Idle
                ELSE [q EXCEPT !.at = "claim", !.stage = q.then, !.then = "none"]
<1>1. refHandler' = [refHandler EXCEPT ![h] = r]
  BY DEF Referring!Advance, Referring!NoStage, RefInv, RefShapes
<1>2. q \in RefRecords /\ RefHolds(q)
  BY DEF RefInv, RefShapes
<1>3. r \in RefRecords
  BY <1>2, RefIdle DEF RefRecords, Stages
<1>4. CASE q.then = "none"
  BY <1>1, <1>3, <1>4, RefIdle DEF RefHolds
<1>5. CASE q.then # "none"
  <2>1. r.at = "claim" /\ r.stage = "send" /\ r.then = "none" /\ r.referee = q.referee /\ r.by = q.by
    BY <1>2, <1>5 DEF RefHolds, RefRecords
  <2>2. RefHolds(r)
    BY <1>2, <1>5, <2>1 DEF RefHolds
  <2> QED
    BY <1>1, <1>3, <2>1, <2>2
<1> QED
  BY <1>4, <1>5

LEMMA RefClaimStep ==
  ASSUME RefInv, NEW h \in Handlers, Referring!Claim(h)
  PROVE  RefInv'
<1> DEFINE q == refHandler[h]
           e == q.referee
           stage == q.stage
<1>1. q \in RefRecords /\ RefHolds(q) /\ q.at = "claim"
  BY DEF RefInv, RefShapes, Referring!Claim, Referring!At
<1>2. e \in Referees /\ stage \in Referring!Milestones
  BY <1>1 DEF RefRecords, RefHolds, Stages, Referring!Milestones
<1>3. CASE stage \in reached[e]
  <2>1. Referring!Advance(h) /\ UNCHANGED <<referrer, reached, points, rewards>>
    BY <1>3 DEF Referring!Claim
  <2>2. PICK r \in RefRecords : refHandler' = [refHandler EXCEPT ![h] = r] /\ r.at # "reward" /\ RefHolds(r)
    BY <1>3, <2>1, RefAdvance
  <2> QED
    BY <2>1, <2>2, RefMove
<1>4. CASE stage \notin reached[e]
  <2> DEFINE r == [q EXCEPT !.at = "reward"]
  <2>1. /\ reached' = [reached EXCEPT ![e] = @ \cup {stage}]
        /\ points' = [points EXCEPT ![e] = @ + Referring!Worth(stage)]
        /\ refHandler' = [refHandler EXCEPT ![h] = r]
        /\ UNCHANGED <<referrer, rewards>>
    BY <1>4 DEF Referring!Claim, RefInv, RefShapes
  <2>2. r \in RefRecords /\ r.at = "reward" /\ r.referee = e /\ r.stage = stage
        /\ r.by = q.by /\ r.then = q.then
    BY <1>1 DEF RefRecords
  <2>3. refHandler'[h] = r /\ \A g \in Handlers : g # h => refHandler'[g] = refHandler[g]
    BY <2>1 DEF RefInv, RefShapes
  <2>4. /\ reached'[e] = reached[e] \cup {stage}
        /\ \A f \in Referees : f # e => reached'[f] = reached[f]
        /\ \A f \in Referees : reached[f] \subseteq reached'[f]
    BY <1>2, <2>1 DEF RefInv, RefShapes
  <2>5. RefShapes'
    <3>1. Referring!Worth(stage) \in Nat
      BY DEF Referring!Worth
    <3>2. points' \in [Referees -> Nat]
      BY <1>2, <2>1, <3>1 DEF RefInv, RefShapes
    <3> QED
      BY <1>2, <2>1, <2>2, <3>2 DEF RefInv, RefShapes
  <2>6. rewards[e][stage] = 0
    BY <1>2, <1>4 DEF RefInv, RefRows, RefShapes
  <2> HIDE DEF r
  <2>7. OneRewarder'
    <3>1. \A g \in Handlers : refHandler[g].at = "reward" =>
            refHandler[g].stage \in reached[refHandler[g].referee]
      BY DEF RefInv, RefHolds
    <3>2. \A g \in Handlers : g # h /\ refHandler[g].at = "reward" =>
            refHandler[g].referee # e \/ refHandler[g].stage # stage
      BY <1>4, <3>1
    <3> QED
      BY <2>2, <2>3, <3>2 DEF RefInv, OneRewarder
  <2>8. \A g \in Handlers : RefHolds(refHandler[g])'
    <3>1. ASSUME NEW g \in Handlers, g # h PROVE RefHolds(refHandler[g])'
      <4>1. RefHolds(refHandler[g]) /\ refHandler'[g] = refHandler[g]
            /\ refHandler[g].referee \in Referees
        BY <2>3, <3>1 DEF RefInv, RefShapes, RefRecords
      <4> QED
        BY <2>1, <2>4, <4>1 DEF RefHolds
    <3>2. RefHolds(refHandler[h])'
      BY <1>1, <1>2, <2>1, <2>2, <2>3, <2>4, <2>6 DEF RefHolds
    <3> QED
      BY <3>1, <3>2
  <2>9. RefRows'
    <3>1. points'[e] = Referring!TotalWorth(reached'[e])
      <4>1. points'[e] = points[e] + Referring!Worth(stage)
        BY <1>2, <2>1 DEF RefInv, RefShapes, RefRows
      <4>2. reached[e] \in SUBSET Referring!Milestones /\ points[e] = Referring!TotalWorth(reached[e])
        BY <1>2 DEF RefInv, RefShapes, RefRows
      <4>3. Referring!TotalWorth(reached[e] \cup {stage})
              = Referring!TotalWorth(reached[e]) + Referring!Worth(stage)
        BY <1>2, <1>4, <4>2, WorthAdds
      <4> QED
        BY <2>4, <4>1, <4>2, <4>3
    <3>2. \A f \in Referees : f # e => points'[f] = points[f]
      BY <2>1 DEF RefInv, RefShapes
    <3>3. "wallet" \in reached'[e]
      BY <1>1, <1>2, <2>4 DEF RefHolds
    <3>4. ASSUME NEW f \in Referees, NEW m \in Referring!Milestones
          PROVE  rewards'[f][m] <= IF m \in reached'[f] THEN 1 ELSE 0
      <4>1. rewards[f][m] \in Nat /\ rewards[f][m] <= IF m \in reached[f] THEN 1 ELSE 0
        BY DEF RefInv, RefShapes, RefRows
      <4>2. m \in reached[f] => m \in reached'[f]
        BY <2>4
      <4> QED
        BY <2>1, <4>1, <4>2
    <3> QED
      BY <2>4, <3>1, <3>2, <3>3, <3>4 DEF RefInv, RefRows
  <2> QED
    BY <2>5, <2>7, <2>8, <2>9 DEF RefInv
<1> QED
  BY <1>3, <1>4

LEMMA RefRewardStep ==
  ASSUME RefInv, NEW h \in Handlers, Referring!Reward(h)
  PROVE  RefInv'
<1> DEFINE q == refHandler[h]
           e == q.referee
           stage == q.stage
<1>1. q \in RefRecords /\ RefHolds(q) /\ q.at = "reward"
  BY DEF RefInv, RefShapes, Referring!Reward, Referring!At
<1>2. e \in Referees /\ stage \in Referring!Milestones /\ stage \in reached[e] /\ rewards[e][stage] = 0
  BY <1>1 DEF RefRecords, RefHolds, Stages, Referring!Milestones
<1>3. /\ Referring!Advance(h) /\ UNCHANGED <<referrer, reached, points>>
      /\ rewards' = [rewards EXCEPT ![e][stage] = @ + 1]
  BY DEF Referring!Reward, Referring!rows
<1>4. PICK r \in RefRecords : refHandler' = [refHandler EXCEPT ![h] = r] /\ r.at # "reward" /\ RefHolds(r)
  BY <1>2, <1>3, RefAdvance
<1>5. /\ rewards' \in [Referees -> [Referring!Milestones -> Nat]]
      /\ rewards'[e][stage] = 1
      /\ \A f \in Referees, m \in Referring!Milestones :
           f # e \/ m # stage => rewards'[f][m] = rewards[f][m]
  BY <1>2, <1>3 DEF RefInv, RefShapes
<1>6. refHandler'[h] = r /\ \A g \in Handlers : g # h => refHandler'[g] = refHandler[g]
  BY <1>4 DEF RefInv, RefShapes
<1>7. RefShapes'
  BY <1>3, <1>4, <1>5 DEF RefInv, RefShapes
<1>8. OneRewarder'
  BY <1>4, <1>6 DEF RefInv, OneRewarder
<1>9. RefRows'
  <2>1. ASSUME NEW f \in Referees, NEW m \in Referring!Milestones
        PROVE  rewards'[f][m] <= IF m \in reached[f] THEN 1 ELSE 0
    <3>1. CASE f = e /\ m = stage
      BY <1>2, <1>5, <3>1
    <3>2. CASE f # e \/ m # stage
      BY <1>5, <3>2 DEF RefInv, RefRows
    <3> QED
      BY <3>1, <3>2
  <2> QED
    BY <1>3, <2>1 DEF RefInv, RefRows
<1>10. \A g \in Handlers : RefHolds(refHandler[g])'
  <2>1. RefHolds(refHandler[h])'
    BY <1>3, <1>4, <1>6 DEF RefHolds
  <2>2. ASSUME NEW g \in Handlers, g # h PROVE RefHolds(refHandler[g])'
    <3>1. /\ RefHolds(refHandler[g]) /\ refHandler'[g] = refHandler[g]
          /\ refHandler[g] \in RefRecords
      BY <1>6, <2>2 DEF RefInv, RefShapes
    <3>2. refHandler[g].at = "reward" => refHandler[g].referee # e \/ refHandler[g].stage # stage
      BY <1>1, <2>2 DEF RefInv, OneRewarder
    <3>3. refHandler[g].at = "reward" =>
            refHandler[g].referee \in Referees /\ refHandler[g].stage \in Referring!Milestones
      BY <3>1 DEF RefRecords, RefHolds, Stages, Referring!Milestones
    <3>4. refHandler[g].at = "reward" =>
            rewards'[refHandler[g].referee][refHandler[g].stage] = 0
      BY <1>5, <3>1, <3>2, <3>3 DEF RefHolds
    <3> QED
      BY <1>3, <3>1, <3>4 DEF RefHolds
  <2> QED
    BY <2>1, <2>2
<1> QED
  BY <1>7, <1>8, <1>9, <1>10 DEF RefInv

\* The first writer of a referral wins: no request with a stage notices.
LEMMA RefCreateStep ==
  ASSUME RefInv, NEW h \in Handlers, Referring!CreateReferral(h)
  PROVE  RefInv'
<1> DEFINE q == refHandler[h]
           e == q.referee
<1>1. q \in RefRecords
  BY DEF RefInv, RefShapes
<1>2. e \in Referees /\ q.by \in Referrers \cup {Nobody}
  BY <1>1 DEF RefRecords
<1>3. /\ referrer' = [referrer EXCEPT ![e] = IF @ = Nobody THEN q.by ELSE @]
      /\ refHandler' = [refHandler EXCEPT ![h] = Referring!Idle]
      /\ UNCHANGED <<reached, points, rewards>>
  BY DEF Referring!CreateReferral, Referring!Return
<1>4. /\ referrer' \in [Referees -> Referrers \cup {Nobody}]
      /\ \A f \in Referees : referrer[f] # Nobody => referrer'[f] = referrer[f]
  BY <1>2, <1>3 DEF RefInv, RefShapes
<1>5. refHandler'[h] = Referring!Idle /\ \A g \in Handlers : g # h => refHandler'[g] = refHandler[g]
  BY <1>3 DEF RefInv, RefShapes
<1>6. RefShapes'
  BY <1>3, <1>4, RefIdle DEF RefInv, RefShapes
<1>7. OneRewarder' /\ RefRows'
  BY <1>3, <1>5, RefIdle DEF RefInv, OneRewarder, RefRows
<1>8. \A g \in Handlers : RefHolds(refHandler[g])'
  <2>1. RefHolds(refHandler[h])'
    BY <1>5, RefIdle DEF RefHolds
  <2>2. ASSUME NEW g \in Handlers, g # h PROVE RefHolds(refHandler[g])'
    <3>1. /\ RefHolds(refHandler[g]) /\ refHandler'[g] = refHandler[g]
          /\ refHandler[g].referee \in Referees
      BY <1>5, <2>2 DEF RefInv, RefShapes, RefRecords
    <3> QED
      BY <1>3, <1>4, <3>1 DEF RefHolds
  <2> QED
    BY <2>1, <2>2
<1> QED
  BY <1>6, <1>7, <1>8 DEF RefInv

LEMMA RefStep == RefInv /\ Referring!Next => RefInv'
<1> SUFFICES ASSUME RefInv, Referring!Next PROVE RefInv'
  OBVIOUS
<1>1. ASSUME NEW h \in Handlers, NEW e \in Referees, NEW b \in Referrers,
             Referring!BeginReferral(h, b, e)
      PROVE  RefInv'
  <2> DEFINE r == [Referring!Idle EXCEPT !.at = "checks", !.referee = e, !.by = b]
  <2>1. /\ refHandler' = [refHandler EXCEPT ![h] = r]
        /\ UNCHANGED <<referrer, reached, points, rewards>>
    BY <1>1 DEF Referring!BeginReferral, Referring!rows
  <2>2. r \in RefRecords /\ r.at = "checks" /\ r.stage = "none" /\ r.then = "none"
    BY RefIdle DEF RefRecords
  <2>3. RefHolds(r) /\ r.at # "reward"
    BY <2>2 DEF RefHolds
  <2> HIDE DEF r
  <2> QED
    BY <2>1, <2>2, <2>3, RefMove
<1>2. ASSUME NEW h \in Handlers, NEW e \in Referees, NEW stage \in Referring!Milestones,
             Referring!BeginMilestone(h, stage, e)
      PROVE  RefInv'
  <2> DEFINE walletFirst == stage = "send" /\ "wallet" \notin reached[e]
             r == [Referring!Idle EXCEPT !.at = "claim", !.referee = e, !.by = referrer[e],
                     !.stage = IF walletFirst THEN "wallet" ELSE stage,
                     !.then = IF walletFirst THEN stage ELSE "none"]
  <2>1. /\ refHandler' = [refHandler EXCEPT ![h] = r]
        /\ referrer[e] # Nobody
        /\ stage = "retained" => "wallet" \in reached[e]
        /\ UNCHANGED <<referrer, reached, points, rewards>>
    BY <1>2 DEF Referring!BeginMilestone, Referring!rows, Referring!NoStage
  <2>2. referrer[e] \in Referrers \cup {Nobody} /\ stage \in {"wallet", "send", "retained"}
    BY DEF RefInv, RefShapes, Referring!Milestones
  <2>3. /\ r \in RefRecords
        /\ r.at = "claim" /\ r.referee = e /\ r.by = referrer[e]
        /\ r.stage = IF walletFirst THEN "wallet" ELSE stage
        /\ r.then = IF walletFirst THEN stage ELSE "none"
    BY <2>2, RefIdle DEF RefRecords, Stages
  <2> HIDE DEF r
  <2>4. RefHolds(r)
    BY <2>1, <2>2, <2>3 DEF RefHolds
  <2> QED
    BY <2>1, <2>3, <2>4, RefMove
<1>3. ASSUME NEW h \in Handlers, Referring!CheckAntiSybil(h) PROVE RefInv'
  <2>1. UNCHANGED <<referrer, reached, points, rewards>> /\ refHandler[h].at = "checks"
    BY <1>3 DEF Referring!CheckAntiSybil, Referring!rows, Referring!At
  <2> DEFINE r == [refHandler[h] EXCEPT !.at = "create"]
  <2>2. refHandler[h] \in RefRecords /\ RefHolds(refHandler[h])
    BY DEF RefInv, RefShapes
  <2>3. \/ refHandler' = [refHandler EXCEPT ![h] = r]
        \/ refHandler' = [refHandler EXCEPT ![h] = Referring!Idle]
    BY <1>3 DEF Referring!CheckAntiSybil, Referring!Return
  <2>4. r \in RefRecords /\ RefHolds(r) /\ r.at = "create"
    BY <2>1, <2>2 DEF RefRecords, RefHolds
  <2>5. RefHolds(Referring!Idle)
    BY RefIdle DEF RefHolds
  <2> HIDE DEF r
  <2> QED
    BY <2>1, <2>3, <2>4, <2>5, RefIdle, RefMove
<1>4. ASSUME NEW h \in Handlers, Referring!Abort(h) PROVE RefInv'
  <2>1. /\ refHandler' = [refHandler EXCEPT ![h] = Referring!Idle]
        /\ UNCHANGED <<referrer, reached, points, rewards>>
    BY <1>4 DEF Referring!Abort, Referring!Return, Referring!rows
  <2>2. RefHolds(Referring!Idle)
    BY RefIdle DEF RefHolds
  <2> QED
    BY <2>1, <2>2, RefIdle, RefMove
<1> QED
  BY <1>1, <1>2, <1>3, <1>4, RefCreateStep, RefClaimStep, RefRewardStep DEF Referring!Next

LEMMA RefStutter == RefInv /\ UNCHANGED referralVars => RefInv'
BY DEF RefInv, RefShapes, RefHolds, OneRewarder, RefRows, referralVars

\* The invariant is what the run checks of the referrals.
LEMMA RefProperties == RefInv => Referring!TypeOK /\ Referring!MilestonesPayOnce
BY DEF RefInv, RefShapes, RefRows, RefHolds, RefRecords, Referring!TypeOK,
       Referring!MilestonesPayOnce, Referring!NoStage

-----------------------------------------------------------------------------
(* Red envelopes: the inductive invariant.                                 *)

EnvRecords ==
  [op : {"none", "create", "claim", "retry", "notice", "cancel"},
   at : {"idle", "approve", "approved", "sent", "landed", "recorded", "failed", "notice"},
   who : Claimers, left : 0 .. Slots, read : 0 .. MaxNonce, nonce : Nat]
EnvTransactions ==
  [op : {"approve", "create", "claim", "notice", "cancel"}, who : Claimers, nonce : Nat]

\* The shares the escrow still has.
Unclaimed == Slots - Cardinality(escrow.claimed)

EnvShapes ==
  /\ Envelopes!TypeOK
  /\ envHandler \in [Handlers -> EnvRecords]
  /\ envOrphans \subseteq EnvTransactions

\* A request that claims.
Claims(r) == r.op \in {"claim", "retry"}

\* A claim of this request was paid, and its count is not written yet.
Settled(r) == Claims(r) /\ r.at \in {"landed", "recorded"}

\* A claim read a count that covers the shares that were left, and after it was
\* paid one that covers its own share too.  Somebody who is queued was paid, so
\* the escrow refuses the retry: only first claims are ever recorded.
EnvHolds(r) ==
  /\ r.at = "approve" => r.op = "create"
  /\ r.at = "sent" => r.op # "none"
  /\ Claims(r) /\ r.at = "sent" => r.left >= 1 /\ r.left >= Unclaimed
  /\ Settled(r) => /\ r.op = "claim" /\ r.who \in escrow.claimed
                   /\ pending[r.who].status = "none"
                   /\ r.left >= 1 /\ r.left - 1 >= Unclaimed
  /\ r.op = "retry" => /\ pending[r.who].status = "PROCESSING"
                       /\ pending[r.who].retries < MaxRetries

\* A claimer is paid once, and a queued claim is taken by one worker.
EnvApart ==
  \A g, h \in Handlers :
    g # h /\ envHandler[g].who = envHandler[h].who =>
      /\ ~(Settled(envHandler[g]) /\ Settled(envHandler[h]))
      /\ ~(envHandler[g].op = "retry" /\ envHandler[h].op = "retry")

EnvRows ==
  /\ Unclaimed >= 0
  /\ envelope.status = "COMPLETED" => Unclaimed = 0
  /\ envelope.status = "ACTIVE" => envelope.left >= Unclaimed

EnvInv ==
  /\ EnvShapes /\ EnvApart /\ EnvRows /\ Envelopes!ClaimsArePaid
  /\ \A h \in Handlers : EnvHolds(envHandler[h])

-----------------------------------------------------------------------------
(* Red envelopes: the proof.                                               *)

EnvelopeRows ==
  [status : {"NONE", "ACTIVE", "COMPLETED", "CANCELLED"}, left : 0 .. Slots, known : BOOLEAN]
PendingRows ==
  [status : {"none", "PENDING", "PROCESSING", "COMPLETED", "FAILED"}, retries : 0 .. MaxRetries]
Escrows ==
  [state : {"none", "open", "refunded"}, claimed : SUBSET Claimers,
   cancel : {"no", "running", "over"}]

LEMMA EnvTypes ==
  Envelopes!TypeOK <=>
    /\ envelope \in EnvelopeRows /\ claimRows \subseteq Claimers
    /\ pending \in [Claimers -> PendingRows]
    /\ escrow \in Escrows /\ vaultNonce \in 0 .. MaxNonce
BY DEF Envelopes!TypeOK, EnvelopeRows, PendingRows, Escrows

LEMMA EnvCount ==
  ASSUME NEW e \in Escrows
  PROVE  /\ e.claimed \subseteq Claimers /\ IsFiniteSet(e.claimed)
         /\ Cardinality(e.claimed) \in Nat
<1>1. e.claimed \subseteq Claimers
  BY DEF Escrows
<1>2. IsFiniteSet(e.claimed)
  BY <1>1, ChatAssumption, FS_Subset
<1> QED
  BY <1>1, <1>2, FS_CardinalityType

LEMMA EnvIdle ==
  /\ Envelopes!Idle \in EnvRecords
  /\ Envelopes!Idle.op = "none" /\ Envelopes!Idle.at = "idle"
  /\ Envelopes!Idle.left = 0 /\ Envelopes!Idle.read = 0 /\ Envelopes!Idle.nonce = 0
<1>1. (CHOOSE c \in Claimers : TRUE) \in Claimers
  BY ChatAssumption
<1>2. 0 \in 0 .. Slots /\ 0 \in 0 .. MaxNonce /\ 0 \in Nat
  BY ChatAssumption
<1> QED
  BY <1>1, <1>2 DEF Envelopes!Idle, EnvRecords

LEMMA EnvInit == Envelopes!Init => EnvInv
<1> SUFFICES ASSUME Envelopes!Init PROVE EnvInv
  OBVIOUS
<1>1. 0 \in 0 .. Slots /\ 0 \in 0 .. MaxNonce /\ 0 \in 0 .. MaxRetries
  BY ChatAssumption
<1>2. envelope \in EnvelopeRows /\ claimRows \subseteq Claimers /\ vaultNonce \in 0 .. MaxNonce
  BY <1>1 DEF Envelopes!Init, EnvelopeRows
<1>3. pending \in [Claimers -> PendingRows]
  BY <1>1 DEF Envelopes!Init, Envelopes!NotQueued, PendingRows
<1>4. escrow \in Escrows /\ escrow.claimed = {}
  BY DEF Envelopes!Init, Escrows
<1>5. envHandler \in [Handlers -> EnvRecords] /\ \A h \in Handlers : envHandler[h] = Envelopes!Idle
  BY EnvIdle DEF Envelopes!Init
<1>6. EnvShapes
  BY <1>2, <1>3, <1>4, <1>5, EnvTypes DEF EnvShapes, Envelopes!Init
<1>7. Unclaimed = Slots /\ Slots >= 0
  BY <1>4, FS_EmptySet, ChatAssumption DEF Unclaimed
<1>8. EnvRows
  BY <1>7 DEF EnvRows, Envelopes!Init
<1>9. EnvApart /\ \A h \in Handlers : EnvHolds(envHandler[h])
  BY <1>5, EnvIdle DEF EnvApart, EnvHolds, Settled, Claims
<1>10. Envelopes!ClaimsArePaid
  BY DEF Envelopes!ClaimsArePaid, Envelopes!Init, Envelopes!NotQueued
<1> QED
  BY <1>6, <1>8, <1>9, <1>10 DEF EnvInv

\* A request moves on, and perhaps writes the row of the envelope or of its
\* claim; the queue and the chain stay.
LEMMA EnvMove ==
  ASSUME EnvInv, NEW h \in Handlers, NEW r \in EnvRecords,
         envHandler' = [envHandler EXCEPT ![h] = r],
         EnvHolds(r),
         Settled(r) => Settled(envHandler[h]) /\ r.who = envHandler[h].who,
         r.op = "retry" => envHandler[h].op = "retry" /\ r.who = envHandler[h].who,
         UNCHANGED <<pending, escrow, vaultNonce>>,
         envOrphans' \subseteq EnvTransactions,
         envelope' \in EnvelopeRows, claimRows' \subseteq escrow.claimed, EnvRows'
  PROVE  EnvInv'
<1>1. envHandler'[h] = r /\ \A g \in Handlers : g # h => envHandler'[g] = envHandler[g]
  BY DEF EnvInv, EnvShapes
<1>2. escrow \in Escrows /\ escrow.claimed \subseteq Claimers
  BY EnvTypes, EnvCount DEF EnvInv, EnvShapes
<1>3. Envelopes!TypeOK'
  <2>1. /\ envelope' \in EnvelopeRows /\ claimRows' \subseteq Claimers
        /\ pending' \in [Claimers -> PendingRows]
        /\ escrow' \in Escrows /\ vaultNonce' \in 0 .. MaxNonce
    BY <1>2, EnvTypes DEF EnvInv, EnvShapes
  <2> QED
    BY <2>1 DEF Envelopes!TypeOK, EnvelopeRows, PendingRows, Escrows
<1>4. EnvShapes'
  BY <1>3 DEF EnvInv, EnvShapes
<1>5. EnvApart'
  BY <1>1 DEF EnvInv, EnvApart
<1>6. Envelopes!ClaimsArePaid'
  BY DEF EnvInv, Envelopes!ClaimsArePaid
<1>7. Unclaimed' = Unclaimed
  BY DEF Unclaimed
<1>8. \A g \in Handlers : EnvHolds(envHandler[g])'
  BY <1>1, <1>7 DEF EnvInv, EnvHolds
<1> QED
  BY <1>4, <1>5, <1>6, <1>8 DEF EnvInv

\* What a request has on its way.
LEMMA EnvTransaction ==
  ASSUME EnvInv, NEW h \in Handlers, envHandler[h].at \in {"approve", "sent"}
  PROVE  /\ Envelopes!Transaction(h) \in EnvTransactions
         /\ Envelopes!Transaction(h).who = envHandler[h].who
         /\ Envelopes!Transaction(h).op = "claim" <=> Claims(envHandler[h])
<1> DEFINE q == envHandler[h]
           op == CASE q.at = "approve" -> "approve"
                   [] q.op = "retry" -> "claim"
                   [] OTHER -> q.op
<1>1. q \in EnvRecords /\ EnvHolds(q)
  BY DEF EnvInv, EnvShapes
<1>2. /\ q.op \in {"none", "create", "claim", "retry", "notice", "cancel"}
      /\ q.who \in Claimers /\ q.nonce \in Nat
      /\ q.at = "approve" => q.op = "create"
      /\ q.at = "sent" => q.op # "none"
  BY <1>1 DEF EnvRecords, EnvHolds
<1>3. op \in {"approve", "create", "claim", "notice", "cancel"}
      /\ (op = "claim" <=> q.op \in {"claim", "retry"})
  BY <1>2
<1>4. Envelopes!Transaction(h) = [op |-> op, who |-> q.who, nonce |-> q.nonce]
  BY DEF Envelopes!Transaction
<1> HIDE DEF op
<1> QED
  BY <1>2, <1>3, <1>4 DEF EnvTransactions, Claims

LEMMA EnvMoves ==
  ASSUME EnvInv, NEW h \in Handlers,
         \/ Envelopes!BeginCreate(h) \/ Envelopes!Approved(h)
         \/ \E receipt \in BOOLEAN : Envelopes!CreateRow(h, receipt)
         \/ \E c \in Claimers : Envelopes!BeginClaim(h, c)
         \/ Envelopes!RecordClaim(h) \/ Envelopes!CountClaim(h)
         \/ Envelopes!BeginCancel(h) \/ Envelopes!CancelNotice(h)
         \/ Envelopes!NoticeGiven(h) \/ Envelopes!CancelRow(h)
         \/ \E lost \in BOOLEAN : Envelopes!CallFails(h, lost)
         \/ Envelopes!Abort(h)
  PROVE  EnvInv'
<1> DEFINE q == envHandler[h]
<1>1. q \in EnvRecords /\ EnvHolds(q) /\ envHandler \in [Handlers -> EnvRecords]
  BY DEF EnvInv, EnvShapes
<1>2. /\ envelope \in EnvelopeRows /\ claimRows \subseteq escrow.claimed
      /\ escrow \in Escrows /\ vaultNonce \in 0 .. MaxNonce
      /\ envOrphans \subseteq EnvTransactions
  BY EnvTypes DEF EnvInv, EnvShapes, Envelopes!ClaimsArePaid
<1>3. Slots \in Nat /\ MaxNonce \in Nat /\ Unclaimed \in Int
  BY <1>2, ChatAssumption, EnvCount DEF Unclaimed
<1>3a. q.read \in Nat /\ q.read + 1 \in Nat /\ vaultNonce \in Nat
  <2>1. q.read \in 0 .. MaxNonce
    BY <1>1 DEF EnvRecords
  <2> QED
    BY <1>2, <1>3, <2>1
<1>4. EnvRows
  BY DEF EnvInv
<1>5. EnvHolds(Envelopes!Idle) /\ ~Settled(Envelopes!Idle) /\ Envelopes!Idle.op # "retry"
  BY EnvIdle DEF EnvHolds, Settled, Claims
\* The rows of the envelope and its claims stay.
<1>6. ASSUME NEW r \in EnvRecords, envHandler' = [envHandler EXCEPT ![h] = r],
             EnvHolds(r),
             Settled(r) => Settled(q) /\ r.who = q.who,
             r.op = "retry" => q.op = "retry" /\ r.who = q.who,
             envOrphans' \subseteq EnvTransactions,
             UNCHANGED <<envelope, claimRows, pending, escrow, vaultNonce>>
      PROVE  EnvInv'
  <2>1. EnvRows'
    BY <1>4, <1>6 DEF EnvRows, Unclaimed
  <2>2. UNCHANGED <<pending, escrow, vaultNonce>> /\ envelope' \in EnvelopeRows
        /\ claimRows' \subseteq escrow.claimed
    BY <1>2, <1>6
  <2> QED
    BY <1>6, <2>1, <2>2, EnvMove
<1>7. CASE Envelopes!BeginCreate(h)
  <2> DEFINE r == [Envelopes!Idle EXCEPT !.op = "create", !.at = "approve",
                                         !.read = vaultNonce, !.nonce = vaultNonce]
  <2>1. /\ envHandler' = [envHandler EXCEPT ![h] = r]
        /\ UNCHANGED <<envelope, claimRows, pending, envOrphans, escrow, vaultNonce>>
    BY <1>7 DEF Envelopes!BeginCreate, Envelopes!Start, Envelopes!rows, Envelopes!chain
  <2>2. r \in EnvRecords /\ r.op = "create" /\ r.at = "approve"
    BY <1>2, <1>3a, EnvIdle DEF EnvRecords
  <2>3. EnvHolds(r) /\ ~Settled(r)
    BY <2>2 DEF EnvHolds, Settled, Claims
  <2> HIDE DEF r
  <2> QED
    BY <1>2, <1>6, <2>1, <2>2, <2>3
<1>8. CASE Envelopes!Approved(h)
  <2> DEFINE r == [q EXCEPT !.at = "sent", !.nonce = q.read + 1]
  <2>1. /\ q.op = "create" /\ envHandler' = [envHandler EXCEPT ![h] = r]
        /\ UNCHANGED <<envelope, claimRows, pending, envOrphans, escrow, vaultNonce>>
    BY <1>1, <1>8 DEF Envelopes!Approved, Envelopes!At, Envelopes!rows, Envelopes!chain
  <2>2. r \in EnvRecords /\ r.op = "create" /\ r.at = "sent"
    BY <1>1, <1>3a, <2>1 DEF EnvRecords
  <2>3. EnvHolds(r) /\ ~Settled(r)
    BY <2>2 DEF EnvHolds, Settled, Claims
  <2> HIDE DEF r
  <2> QED
    BY <1>2, <1>6, <2>1, <2>2, <2>3
<1>9. ASSUME NEW receipt \in BOOLEAN, Envelopes!CreateRow(h, receipt) PROVE EnvInv'
  <2>1. /\ envelope' = [status |-> "ACTIVE", left |-> Slots, known |-> receipt]
        /\ envHandler' = [envHandler EXCEPT ![h] = Envelopes!Idle]
        /\ UNCHANGED <<claimRows, pending, envOrphans, escrow, vaultNonce>>
    BY <1>9 DEF Envelopes!CreateRow, Envelopes!Return, Envelopes!chain
  <2>2. envelope' \in EnvelopeRows /\ envelope'.status = "ACTIVE" /\ envelope'.left = Slots
    BY <1>3, <2>1 DEF EnvelopeRows
  <2>3. Slots >= Unclaimed
    BY <1>2, <1>3, EnvCount DEF Unclaimed
  <2>4. EnvRows'
    BY <1>4, <2>1, <2>2, <2>3 DEF EnvRows, Unclaimed
  <2> QED
    BY <1>2, <1>5, <2>1, <2>2, <2>4, EnvIdle, EnvMove
<1>10. ASSUME NEW c \in Claimers, Envelopes!BeginClaim(h, c) PROVE EnvInv'
  <2> DEFINE r == [Envelopes!Idle EXCEPT !.op = "claim", !.at = "sent", !.who = c,
                                         !.left = envelope.left]
  <2>1. /\ envHandler' = [envHandler EXCEPT ![h] = r]
        /\ envelope.status = "ACTIVE" /\ envelope.left > 0
        /\ UNCHANGED <<envelope, claimRows, pending, envOrphans, escrow, vaultNonce>>
    BY <1>10 DEF Envelopes!BeginClaim, Envelopes!Claimable, Envelopes!Start,
                 Envelopes!rows, Envelopes!chain
  <2>2. envelope.left \in 0 .. Slots
    BY <1>2 DEF EnvelopeRows
  <2>3. r \in EnvRecords /\ r.op = "claim" /\ r.at = "sent" /\ r.left = envelope.left
    BY <2>2, EnvIdle DEF EnvRecords
  <2> HIDE DEF r
  <2>4. r.left >= 1 /\ r.left >= Unclaimed
    BY <1>3, <1>4, <2>1, <2>2, <2>3 DEF EnvRows
  <2>5. EnvHolds(r) /\ ~Settled(r)
    BY <2>3, <2>4 DEF EnvHolds, Settled, Claims
  <2> QED
    BY <1>2, <1>6, <2>1, <2>3, <2>5
<1>11. CASE Envelopes!RecordClaim(h)
  <2> DEFINE r == [q EXCEPT !.at = "recorded"]
  <2>1. /\ q.op \in {"claim", "retry"} /\ q.at = "landed"
        /\ claimRows' = claimRows \cup {q.who}
        /\ envHandler' = [envHandler EXCEPT ![h] = r]
        /\ UNCHANGED <<envelope, pending, envOrphans, escrow, vaultNonce>>
    BY <1>1, <1>11 DEF Envelopes!RecordClaim, Envelopes!Goto, Envelopes!chain
  <2>2. /\ r \in EnvRecords /\ r.op = q.op /\ r.at = "recorded"
        /\ r.who = q.who /\ r.left = q.left
    BY <1>1 DEF EnvRecords
  <2> HIDE DEF r
  <2>3. Settled(q) /\ q.who \in escrow.claimed /\ q.op # "retry"
    BY <1>1, <2>1 DEF Settled, Claims, EnvHolds
  <2>4. EnvHolds(r)
    BY <1>1, <2>1, <2>2, <2>3 DEF EnvHolds, Settled, Claims
  <2>5. EnvRows'
    BY <1>4, <2>1 DEF EnvRows, Unclaimed
  <2>6. claimRows' \subseteq escrow.claimed /\ envelope' \in EnvelopeRows
    BY <1>2, <2>1, <2>3
  <2> QED
    BY <1>2, <2>1, <2>2, <2>3, <2>4, <2>5, <2>6, EnvMove
<1>12. CASE Envelopes!CountClaim(h)
  <2>1. q.op \in {"claim", "retry"} /\ q.at = "recorded"
    BY <1>12 DEF Envelopes!CountClaim
  <2>2. q.op = "claim" /\ q.left >= 1 /\ q.left - 1 >= Unclaimed /\ q.left \in 0 .. Slots
    BY <1>1, <2>1 DEF Settled, Claims, EnvHolds, EnvRecords
  <2>3. /\ envelope' = [envelope EXCEPT !.left = q.left - 1,
                          !.status = IF q.left = 1 THEN "COMPLETED" ELSE "ACTIVE"]
        /\ envHandler' = [envHandler EXCEPT ![h] = Envelopes!Idle]
        /\ UNCHANGED <<claimRows, pending, envOrphans, escrow, vaultNonce>>
    BY <1>12, <2>2 DEF Envelopes!CountClaim, Envelopes!Return, Envelopes!chain
  <2>4. q.left - 1 \in 0 .. Slots
    BY <1>3, <2>2
  <2>5. /\ envelope' \in EnvelopeRows /\ envelope'.left = q.left - 1
        /\ envelope'.status = IF q.left = 1 THEN "COMPLETED" ELSE "ACTIVE"
    BY <1>2, <2>3, <2>4 DEF EnvelopeRows
  <2>6. EnvRows'
    <3>1. Unclaimed' = Unclaimed
      BY <2>3 DEF Unclaimed
    <3>2. Unclaimed >= 0
      BY <1>4 DEF EnvRows
    <3> QED
      BY <1>3, <2>2, <2>5, <3>1, <3>2 DEF EnvRows
  <2> QED
    BY <1>2, <1>5, <2>3, <2>5, <2>6, EnvIdle, EnvMove
<1>13. CASE Envelopes!BeginCancel(h)
  <2> DEFINE place == IF Envelopes!Cardinality(claimRows) < Slots THEN "notice" ELSE "landed"
             r == [Envelopes!Idle EXCEPT !.op = "cancel", !.read = vaultNonce, !.at = place]
  <2>1. /\ envHandler' = [envHandler EXCEPT ![h] = r]
        /\ UNCHANGED <<envelope, claimRows, pending, envOrphans, escrow, vaultNonce>>
    BY <1>13 DEF Envelopes!BeginCancel, Envelopes!Start, Envelopes!rows, Envelopes!chain
  <2>2. place \in {"notice", "landed"}
    OBVIOUS
  <2> HIDE DEF place
  <2>3. r \in EnvRecords /\ r.op = "cancel" /\ r.at = place
    BY <1>2, <2>2, EnvIdle DEF EnvRecords
  <2> HIDE DEF r
  <2>4. EnvHolds(r) /\ ~Settled(r)
    BY <2>2, <2>3 DEF EnvHolds, Settled, Claims
  <2> QED
    BY <1>2, <1>6, <2>1, <2>3, <2>4
<1>14. CASE Envelopes!CancelNotice(h)
  <2>1. /\ q.op = "cancel" /\ q.at = "notice"
        /\ UNCHANGED <<envelope, claimRows, pending, envOrphans, escrow, vaultNonce>>
    BY <1>14 DEF Envelopes!CancelNotice, Envelopes!At, Envelopes!rows, Envelopes!chain
  <2>2. escrow.cancel \in {"no", "running", "over"}
    BY <1>2 DEF Escrows
  <2> DEFINE Notice == [q EXCEPT !.op = "notice", !.at = "sent", !.nonce = q.read]
             Refund == [q EXCEPT !.at = "sent", !.nonce = q.read + 1]
  <2>3. \/ envHandler' = [envHandler EXCEPT ![h] = Notice]
        \/ envHandler' = [envHandler EXCEPT ![h] = Envelopes!Idle]
        \/ envHandler' = [envHandler EXCEPT ![h] = Refund]
    BY <1>1, <1>14, <2>2 DEF Envelopes!CancelNotice, Envelopes!Return
  <2>4. /\ Notice \in EnvRecords /\ Notice.op = "notice" /\ Notice.at = "sent"
        /\ Refund \in EnvRecords /\ Refund.op = "cancel" /\ Refund.at = "sent"
    BY <1>1, <1>3a, <2>1 DEF EnvRecords
  <2> HIDE DEF Notice, Refund
  <2>5. EnvHolds(Notice) /\ ~Settled(Notice) /\ EnvHolds(Refund) /\ ~Settled(Refund)
    BY <2>4 DEF EnvHolds, Settled, Claims
  <2> QED
    BY <1>2, <1>5, <1>6, <2>1, <2>3, <2>4, <2>5, EnvIdle
<1>15. CASE Envelopes!NoticeGiven(h) \/ Envelopes!Abort(h)
  <2>1. /\ envHandler' = [envHandler EXCEPT ![h] = Envelopes!Idle]
        /\ UNCHANGED <<envelope, claimRows, pending, envOrphans, escrow, vaultNonce>>
    BY <1>15 DEF Envelopes!NoticeGiven, Envelopes!Abort, Envelopes!Return,
                 Envelopes!rows, Envelopes!chain
  <2> QED
    BY <1>2, <1>5, <1>6, <2>1, EnvIdle
<1>16. CASE Envelopes!CancelRow(h)
  <2>1. /\ envelope' = [envelope EXCEPT !.status = "CANCELLED", !.left = 0]
        /\ envHandler' = [envHandler EXCEPT ![h] = Envelopes!Idle]
        /\ UNCHANGED <<claimRows, pending, envOrphans, escrow, vaultNonce>>
    BY <1>16 DEF Envelopes!CancelRow, Envelopes!Return, Envelopes!chain
  <2>2. 0 \in 0 .. Slots
    BY <1>3
  <2>3. envelope' \in EnvelopeRows /\ envelope'.status = "CANCELLED"
    BY <1>2, <2>1, <2>2 DEF EnvelopeRows
  <2>4. EnvRows'
    BY <1>4, <2>1, <2>3 DEF EnvRows, Unclaimed
  <2> QED
    BY <1>2, <1>5, <2>1, <2>3, <2>4, EnvIdle, EnvMove
<1>17. ASSUME NEW lost \in BOOLEAN, Envelopes!CallFails(h, lost) PROVE EnvInv'
  <2>1. /\ q.at \in {"approve", "sent"}
        /\ envOrphans' = IF lost THEN envOrphans \cup {Envelopes!Transaction(h)} ELSE envOrphans
        /\ UNCHANGED <<envelope, claimRows, pending, escrow, vaultNonce>>
    BY <1>17 DEF Envelopes!CallFails, Envelopes!OnItsWay, Envelopes!rows, Envelopes!chain
  <2>2. envOrphans' \subseteq EnvTransactions
    BY <1>2, <2>1, EnvTransaction
  <2> DEFINE r == [q EXCEPT !.at = "failed"]
  <2>3. \/ envHandler' = [envHandler EXCEPT ![h] = Envelopes!Idle]
        \/ q.op = "retry" /\ envHandler' = [envHandler EXCEPT ![h] = r]
    BY <1>1, <1>17 DEF Envelopes!CallFails, Envelopes!Goto, Envelopes!Return
  <2>4. r \in EnvRecords /\ r.op = q.op /\ r.at = "failed" /\ r.who = q.who
    BY <1>1 DEF EnvRecords
  <2> HIDE DEF r
  <2>5. EnvHolds(r) /\ ~Settled(r)
    BY <1>1, <2>4 DEF EnvHolds, Settled, Claims
  <2> QED
    BY <1>5, <1>6, <2>1, <2>2, <2>3, <2>4, <2>5, EnvIdle
<1> QED
  BY <1>7, <1>8, <1>9, <1>10, <1>11, <1>12, <1>13, <1>14, <1>15, <1>16, <1>17

\* The queue changes for one claimer whom no other request is about.
LEMMA EnvQueue ==
  ASSUME EnvInv, NEW h \in Handlers, NEW r \in EnvRecords, NEW c \in escrow.claimed,
         NEW x \in PendingRows,
         envHandler' = [envHandler EXCEPT ![h] = r],
         pending' = [pending EXCEPT ![c] = x],
         EnvHolds(r)', ~Settled(r), r.op = "retry" => r.who = c,
         \A g \in Handlers : g # h /\ envHandler[g].who = c =>
           ~Settled(envHandler[g]) /\ envHandler[g].op # "retry",
         UNCHANGED <<envelope, claimRows, envOrphans, escrow, vaultNonce>>
  PROVE  EnvInv'
<1>1. envHandler'[h] = r /\ \A g \in Handlers : g # h => envHandler'[g] = envHandler[g]
  BY DEF EnvInv, EnvShapes
<1>2. /\ envelope \in EnvelopeRows /\ claimRows \subseteq Claimers
      /\ pending \in [Claimers -> PendingRows]
      /\ escrow \in Escrows /\ vaultNonce \in 0 .. MaxNonce
  BY EnvTypes DEF EnvInv, EnvShapes
<1>3. c \in Claimers
  BY <1>2, EnvCount
<1>4. /\ pending' \in [Claimers -> PendingRows]
      /\ \A d \in Claimers : d # c => pending'[d] = pending[d]
  BY <1>2, <1>3
<1>5. Envelopes!TypeOK'
  BY <1>2, <1>4 DEF Envelopes!TypeOK, EnvelopeRows, PendingRows, Escrows
<1>6. EnvShapes'
  BY <1>5 DEF EnvInv, EnvShapes
<1>7. EnvApart'
  BY <1>1 DEF EnvInv, EnvApart
<1>8. EnvRows'
  BY DEF EnvInv, EnvRows, Unclaimed
<1>9. Envelopes!ClaimsArePaid'
  BY <1>3, <1>4 DEF EnvInv, Envelopes!ClaimsArePaid
<1>10. ASSUME NEW g \in Handlers, g # h PROVE EnvHolds(envHandler[g])'
  <2>1. /\ envHandler'[g] = envHandler[g] /\ EnvHolds(envHandler[g])
        /\ envHandler[g].who \in Claimers
    BY <1>1, <1>10 DEF EnvInv, EnvShapes, EnvRecords
  <2>2. Unclaimed' = Unclaimed
    BY DEF Unclaimed
  <2>3. Settled(envHandler[g]) \/ envHandler[g].op = "retry" =>
          pending'[envHandler[g].who] = pending[envHandler[g].who]
    BY <1>4, <1>10, <2>1
  <2> QED
    BY <2>1, <2>2, <2>3 DEF EnvHolds
<1> QED
  BY <1>1, <1>6, <1>7, <1>8, <1>9, <1>10 DEF EnvInv

LEMMA EnvQueueSteps ==
  ASSUME EnvInv, NEW h \in Handlers,
         \/ Envelopes!QueueClaim(h) \/ Envelopes!RetryFailed(h)
         \/ \E c \in Claimers : Envelopes!RetryTake(h, c)
  PROVE  EnvInv'
<1> DEFINE q == envHandler[h]
<1>1. q \in EnvRecords /\ EnvHolds(q) /\ q.who \in Claimers
  BY DEF EnvInv, EnvShapes, EnvRecords
<1>2. envelope \in EnvelopeRows /\ pending \in [Claimers -> PendingRows] /\ escrow \in Escrows
  BY EnvTypes DEF EnvInv, EnvShapes
<1>3. \A c \in Claimers : pending[c].status # "none" => c \in escrow.claimed
  BY DEF EnvInv, Envelopes!ClaimsArePaid
<1>4. \A g \in Handlers :
        /\ Settled(envHandler[g]) => pending[envHandler[g].who].status = "none"
        /\ envHandler[g].op = "retry" => pending[envHandler[g].who].status = "PROCESSING"
  BY DEF EnvInv, EnvHolds
<1>5. MaxRetries \in Nat /\ 0 \in 0 .. MaxRetries
  BY ChatAssumption
<1>6. CASE Envelopes!QueueClaim(h)
  <2> DEFINE x == [status |-> "PENDING", retries |-> 0]
  <2>1. /\ Settled(q) /\ pending' = [pending EXCEPT ![q.who] = x]
        /\ envHandler' = [envHandler EXCEPT ![h] = Envelopes!Idle]
        /\ UNCHANGED <<envelope, claimRows, envOrphans, escrow, vaultNonce>>
    BY <1>6 DEF Envelopes!QueueClaim, Envelopes!Return, Envelopes!chain, Settled, Claims
  <2>2. q.who \in escrow.claimed /\ pending[q.who].status = "none"
    BY <1>1, <2>1 DEF EnvHolds
  <2>3. x \in PendingRows
    BY <1>5 DEF PendingRows
  <2>4. EnvHolds(Envelopes!Idle)' /\ ~Settled(Envelopes!Idle) /\ Envelopes!Idle.op # "retry"
    BY EnvIdle DEF EnvHolds, Settled, Claims
  <2>5. \A g \in Handlers : g # h /\ envHandler[g].who = q.who =>
          ~Settled(envHandler[g]) /\ envHandler[g].op # "retry"
    BY <1>4, <2>1, <2>2 DEF EnvInv, EnvApart
  <2>6. PICK c \in escrow.claimed : c = q.who
    BY <2>2
  <2> HIDE DEF x
  <2>7. /\ pending' = [pending EXCEPT ![c] = x]
        /\ \A g \in Handlers : g # h /\ envHandler[g].who = c =>
             ~Settled(envHandler[g]) /\ envHandler[g].op # "retry"
    BY <2>1, <2>5, <2>6
  <2>8. /\ envHandler' = [envHandler EXCEPT ![h] = Envelopes!Idle] /\ Envelopes!Idle \in EnvRecords
        /\ UNCHANGED <<envelope, claimRows, envOrphans, escrow, vaultNonce>>
    BY <2>1, EnvIdle
  <2> QED
    BY ONLY EnvInv, h \in Handlers, <2>3, <2>4, <2>6, <2>7, <2>8, EnvQueue
<1>7. CASE Envelopes!RetryFailed(h)
  <2> DEFINE n == pending[q.who].retries
             x == [status |-> IF n + 1 >= MaxRetries THEN "FAILED" ELSE "PENDING",
                   retries |-> n + 1]
  <2>1. /\ q.op = "retry" /\ pending' = [pending EXCEPT ![q.who] = x]
        /\ envHandler' = [envHandler EXCEPT ![h] = Envelopes!Idle]
        /\ UNCHANGED <<envelope, claimRows, envOrphans, escrow, vaultNonce>>
    BY <1>1, <1>2, <1>7
    DEF Envelopes!RetryFailed, Envelopes!Return, Envelopes!At, Envelopes!chain
  <2>2. pending[q.who].status = "PROCESSING" /\ n < MaxRetries /\ n \in 0 .. MaxRetries
    BY <1>1, <1>2, <2>1 DEF EnvHolds, PendingRows
  <2>3. n + 1 \in 0 .. MaxRetries
    BY <1>5, <2>2
  <2>4. x \in PendingRows
    BY <2>3 DEF PendingRows
  <2>5. EnvHolds(Envelopes!Idle)' /\ ~Settled(Envelopes!Idle) /\ Envelopes!Idle.op # "retry"
    BY EnvIdle DEF EnvHolds, Settled, Claims
  <2>6. \A g \in Handlers : g # h /\ envHandler[g].who = q.who =>
          ~Settled(envHandler[g]) /\ envHandler[g].op # "retry"
    BY <1>4, <2>1, <2>2 DEF EnvInv, EnvApart
  <2>7. q.who \in escrow.claimed
    BY <1>1, <1>3, <2>2
  <2> HIDE DEF x
  <2> QED
    BY <2>1, <2>4, <2>5, <2>6, <2>7, EnvIdle, EnvQueue
<1>8. ASSUME NEW c \in Claimers, Envelopes!RetryTake(h, c) PROVE EnvInv'
  <2> DEFINE x == [pending[c] EXCEPT !.status = "PROCESSING"]
             place == IF Envelopes!Claimable THEN "sent" ELSE "failed"
             r == [Envelopes!Idle EXCEPT !.op = "retry", !.who = c, !.left = envelope.left,
                                         !.at = place]
  <2>1. /\ pending[c].status = "PENDING" /\ pending[c].retries < MaxRetries
        /\ pending' = [pending EXCEPT ![c] = x]
        /\ envHandler' = [envHandler EXCEPT ![h] = r]
        /\ UNCHANGED <<envelope, claimRows, envOrphans, escrow, vaultNonce>>
    BY <1>2, <1>8 DEF Envelopes!RetryTake, Envelopes!Start, Envelopes!chain
  <2>2. place = "sent" => envelope.status = "ACTIVE" /\ envelope.left > 0
    BY DEF Envelopes!Claimable
  <2>3. place \in {"sent", "failed"} /\ envelope.left \in 0 .. Slots
    BY <1>2 DEF EnvelopeRows
  <2> HIDE DEF place
  <2>4. /\ r \in EnvRecords /\ r.op = "retry" /\ r.who = c /\ r.left = envelope.left
        /\ r.at = place
    BY <2>3, EnvIdle DEF EnvRecords
  <2>5. x \in PendingRows /\ x.status = "PROCESSING" /\ x.retries = pending[c].retries
    BY <1>2 DEF PendingRows
  <2> HIDE DEF r, x
  <2>6. PICK s \in EnvRecords, y \in PendingRows : s = r /\ y = x
    BY <2>4, <2>5
  <2>7. pending'[c] = y /\ Unclaimed' = Unclaimed
    BY <1>2, <2>1, <2>6 DEF Unclaimed
  <2>8. EnvHolds(s)' /\ ~Settled(s)
    <3>1. place = "sent" => s.left >= 1 /\ s.left >= Unclaimed
      BY <2>2, <2>3, <2>4, <2>6, ChatAssumption DEF EnvInv, EnvRows
    <3> QED
      BY <2>1, <2>3, <2>4, <2>5, <2>6, <2>7, <3>1 DEF EnvHolds, Settled, Claims
  <2>9. \A g \in Handlers : g # h /\ envHandler[g].who = c =>
          ~Settled(envHandler[g]) /\ envHandler[g].op # "retry"
    BY <1>4, <2>1
  <2>10. c \in escrow.claimed
    BY <1>3, <2>1
  <2>11. /\ envHandler' = [envHandler EXCEPT ![h] = s] /\ pending' = [pending EXCEPT ![c] = y]
         /\ s.who = c
    BY <2>1, <2>4, <2>6
  <2>12. UNCHANGED <<envelope, claimRows, envOrphans, escrow, vaultNonce>>
    BY <2>1
  <2> QED
    BY ONLY EnvInv, h \in Handlers, <2>6, <2>8, <2>9, <2>10, <2>11, <2>12, EnvQueue
<1> QED
  BY <1>6, <1>7, <1>8

\* What the chain does with a transaction: a claim pays somebody new, and
\* only while there is a share left.
LEMMA EnvExecuted ==
  ASSUME EnvInv, NEW tx \in EnvTransactions, Envelopes!Execute(tx)
  PROVE  /\ escrow' \in Escrows /\ vaultNonce' \in 0 .. MaxNonce
         /\ tx.op # "claim" => escrow'.claimed = escrow.claimed /\ Unclaimed' = Unclaimed
         /\ tx.op = "claim" => /\ tx.who \notin escrow.claimed
                               /\ escrow'.claimed = escrow.claimed \cup {tx.who}
                               /\ Unclaimed > 0 /\ Unclaimed' = Unclaimed - 1
<1>1. /\ tx.op \in {"approve", "create", "claim", "notice", "cancel"} /\ tx.who \in Claimers
  BY DEF EnvTransactions
<1>2. escrow \in Escrows /\ vaultNonce \in 0 .. MaxNonce
  BY EnvTypes DEF EnvInv, EnvShapes
<1>3. vaultNonce' \in 0 .. MaxNonce
  <2>1. \/ vaultNonce' = vaultNonce
        \/ vaultNonce < MaxNonce /\ vaultNonce' = vaultNonce + 1
    BY <1>1 DEF Envelopes!Execute, Envelopes!Accepted
  <2> QED
    BY <1>2, <2>1, ChatAssumption
<1>4. ASSUME tx.op # "claim"
      PROVE  escrow' \in Escrows /\ escrow'.claimed = escrow.claimed /\ Unclaimed' = Unclaimed
  <2>1. \/ escrow' = [escrow EXCEPT !.state = "open"]
        \/ escrow' = [escrow EXCEPT !.cancel = "running"]
        \/ escrow' = [escrow EXCEPT !.state = "refunded"]
        \/ escrow' = escrow
    BY <1>1, <1>4 DEF Envelopes!Execute
  <2>2. escrow' \in Escrows /\ escrow'.claimed = escrow.claimed
    BY <1>2, <2>1 DEF Escrows
  <2> QED
    BY <2>2 DEF Unclaimed
<1>5. ASSUME tx.op = "claim"
      PROVE  /\ escrow' \in Escrows /\ tx.who \notin escrow.claimed
             /\ escrow'.claimed = escrow.claimed \cup {tx.who}
             /\ Unclaimed > 0 /\ Unclaimed' = Unclaimed - 1
  <2>1. /\ escrow' = [escrow EXCEPT !.claimed = @ \cup {tx.who}]
        /\ tx.who \notin escrow.claimed
        /\ Envelopes!Cardinality(escrow.claimed) < Slots
    BY <1>5 DEF Envelopes!Execute, Envelopes!Accepted
  <2>2. escrow' \in Escrows /\ escrow'.claimed = escrow.claimed \cup {tx.who}
    BY <1>1, <1>2, <2>1 DEF Escrows
  <2>3. Cardinality(escrow.claimed) \in Nat /\ IsFiniteSet(escrow.claimed)
    BY <1>2, EnvCount
  <2>4. Cardinality(escrow'.claimed) = Cardinality(escrow.claimed) + 1
    BY <2>1, <2>2, <2>3, FS_AddElement
  <2>5. Cardinality(escrow.claimed) < Slots
    BY <2>1, OneCardinality
  <2> QED
    BY <2>1, <2>2, <2>3, <2>4, <2>5, ChatAssumption DEF Unclaimed
<1> QED
  BY <1>3, <1>4, <1>5

\* The chain moves on, and with it the one request that waits for it.
LEMMA EnvChain ==
  ASSUME EnvInv, NEW tx \in EnvTransactions, Envelopes!Execute(tx),
         envHandler' \in [Handlers -> EnvRecords], envOrphans' \subseteq EnvTransactions,
         UNCHANGED <<envelope, claimRows, pending>>,
         EnvApart',
         \A g \in Handlers :
           envHandler'[g] = envHandler[g] \/ EnvHolds(envHandler[g])'
  PROVE  EnvInv'
<1>1. /\ escrow' \in Escrows /\ vaultNonce' \in 0 .. MaxNonce
      /\ escrow.claimed \subseteq escrow'.claimed
      /\ Unclaimed' = Unclaimed \/ (Unclaimed > 0 /\ Unclaimed' = Unclaimed - 1)
  BY EnvExecuted
<1>2. /\ envelope \in EnvelopeRows /\ claimRows \subseteq Claimers
      /\ pending \in [Claimers -> PendingRows] /\ escrow \in Escrows
  BY EnvTypes DEF EnvInv, EnvShapes
<1>3. EnvShapes'
  BY <1>1, <1>2 DEF EnvShapes, Envelopes!TypeOK, EnvelopeRows, PendingRows, Escrows
<1>4. Unclaimed \in Int /\ envelope.left \in Int
  <2>1. envelope.left \in 0 .. Slots
    BY <1>2 DEF EnvelopeRows
  <2> QED
    BY <1>2, <2>1, EnvCount, ChatAssumption DEF Unclaimed
<1>5. EnvRows'
  BY <1>1, <1>4 DEF EnvInv, EnvRows
<1>6. Envelopes!ClaimsArePaid'
  BY <1>1 DEF EnvInv, Envelopes!ClaimsArePaid
<1>7. ASSUME NEW g \in Handlers, envHandler'[g] = envHandler[g] PROVE EnvHolds(envHandler[g])'
  <2>1. EnvHolds(envHandler[g]) /\ envHandler[g].left \in Int
    <3>1. EnvHolds(envHandler[g]) /\ envHandler[g].left \in 0 .. Slots
      BY DEF EnvInv, EnvShapes, EnvRecords
    <3> QED
      BY <3>1, ChatAssumption
  <2> QED
    BY <1>1, <1>4, <1>7, <2>1 DEF EnvHolds
<1> QED
  BY <1>3, <1>5, <1>6, <1>7 DEF EnvInv

LEMMA EnvLand ==
  ASSUME EnvInv, NEW h \in Handlers, Envelopes!Land(h)
  PROVE  EnvInv'
<1> DEFINE q == envHandler[h]
           tx == Envelopes!Transaction(h)
           place == IF q.at = "approve" THEN "approved" ELSE "landed"
<1>1. q \in EnvRecords /\ EnvHolds(q) /\ q.who \in Claimers /\ q.left \in 0 .. Slots
  BY DEF EnvInv, EnvShapes, EnvRecords
<1>2. /\ q.at \in {"approve", "sent"} /\ Envelopes!Execute(tx)
      /\ envHandler' = [envHandler EXCEPT ![h] = [q EXCEPT !.at = place]]
      /\ UNCHANGED <<envelope, claimRows, pending, envOrphans>>
  BY DEF Envelopes!Land, Envelopes!OnItsWay, Envelopes!Goto, Envelopes!rows, EnvInv, EnvShapes
<1>3. tx \in EnvTransactions /\ tx.who = q.who /\ (tx.op = "claim" <=> Claims(q))
  BY <1>2, EnvTransaction
<1> HIDE DEF tx
<1>4. PICK r \in EnvRecords :
        /\ envHandler' = [envHandler EXCEPT ![h] = r]
        /\ r.op = q.op /\ r.who = q.who /\ r.left = q.left
        /\ r.at \in {"approved", "landed"}
        /\ (r.at = "approved" => q.at = "approve") /\ (r.at = "landed" => q.at = "sent")
  <2> DEFINE m == [q EXCEPT !.at = place]
  <2>1. /\ m \in EnvRecords /\ m.op = q.op /\ m.who = q.who /\ m.left = q.left
        /\ m.at \in {"approved", "landed"}
        /\ (m.at = "approved" => q.at = "approve") /\ (m.at = "landed" => q.at = "sent")
    BY <1>1, <1>2 DEF EnvRecords
  <2>2. envHandler' = [envHandler EXCEPT ![h] = m]
    BY <1>2
  <2> HIDE DEF m
  <2> QED
    BY <2>1, <2>2
<1>5. envHandler'[h] = r /\ \A g \in Handlers : g # h => envHandler'[g] = envHandler[g]
  BY <1>4 DEF EnvInv, EnvShapes
<1>6. /\ Claims(q) => q.who \notin escrow.claimed /\ q.who \in escrow'.claimed
                      /\ Unclaimed' = Unclaimed - 1
      /\ escrow \in Escrows
  BY <1>2, <1>3, EnvExecuted, EnvTypes DEF EnvInv, EnvShapes
<1>7. Claims(q) => pending[q.who].status = "none" /\ q.op = "claim"
  BY <1>1, <1>6 DEF EnvInv, Envelopes!ClaimsArePaid, EnvHolds, Claims
<1>8. EnvHolds(r)'
  <2>1. Unclaimed \in Int /\ q.left \in Int
    BY <1>1, <1>6, EnvCount, ChatAssumption DEF Unclaimed
  <2>2. Claims(q) => q.at = "sent"
    BY <1>1, <1>2 DEF EnvHolds, Claims
  <2>3. Claims(q) => q.left >= 1 /\ q.left - 1 >= Unclaimed'
    BY <1>1, <1>6, <2>1, <2>2 DEF EnvHolds
  <2>4. pending' = pending /\ (q.op = "retry" => FALSE)
    BY <1>2, <1>7 DEF Claims
  <2>5. Claims(r) <=> Claims(q)
    BY <1>4 DEF Claims
  <2> QED
    BY <1>4, <1>6, <1>7, <2>3, <2>4, <2>5 DEF EnvHolds, Settled
<1>9. EnvApart'
  <2>1. \A g \in Handlers : Settled(envHandler[g]) => envHandler[g].who \in escrow.claimed
    BY DEF EnvInv, EnvHolds
  <2>2. Settled(r) => r.who \notin escrow.claimed
    BY <1>4, <1>6 DEF Settled, Claims
  <2>3. r.op # "retry"
    BY <1>4, <1>7 DEF Claims
  <2> QED
    BY <1>5, <2>1, <2>2, <2>3 DEF EnvInv, EnvApart
<1>10. envHandler' \in [Handlers -> EnvRecords] /\ envOrphans' \subseteq EnvTransactions
  BY <1>2, <1>4 DEF EnvInv, EnvShapes
<1>11. \A g \in Handlers : envHandler'[g] = envHandler[g] \/ EnvHolds(envHandler[g])'
  <2>1. EnvHolds(envHandler[h])'
    BY <1>5, <1>8 DEF EnvHolds
  <2> QED
    BY <1>5, <2>1
<1> QED
  BY <1>2, <1>3, <1>9, <1>10, <1>11, EnvChain

LEMMA EnvStep == EnvInv /\ Envelopes!Next => EnvInv'
<1> SUFFICES ASSUME EnvInv, Envelopes!Next PROVE EnvInv'
  OBVIOUS
<1>1. ASSUME NEW h \in Handlers, Envelopes!Request(h) PROVE EnvInv'
  BY <1>1, EnvMoves, EnvQueueSteps, EnvLand DEF Envelopes!Request
<1>2. ASSUME NEW tx \in envOrphans, Envelopes!LandOrphan(tx) PROVE EnvInv'
  <2>1. /\ Envelopes!Execute(tx) /\ envOrphans' = envOrphans \ {tx}
        /\ UNCHANGED <<envelope, claimRows, pending, envHandler>>
    BY <1>2 DEF Envelopes!LandOrphan, Envelopes!rows
  <2>2. /\ tx \in EnvTransactions /\ envOrphans' \subseteq EnvTransactions
        /\ envHandler' \in [Handlers -> EnvRecords] /\ EnvApart'
    BY <2>1 DEF EnvInv, EnvShapes, EnvApart
  <2> QED
    BY <2>1, <2>2, EnvChain
<1>3. ASSUME NEW tx \in envOrphans, Envelopes!DropOrphan(tx) PROVE EnvInv'
  <2>1. /\ envOrphans' = envOrphans \ {tx}
        /\ UNCHANGED <<envelope, claimRows, pending, envHandler, escrow, vaultNonce>>
    BY <1>3 DEF Envelopes!DropOrphan, Envelopes!rows, Envelopes!chain
  <2> QED
    BY <2>1 DEF EnvInv, EnvShapes, Envelopes!TypeOK, EnvApart, EnvRows, Unclaimed,
                Envelopes!ClaimsArePaid, EnvHolds
<1>4. CASE Envelopes!OtherCall
  <2>1. /\ vaultNonce < MaxNonce /\ vaultNonce' = vaultNonce + 1
        /\ UNCHANGED <<envelope, claimRows, pending, envHandler, envOrphans, escrow>>
    BY <1>4 DEF Envelopes!OtherCall, Envelopes!rows
  <2>2. vaultNonce \in 0 .. MaxNonce
    BY DEF EnvInv, EnvShapes, Envelopes!TypeOK
  <2>3. vaultNonce' \in 0 .. MaxNonce
    BY <2>1, <2>2, ChatAssumption
  <2> QED
    BY <2>1, <2>3 DEF EnvInv, EnvShapes, Envelopes!TypeOK, EnvApart, EnvRows, Unclaimed,
                      Envelopes!ClaimsArePaid, EnvHolds
<1>5. CASE Envelopes!HourPasses
  <2>1. /\ escrow' = [escrow EXCEPT !.cancel = "over"]
        /\ UNCHANGED <<envelope, claimRows, pending, envHandler, envOrphans, vaultNonce>>
    BY <1>5 DEF Envelopes!HourPasses, Envelopes!rows
  <2>2. escrow \in Escrows
    BY EnvTypes DEF EnvInv, EnvShapes
  <2>3. escrow' \in Escrows /\ escrow'.claimed = escrow.claimed
    BY <2>1, <2>2 DEF Escrows
  <2> QED
    BY <2>1, <2>3 DEF EnvInv, EnvShapes, Envelopes!TypeOK, Escrows, EnvApart, EnvRows,
                      Unclaimed, Envelopes!ClaimsArePaid, EnvHolds
<1> QED
  BY <1>1, <1>2, <1>3, <1>4, <1>5 DEF Envelopes!Next

LEMMA EnvStutter == EnvInv /\ UNCHANGED envelopeVars => EnvInv'
BY DEF EnvInv, EnvShapes, Envelopes!TypeOK, EnvApart, EnvRows, Unclaimed,
       Envelopes!ClaimsArePaid, EnvHolds, envelopeVars

\* What the run checks of the envelopes follows.
LEMMA EnvProperties ==
  EnvInv => Envelopes!TypeOK /\ Envelopes!ClaimsArePaid /\ Envelopes!NeverShutEarly
<1> SUFFICES ASSUME EnvInv PROVE Envelopes!NeverShutEarly
  BY DEF EnvInv, EnvShapes
<1>1. EnvRows /\ escrow \in Escrows
  BY EnvTypes DEF EnvInv, EnvShapes
<1>2. Envelopes!Cardinality(escrow.claimed) = Slots - Unclaimed
      /\ Slots - Envelopes!Cardinality(escrow.claimed) = Unclaimed /\ Unclaimed \in Int
  BY <1>1, EnvCount, OneCardinality, ChatAssumption DEF Unclaimed
<1> QED
  BY <1>1, <1>2, ChatAssumption DEF EnvRows, Envelopes!NeverShutEarly

-----------------------------------------------------------------------------
(* Session payments: the inductive invariant.                              *)

PayRecords ==
  [op : {"none", "split", "request", "yield", "revoke"},
   at : {"idle", "expire", "nonce", "policy", "grant", "sent", "landed", "confirmed",
         "collect", "status", "uncache"},
   payer : Payers, nonce : Nat, all : BOOLEAN]
PayTransactions == [payer : Payers, op : Payments!Purposes, nonce : Nat]

PayShapes ==
  /\ story \in Stories
  /\ split \in [status : {"PENDING", "PARTIAL", "COMPLETED", "EXPIRED"}, collected : Nat]
  /\ hasPaid \subseteq Payers
  /\ request \in {"PENDING", "PAID", "CANCELLED"}
  /\ yieldRows \in [Payers -> Nat]
  /\ keyRow \in [Payers -> {"ACTIVE", "INACTIVE", "REVOKED"}]
  /\ cached \subseteq Payers /\ uncleared \subseteq Payers /\ granted \subseteq Payers
  /\ spent \in [Payers -> Nat]
  /\ spendRows \in [Payers -> Nat] /\ forgotten \in [Payers -> Int]
  /\ payHandler \in [Handlers -> PayRecords]
  /\ payOrphans \subseteq PayTransactions /\ IsFiniteSet(payOrphans)
  /\ moved \in [Payers -> [Payments!Purposes -> Nat]]

\* What a request has behind it.
PayHolds(r) ==
  /\ r.at \in {"nonce", "policy", "grant", "sent", "landed", "confirmed"} =>
       r.op \in Payments!Purposes
  /\ r.at \in {"collect", "status"} => r.op = "split"
  /\ r.op = "request" => r.payer = Debtor
  /\ r.at \in {"landed", "confirmed", "collect"} => moved[r.payer][r.op] > 0
  /\ r.at = "status" /\ r.all => hasPaid = Payers

\* A request that may still move a unit; one whose unit is not recorded.
Moves(r, p) == r.at \in {"grant", "sent"} /\ r.payer = p
Yields(r, p) == r.op = "yield" /\ r.at \in {"landed", "confirmed"} /\ r.payer = p
Collects(r) == r.op = "split" /\ r.at \in {"landed", "confirmed", "collect"}

Moving(p) == {h \in Handlers : Moves(payHandler[h], p)}
Yielding(p) == {h \in Handlers : Yields(payHandler[h], p)}
Collecting == {h \in Handlers : Collects(payHandler[h])}
PaidBy(U, p) == {tx \in U : tx.payer = p}
Abandoned(p) == PaidBy(payOrphans, p)

SplitMoved == [p \in Payers |-> moved[p]["split"]]

\* The counter, with what restarts dropped from it, covers everything that
\* landed or may still land.
PayCounters ==
  \A p \in Payers :
    /\ Payments!Landed(p) + Cardinality(Moving(p)) + Cardinality(Abandoned(p))
         <= spent[p] + forgotten[p]
    /\ yieldRows[p] + Cardinality(Yielding(p)) <= moved[p]["yield"]

PayCollected == split.collected + Cardinality(Collecting) <= SumOf(SplitMoved, Payers)

PayRows ==
  /\ \A p \in hasPaid : moved[p]["split"] > 0
  /\ request = "PAID" => moved[Debtor]["request"] > 0
  /\ split.status = "COMPLETED" => hasPaid = Payers

PayInv ==
  /\ PayShapes /\ PayCounters /\ PayCollected /\ PayRows
  /\ Payments!RevokedKeysAreNotCached
  /\ \A h \in Handlers : PayHolds(payHandler[h])

-----------------------------------------------------------------------------
(* Session payments: counting.                                             *)

Weight(b) == IF b THEN 1 ELSE 0

\* Two sets of requests that differ in one of them at most.
LEMMA CountMove ==
  ASSUME NEW A \in SUBSET Handlers, NEW B \in SUBSET Handlers, NEW h \in Handlers,
         \A g \in Handlers : g # h => (g \in A <=> g \in B)
  PROVE  /\ Cardinality(A) \in Nat /\ Cardinality(B) \in Nat
         /\ Cardinality(B) = Cardinality(A) - Weight(h \in A) + Weight(h \in B)
<1> DEFINE C == A \ {h}
<1>1. IsFiniteSet(A) /\ IsFiniteSet(B) /\ IsFiniteSet(C)
  BY ChatAssumption, FS_Subset
<1>2. Cardinality(A) \in Nat /\ Cardinality(B) \in Nat /\ Cardinality(C) \in Nat
  BY <1>1, FS_CardinalityType
<1>3. h \notin C /\ (h \in A => A = C \cup {h}) /\ (h \notin A => A = C)
  OBVIOUS
<1>4. (h \in B => B = C \cup {h}) /\ (h \notin B => B = C)
  OBVIOUS
<1>5. Cardinality(C \cup {h}) = Cardinality(C) + 1
  BY <1>1, <1>3, FS_AddElement
<1>6. Cardinality(A) = Cardinality(C) + Weight(h \in A)
  BY <1>2, <1>3, <1>5 DEF Weight
<1>7. Cardinality(B) = Cardinality(C) + Weight(h \in B)
  BY <1>2, <1>4, <1>5 DEF Weight
<1>8. Weight(h \in A) \in Int /\ Weight(h \in B) \in Int
  BY DEF Weight
<1> HIDE DEF C
<1> QED
  BY <1>2, <1>6, <1>7, <1>8

LEMMA NoneCounted == Cardinality({}) = 0
BY FS_EmptySet

\* One request moves: how the counts follow it.
LEMMA PayCount ==
  ASSUME payHandler \in [Handlers -> PayRecords], NEW h \in Handlers, NEW r \in PayRecords,
         payHandler' = [payHandler EXCEPT ![h] = r]
  PROVE  /\ \A p \in Payers :
              /\ Cardinality(Moving(p)) \in Nat
              /\ Cardinality(Yielding(p)) \in Nat
              /\ Cardinality(Moving(p))' \in Nat
              /\ Cardinality(Moving(p))' = Cardinality(Moving(p))
                   - Weight(Moves(payHandler[h], p)) + Weight(Moves(r, p))
              /\ Cardinality(Yielding(p))' \in Nat
              /\ Cardinality(Yielding(p))' = Cardinality(Yielding(p))
                   - Weight(Yields(payHandler[h], p)) + Weight(Yields(r, p))
         /\ Cardinality(Collecting) \in Nat /\ Cardinality(Collecting)' \in Nat
         /\ Cardinality(Collecting)' = Cardinality(Collecting)
              - Weight(Collects(payHandler[h])) + Weight(Collects(r))
<1>1. payHandler'[h] = r /\ \A g \in Handlers : g # h => payHandler'[g] = payHandler[g]
  OBVIOUS
<1>2. ASSUME NEW p \in Payers
      PROVE  /\ Cardinality(Moving(p)) \in Nat
             /\ Cardinality(Moving(p))' \in Nat
             /\ Cardinality(Moving(p))' = Cardinality(Moving(p))
                  - Weight(Moves(payHandler[h], p)) + Weight(Moves(r, p))
  <2>1. /\ Moving(p) \in SUBSET Handlers /\ Moving(p)' \in SUBSET Handlers
        /\ \A g \in Handlers : g # h => (g \in Moving(p) <=> g \in Moving(p)')
        /\ (h \in Moving(p)) = Moves(payHandler[h], p)
        /\ (h \in Moving(p)') = Moves(r, p)
    BY <1>1 DEF Moving, Moves
  <2> QED
    BY <2>1, CountMove
<1>3. ASSUME NEW p \in Payers
      PROVE  /\ Cardinality(Yielding(p)) \in Nat
             /\ Cardinality(Yielding(p))' \in Nat
             /\ Cardinality(Yielding(p))' = Cardinality(Yielding(p))
                  - Weight(Yields(payHandler[h], p)) + Weight(Yields(r, p))
  <2>1. /\ Yielding(p) \in SUBSET Handlers /\ Yielding(p)' \in SUBSET Handlers
        /\ \A g \in Handlers : g # h => (g \in Yielding(p) <=> g \in Yielding(p)')
        /\ (h \in Yielding(p)) = Yields(payHandler[h], p)
        /\ (h \in Yielding(p)') = Yields(r, p)
    BY <1>1 DEF Yielding, Yields
  <2> QED
    BY <2>1, CountMove
<1>4. /\ Cardinality(Collecting) \in Nat /\ Cardinality(Collecting)' \in Nat
      /\ Cardinality(Collecting)' = Cardinality(Collecting)
           - Weight(Collects(payHandler[h])) + Weight(Collects(r))
  <2>1. /\ Collecting \in SUBSET Handlers /\ Collecting' \in SUBSET Handlers
        /\ \A g \in Handlers : g # h => (g \in Collecting <=> g \in Collecting')
        /\ (h \in Collecting) = Collects(payHandler[h])
        /\ (h \in Collecting') = Collects(r)
    BY <1>1 DEF Collecting, Collects
  <2> QED
    BY <2>1, CountMove
<1> QED
  BY <1>2, <1>3, <1>4

\* Abandoned transactions come and go one at a time.
LEMMA AbandonedMore ==
  ASSUME NEW S, IsFiniteSet(S), NEW t, NEW p
  PROVE  /\ IsFiniteSet(S \cup {t}) /\ Cardinality(PaidBy(S \cup {t}, p)) \in Nat
         /\ Cardinality(PaidBy(S \cup {t}, p)) <= Cardinality(PaidBy(S, p)) + Weight(t.payer = p)
<1> DEFINE T == S \cup {t}
<1>1. IsFiniteSet(T) /\ IsFiniteSet(PaidBy(S, p)) /\ IsFiniteSet(PaidBy(T, p))
  BY FS_AddElement, FS_Subset DEF PaidBy
<1>2. Cardinality(PaidBy(S, p)) \in Nat /\ Cardinality(PaidBy(T, p)) \in Nat
  BY <1>1, FS_CardinalityType
<1>3. CASE t.payer = p
  <2>1. PaidBy(T, p) = PaidBy(S, p) \cup {t}
    BY <1>3 DEF PaidBy
  <2>2. \/ Cardinality(PaidBy(T, p)) = Cardinality(PaidBy(S, p))
        \/ Cardinality(PaidBy(T, p)) = Cardinality(PaidBy(S, p)) + 1
    BY <1>1, <2>1, FS_AddElement
  <2> QED
    BY <1>1, <1>2, <1>3, <2>2 DEF Weight
<1>4. CASE t.payer # p
  <2>1. PaidBy(T, p) = PaidBy(S, p) /\ Weight(t.payer = p) = 0
    BY <1>4 DEF PaidBy, Weight
  <2> QED
    BY <1>1, <1>2, <2>1
<1> QED
  BY <1>3, <1>4

LEMMA AbandonedLess ==
  ASSUME NEW S, IsFiniteSet(S), NEW t \in S, NEW p
  PROVE  /\ IsFiniteSet(S \ {t})
         /\ Cardinality(PaidBy(S, p)) \in Nat /\ Cardinality(PaidBy(S \ {t}, p)) \in Nat
         /\ Cardinality(PaidBy(S \ {t}, p)) = Cardinality(PaidBy(S, p)) - Weight(t.payer = p)
<1> DEFINE T == S \ {t}
<1>1. IsFiniteSet(T) /\ IsFiniteSet(PaidBy(S, p)) /\ IsFiniteSet(PaidBy(T, p))
  BY FS_RemoveElement, FS_Subset DEF PaidBy
<1>2. Cardinality(PaidBy(S, p)) \in Nat /\ Cardinality(PaidBy(T, p)) \in Nat
  BY <1>1, FS_CardinalityType
<1>3. CASE t.payer = p
  <2>1. PaidBy(T, p) = PaidBy(S, p) \ {t} /\ t \in PaidBy(S, p)
    BY <1>3 DEF PaidBy
  <2>2. Cardinality(PaidBy(T, p)) = Cardinality(PaidBy(S, p)) - 1
    BY <1>1, <2>1, FS_RemoveElement
  <2> QED
    BY <1>1, <1>2, <1>3, <2>2 DEF Weight
<1>4. CASE t.payer # p
  <2>1. PaidBy(T, p) = PaidBy(S, p) /\ Weight(t.payer = p) = 0
    BY <1>4 DEF PaidBy, Weight
  <2> QED
    BY <1>1, <1>2, <2>1
<1> QED
  BY <1>3, <1>4

-----------------------------------------------------------------------------
(* Session payments: the proof.                                            *)

Splits == [status : {"PENDING", "PARTIAL", "COMPLETED", "EXPIRED"}, collected : Nat]

LEMMA PurposeNames == Payments!Purposes = {"split", "request", "yield"}
BY DEF Payments!Purposes

LEMMA PayIdle ==
  /\ Payments!Idle \in PayRecords
  /\ Payments!Idle.at = "idle" /\ Payments!Idle.op = "none" /\ Payments!Idle.payer = Debtor
  /\ \A p \in Payers :
       ~Moves(Payments!Idle, p) /\ ~Yields(Payments!Idle, p)
  /\ ~Collects(Payments!Idle)
<1>1. /\ Payments!Idle \in PayRecords
      /\ Payments!Idle.at = "idle" /\ Payments!Idle.op = "none" /\ Payments!Idle.payer = Debtor
  BY ChatAssumption DEF Payments!Idle, PayRecords
<1> QED
  BY <1>1 DEF Moves, Yields, Collects

LEMMA PayIdleHolds == PayHolds(Payments!Idle)
BY PayIdle DEF PayHolds

\* The sums and the counts are numbers.
LEMMA PayNumbers ==
  ASSUME PayShapes
  PROVE  /\ \A p \in Payers :
              /\ Cardinality(Moving(p)) \in Nat
              /\ Cardinality(Yielding(p)) \in Nat /\ Cardinality(Abandoned(p)) \in Nat
              /\ Payments!Landed(p) \in Nat
              /\ \A o \in Payments!Purposes : moved[p][o] \in Nat
              /\ spent[p] \in Nat /\ spendRows[p] \in Nat /\ forgotten[p] \in Int
              /\ yieldRows[p] \in Nat
         /\ Cardinality(Collecting) \in Nat /\ split.collected \in Nat
         /\ \A p \in Payers : SplitMoved[p] \in Nat /\ SplitMoved[p] \in Int
         /\ SumOf(SplitMoved, Payers) \in Nat
<1>1. ASSUME NEW p \in Payers
      PROVE  /\ Cardinality(Moving(p)) \in Nat
             /\ Cardinality(Yielding(p)) \in Nat /\ Cardinality(Abandoned(p)) \in Nat
  <2>1. /\ IsFiniteSet(Moving(p))
        /\ IsFiniteSet(Yielding(p)) /\ IsFiniteSet(Abandoned(p))
    BY ChatAssumption, FS_Subset DEF Moving, Yielding, Abandoned, PaidBy, PayShapes
  <2> QED
    BY <2>1, FS_CardinalityType
<1>2. ASSUME NEW p \in Payers
      PROVE  /\ Payments!Landed(p) \in Nat /\ \A o \in Payments!Purposes : moved[p][o] \in Nat
             /\ SplitMoved[p] \in Nat /\ SplitMoved[p] \in Int
  <2>1. moved[p]["split"] \in Nat /\ moved[p]["request"] \in Nat /\ moved[p]["yield"] \in Nat
    BY PurposeNames DEF PayShapes
  <2> QED
    BY <2>1, PurposeNames DEF Payments!Landed, Payments!VaultNonce, SplitMoved
<1>3. ASSUME NEW p \in Payers
      PROVE  /\ spent[p] \in Nat /\ spendRows[p] \in Nat /\ forgotten[p] \in Int
             /\ yieldRows[p] \in Nat
  BY DEF PayShapes
<1>4. Cardinality(Collecting) \in Nat
  BY ChatAssumption, FS_Subset, FS_CardinalityType DEF Collecting
<1>5. SumOf(SplitMoved, Payers) \in Nat
  <2>1. \A p \in Payers : SplitMoved[p] \in Nat /\ SplitMoved[p] \in Int
    BY <1>2
  <2> HIDE DEF SplitMoved
  <2> QED
    BY <2>1, ChatAssumption, SumType
<1>6. split.collected \in Nat
  BY DEF PayShapes
<1> QED
  BY <1>1, <1>2, <1>3, <1>4, <1>5, <1>6

\* The same of the state after a step.
PayNumeric ==
  /\ \A p \in Payers :
       /\ Cardinality(Abandoned(p)) \in Nat
       /\ Payments!Landed(p) \in Nat /\ moved[p]["yield"] \in Nat
       /\ spent[p] \in Nat /\ spendRows[p] \in Nat /\ forgotten[p] \in Int
       /\ yieldRows[p] \in Nat
  /\ split.collected \in Nat /\ SumOf(SplitMoved, Payers) \in Nat

LEMMA PayShapesNumeric == PayShapes => PayNumeric
BY PayNumbers, PurposeNames DEF PayNumeric

LEMMA PayNumbersNext == PayShapes' => PayNumeric'
BY PayShapesNumeric, PTL

LEMMA PayInit == Payments!Init => PayInv
<1> SUFFICES ASSUME Payments!Init PROVE PayInv
  OBVIOUS
<1>1. /\ payHandler \in [Handlers -> PayRecords]
      /\ \A h \in Handlers : payHandler[h] = Payments!Idle
  BY PayIdle DEF Payments!Init
<1>3. spent \in [Payers -> Nat]
  BY DEF Payments!Init
<1>4. split \in Splits /\ split.collected = 0 /\ split.status = "PENDING"
  BY DEF Payments!Init, Splits
<1>5. PayShapes
  BY <1>1, <1>3, <1>4, FS_EmptySet DEF Payments!Init, PayShapes, Splits
<1>6. /\ \A p \in Payers : /\ Moving(p) = {} /\ Yielding(p) = {}
                           /\ Abandoned(p) = {}
      /\ Collecting = {}
  BY <1>1, PayIdle DEF Moving, Yielding, Abandoned, PaidBy, Collecting, Payments!Init
<1>7. /\ \A p \in Payers : /\ Cardinality(Moving(p)) = 0
                           /\ Cardinality(Yielding(p)) = 0 /\ Cardinality(Abandoned(p)) = 0
      /\ Cardinality(Collecting) = 0
  BY <1>6, NoneCounted
<1>8. \A p \in Payers :
        /\ Payments!Landed(p) = 0 /\ moved[p]["yield"] = 0
        /\ spent[p] = 0 /\ spendRows[p] = 0 /\ forgotten[p] = 0 /\ yieldRows[p] = 0
  BY DEF Payments!Init, Payments!Landed, Payments!VaultNonce, Payments!Purposes
<1>9. PayCounters
  BY <1>7, <1>8 DEF PayCounters
<1>10. PayCollected
  BY <1>4, <1>5, <1>7, PayNumbers DEF PayCollected
<1>11. \A h \in Handlers : PayHolds(payHandler[h])
  BY <1>1, PayIdleHolds
<1>12. PayRows /\ Payments!RevokedKeysAreNotCached
  BY <1>4 DEF Payments!Init, PayRows, Payments!RevokedKeysAreNotCached
<1> QED
  BY <1>5, <1>9, <1>10, <1>11, <1>12 DEF PayInv

\* The cache only shrinks, no failed removal of what stays in it is forgotten,
\* no key is revoked, and no revocation ends.
LEMMA KeysKept ==
  ASSUME PayInv, cached' \subseteq cached,
         \A p \in cached' : p \in uncleared => p \in uncleared',
         \A p \in Payers : keyRow'[p] = "REVOKED" => keyRow[p] = "REVOKED",
         \A g \in Handlers : payHandler[g].at = "uncache" => payHandler'[g] = payHandler[g]
  PROVE  Payments!RevokedKeysAreNotCached'
BY DEF PayInv, PayShapes, Payments!RevokedKeysAreNotCached, Payments!At

\* A request moves on, and what counts it counts it no longer or as before.
LEMMA PayMove ==
  ASSUME PayInv, NEW h \in Handlers, NEW r \in PayRecords,
         payHandler' = [payHandler EXCEPT ![h] = r],
         \A p \in Payers : /\ Moves(r, p) => Moves(payHandler[h], p)
                           /\ Yields(r, p) => Yields(payHandler[h], p),
         Collects(r) => Collects(payHandler[h]),
         PayHolds(r)',
         UNCHANGED <<story, yieldRows, spent, spendRows, forgotten, payOrphans, moved, granted>>,
         split' \in Splits, split'.collected = split.collected,
         hasPaid \subseteq hasPaid', hasPaid' \subseteq Payers,
         request' \in {"PENDING", "PAID", "CANCELLED"},
         keyRow' \in [Payers -> {"ACTIVE", "INACTIVE", "REVOKED"}], cached' \subseteq Payers /\ uncleared' \subseteq Payers,
         PayRows', Payments!RevokedKeysAreNotCached'
  PROVE  PayInv'
<1>1. payHandler'[h] = r /\ \A g \in Handlers : g # h => payHandler'[g] = payHandler[g]
  BY DEF PayInv, PayShapes
<1>2. PayShapes'
  BY DEF PayInv, PayShapes, Splits
<1>3. payHandler \in [Handlers -> PayRecords] /\ PayShapes /\ PayCounters /\ PayCollected
  BY DEF PayInv, PayShapes
<1>4. /\ \A p \in Payers : /\ Cardinality(Moving(p))' <= Cardinality(Moving(p))
                           /\ Cardinality(Yielding(p))' <= Cardinality(Yielding(p))
      /\ Cardinality(Collecting)' <= Cardinality(Collecting)
  <2>1. ASSUME NEW p \in Payers
        PROVE  /\ Weight(Moves(r, p)) <= Weight(Moves(payHandler[h], p))
               /\ Weight(Yields(r, p)) <= Weight(Yields(payHandler[h], p))
    BY DEF Weight
  <2>2. Weight(Collects(r)) <= Weight(Collects(payHandler[h]))
    BY DEF Weight
  <2>3. Weight(Collects(r)) \in Int /\ Weight(Collects(payHandler[h])) \in Int
    BY DEF Weight
  <2>4. ASSUME NEW p \in Payers
        PROVE  /\ Weight(Moves(r, p)) \in Int /\ Weight(Moves(payHandler[h], p)) \in Int
               /\ Weight(Yields(r, p)) \in Int /\ Weight(Yields(payHandler[h], p)) \in Int
    BY DEF Weight
  <2>5. Cardinality(Collecting)' <= Cardinality(Collecting)
    <3>1. /\ Cardinality(Collecting) \in Nat /\ Cardinality(Collecting)' \in Nat
          /\ Cardinality(Collecting)' = Cardinality(Collecting)
               - Weight(Collects(payHandler[h])) + Weight(Collects(r))
      BY <1>3, PayCount
    <3> QED
      BY <2>2, <2>3, <3>1
  <2>6. ASSUME NEW p \in Payers
        PROVE  /\ Cardinality(Moving(p))' <= Cardinality(Moving(p))
               /\ Cardinality(Yielding(p))' <= Cardinality(Yielding(p))
    <3>1. /\ Cardinality(Moving(p)) \in Nat
          /\ Cardinality(Yielding(p)) \in Nat
          /\ Cardinality(Moving(p))' = Cardinality(Moving(p))
               - Weight(Moves(payHandler[h], p)) + Weight(Moves(r, p))
          /\ Cardinality(Yielding(p))' = Cardinality(Yielding(p))
               - Weight(Yields(payHandler[h], p)) + Weight(Yields(r, p))
      BY <1>3, PayCount
    <3> QED
      BY <2>1, <2>4, <3>1
  <2> QED
    BY <2>5, <2>6
<1>5. PayCounters'
  <2>1. ASSUME NEW p \in Payers
        PROVE  Payments!Landed(p)' = Payments!Landed(p) /\ Abandoned(p)' = Abandoned(p)
    BY DEF Payments!Landed, Payments!VaultNonce, Abandoned
  <2>2. \A p \in Payers : /\ Cardinality(Moving(p))' \in Nat
                          /\ Cardinality(Yielding(p))' \in Nat
    BY <1>3, PayCount
  <2>3. ASSUME NEW p \in Payers
        PROVE  /\ Payments!Landed(p) + Cardinality(Moving(p))' + Cardinality(Abandoned(p))
                    <= spent[p] + forgotten[p]
               /\ yieldRows[p] + Cardinality(Yielding(p))' <= moved[p]["yield"]
    BY <1>3, <1>4, <2>2, PayNumbers, PurposeNames DEF PayCounters
  <2> QED
    BY <2>1, <2>3 DEF PayCounters
<1>6. PayCollected'
  <2>1. SplitMoved' = SplitMoved
    BY DEF SplitMoved
  <2>2. Cardinality(Collecting)' \in Nat
    BY <1>3, PayCount
  <2> QED
    BY <1>3, <1>4, <2>1, <2>2, PayNumbers DEF PayCollected
<1>7. ASSUME NEW g \in Handlers, g # h PROVE PayHolds(payHandler[g])'
  BY <1>1, <1>7 DEF PayInv, PayHolds
<1>8. PayHolds(payHandler[h])'
  BY <1>1 DEF PayHolds
<1> QED
  BY <1>2, <1>5, <1>6, <1>7, <1>8 DEF PayInv

\* A request that no count counts.
Weightless(r) ==
  /\ \A p \in Payers : ~Moves(r, p) /\ ~Yields(r, p)
  /\ ~Collects(r)

LEMMA PayEarly ==
  ASSUME NEW r, r.at \in {"idle", "expire", "nonce", "policy", "status", "uncache"}
  PROVE  Weightless(r)
BY DEF Weightless, Moves, Yields, Collects

\* The requests that read, check and give up before anything is reserved.
LEMMA PayReads ==
  ASSUME PayInv, NEW h \in Handlers,
         \/ \E p \in Payers : Payments!BeginSplit(h, p) \/ Payments!BeginYield(h, p)
         \/ Payments!BeginRequest(h)
         \/ \E answered \in BOOLEAN : Payments!ReadNonce(h, answered)
         \/ Payments!RefuseReserve(h) /\ UNCHANGED spent
         \/ Payments!CheckGrant(h)
  PROVE  PayInv'
<1> DEFINE q == payHandler[h]
<1>1. q \in PayRecords /\ PayHolds(q) /\ payHandler \in [Handlers -> PayRecords]
  BY DEF PayInv, PayShapes
<1>2. ASSUME NEW r \in PayRecords, payHandler' = [payHandler EXCEPT ![h] = r],
             \/ Weightless(r)
             \/ q.at = "grant" /\ r.at = "sent" /\ r.payer = q.payer,
             PayHolds(r), q.at # "uncache",
             UNCHANGED <<story, split, hasPaid, request, yieldRows, keyRow, cached, uncleared, spent,
                         spendRows, forgotten, payOrphans, moved, granted>>
      PROVE  PayInv'
  <2>1. /\ \A p \in Payers : /\ Moves(r, p) => Moves(q, p)
                             /\ Yields(r, p) => Yields(q, p)
        /\ Collects(r) => Collects(q)
    BY <1>2 DEF Weightless, Moves, Yields, Collects
  <2>2. Payments!RevokedKeysAreNotCached'
    <3>1. \A g \in Handlers : payHandler[g].at = "uncache" => payHandler'[g] = payHandler[g]
      BY <1>1, <1>2
    <3> QED
      BY <1>2, <3>1, KeysKept
  <2>3. PayRows' /\ PayHolds(r)'
    BY <1>2 DEF PayInv, PayRows, PayHolds
  <2>4. /\ split' \in Splits /\ split'.collected = split.collected
        /\ hasPaid \subseteq hasPaid' /\ hasPaid' \subseteq Payers
        /\ request' \in {"PENDING", "PAID", "CANCELLED"}
        /\ keyRow' \in [Payers -> {"ACTIVE", "INACTIVE", "REVOKED"}] /\ cached' \subseteq Payers /\ uncleared' \subseteq Payers
    BY <1>2 DEF PayInv, PayShapes, Splits
  <2>5. UNCHANGED <<story, yieldRows, spent, spendRows, forgotten, payOrphans, moved, granted>>
    BY <1>2
  <2>6. payHandler' = [payHandler EXCEPT ![h] = r]
    BY <1>2
  <2> QED
    BY <2>1, <2>2, <2>3, <2>4, <2>5, <2>6, PayMove
<1>3. ASSUME NEW p \in Payers, Payments!BeginSplit(h, p) PROVE PayInv'
  <2> DEFINE place == IF overdue THEN "expire" ELSE "nonce"
             m == [Payments!Idle EXCEPT !.op = "split", !.payer = p, !.at = place]
  <2>1. /\ payHandler' = [payHandler EXCEPT ![h] = m] /\ q = Payments!Idle
        /\ UNCHANGED <<story, split, hasPaid, request, yieldRows, keyRow, cached, uncleared, spent,
                       spendRows, forgotten, payOrphans, moved, granted>>
    BY <1>3 DEF Payments!BeginSplit, Payments!rows, Payments!keys, Payments!chain
  <2>2. place \in {"expire", "nonce"}
    OBVIOUS
  <2> HIDE DEF place
  <2>3. m \in PayRecords /\ m.op = "split" /\ m.at = place
    BY <2>2, PayIdle DEF PayRecords
  <2> HIDE DEF m
  <2>4. PayHolds(m) /\ Weightless(m)
    BY <2>2, <2>3, PurposeNames, PayEarly DEF PayHolds
  <2> QED
    BY <1>2, <2>1, <2>3, <2>4, PayIdle
<1>4. ASSUME NEW p \in Payers, Payments!BeginYield(h, p) PROVE PayInv'
  <2> DEFINE m == [Payments!Idle EXCEPT !.op = "yield", !.payer = p, !.at = "nonce"]
  <2>1. /\ payHandler' = [payHandler EXCEPT ![h] = m] /\ q = Payments!Idle
        /\ UNCHANGED <<story, split, hasPaid, request, yieldRows, keyRow, cached, uncleared, spent,
                       spendRows, forgotten, payOrphans, moved, granted>>
    BY <1>4 DEF Payments!BeginYield, Payments!rows, Payments!keys, Payments!chain
  <2>2. m \in PayRecords /\ m.op = "yield" /\ m.at = "nonce"
    BY PayIdle DEF PayRecords
  <2> HIDE DEF m
  <2>3. PayHolds(m) /\ Weightless(m)
    BY <2>2, PurposeNames, PayEarly DEF PayHolds
  <2> QED
    BY <1>2, <2>1, <2>2, <2>3, PayIdle
<1>5. CASE Payments!BeginRequest(h)
  <2> DEFINE m == [Payments!Idle EXCEPT !.op = "request", !.at = "nonce"]
  <2>1. /\ payHandler' = [payHandler EXCEPT ![h] = m] /\ q = Payments!Idle
        /\ UNCHANGED <<story, split, hasPaid, request, yieldRows, keyRow, cached, uncleared, spent,
                       spendRows, forgotten, payOrphans, moved, granted>>
    BY <1>5 DEF Payments!BeginRequest, Payments!rows, Payments!keys, Payments!chain
  <2>2. m \in PayRecords /\ m.op = "request" /\ m.at = "nonce" /\ m.payer = Debtor
    BY PayIdle DEF PayRecords
  <2> HIDE DEF m
  <2>3. PayHolds(m) /\ Weightless(m)
    BY <2>2, PurposeNames, PayEarly DEF PayHolds
  <2> QED
    BY <1>2, <2>1, <2>2, <2>3, PayIdle
<1>6. ASSUME NEW answered \in BOOLEAN, Payments!ReadNonce(h, answered) PROVE PayInv'
  <2> DEFINE n == IF answered THEN Payments!VaultNonce(q.payer) ELSE 0
             m == [q EXCEPT !.at = "policy", !.nonce = n]
  <2>1. /\ payHandler' = [payHandler EXCEPT ![h] = m] /\ q.at = "nonce"
        /\ UNCHANGED <<story, split, hasPaid, request, yieldRows, keyRow, cached, uncleared, spent,
                       spendRows, forgotten, payOrphans, moved, granted>>
    BY <1>1, <1>6 DEF Payments!ReadNonce, Payments!At, Payments!rows, Payments!keys, Payments!chain
  <2>2. n \in Nat
    <3>1. q.payer \in Payers
      BY <1>1 DEF PayRecords
    <3>2. Payments!VaultNonce(q.payer) \in Nat
      BY <3>1, PayNumbers DEF PayInv, Payments!Landed
    <3> QED
      BY <3>2
  <2> HIDE DEF n
  <2>3. m \in PayRecords /\ m.op = q.op /\ m.at = "policy" /\ m.payer = q.payer
    BY <1>1, <2>2 DEF PayRecords
  <2> HIDE DEF m
  <2>4. PayHolds(m) /\ Weightless(m)
    BY <1>1, <2>1, <2>3, PayEarly DEF PayHolds
  <2> QED
    BY <1>2, <2>1, <2>3, <2>4
<1>7. CASE Payments!RefuseReserve(h) /\ UNCHANGED spent
  <2>1. /\ payHandler' = [payHandler EXCEPT ![h] = Payments!Idle] /\ q.at = "policy"
        /\ UNCHANGED <<story, split, hasPaid, request, yieldRows, keyRow, cached, uncleared, spent,
                       spendRows, forgotten, payOrphans, moved, granted>>
    BY <1>7 DEF Payments!RefuseReserve, Payments!At, Payments!Return, Payments!rows, Payments!chain
  <2>2. PayHolds(Payments!Idle) /\ Weightless(Payments!Idle)
    BY PayIdle, PayIdleHolds DEF Weightless
  <2> QED
    BY <1>2, <2>1, <2>2, PayIdle
<1>8. CASE Payments!CheckGrant(h)
  <2> DEFINE m == [q EXCEPT !.at = "sent"]
  <2>1. /\ payHandler' = [payHandler EXCEPT ![h] = m] /\ q.at = "grant"
        /\ UNCHANGED <<story, split, hasPaid, request, yieldRows, keyRow, cached, uncleared, spent,
                       spendRows, forgotten, payOrphans, moved, granted>>
    BY <1>1, <1>8 DEF Payments!CheckGrant, Payments!At, Payments!Goto, Payments!rows,
                      Payments!keys, Payments!chain
  <2>2. m \in PayRecords /\ m.op = q.op /\ m.at = "sent" /\ m.payer = q.payer
    BY <1>1 DEF PayRecords
  <2> HIDE DEF m
  <2>3. PayHolds(m)
    BY <1>1, <2>1, <2>2 DEF PayHolds
  <2> QED
    BY <1>2, <2>1, <2>2, <2>3
<1> QED
  BY <1>3, <1>4, <1>5, <1>6, <1>7, <1>8

\* The requests that write a row or the cache, and no counter.
LEMMA PayWrites ==
  ASSUME PayInv, NEW h \in Handlers,
         \/ Payments!ExpireSplit(h) \/ Payments!SplitStatus(h) \/ Payments!MarkPaid(h)
         \/ \E persisted \in BOOLEAN : Payments!RecordRequest(h, persisted)
         \/ \E cleared, removed \in BOOLEAN : Payments!RefuseGrant(h, cleared, removed)
         \/ \E removed \in BOOLEAN : Payments!Uncache(h, removed)
         \/ \E p \in Payers : Payments!RevokeRow(h, p)
  PROVE  PayInv'
<1> DEFINE q == payHandler[h]
<1>1. q \in PayRecords /\ PayHolds(q) /\ payHandler \in [Handlers -> PayRecords] /\ q.payer \in Payers
  BY DEF PayInv, PayShapes, PayRecords
<1>2. /\ split \in Splits /\ hasPaid \subseteq Payers /\ request \in {"PENDING", "PAID", "CANCELLED"}
      /\ keyRow \in [Payers -> {"ACTIVE", "INACTIVE", "REVOKED"}] /\ cached \subseteq Payers
      /\ uncleared \subseteq Payers
  BY DEF PayInv, PayShapes, Splits
<1>3. PayRows
  BY DEF PayInv
<1>4. \A g \in Handlers, r \in PayRecords :
        payHandler' = [payHandler EXCEPT ![h] = r] /\ g # h => payHandler'[g] = payHandler[g]
  BY <1>1
<1>5. /\ \A p \in Payers : ~Moves(Payments!Idle, p)
                           /\ ~Yields(Payments!Idle, p)
      /\ ~Collects(Payments!Idle) /\ PayHolds(Payments!Idle)' /\ Payments!Idle \in PayRecords
  BY PayIdle DEF PayHolds
<1>6. ASSUME NEW x \in {"EXPIRED", "COMPLETED", "PARTIAL"},
             payHandler' = [payHandler EXCEPT ![h] = Payments!Idle],
             split' = [split EXCEPT !.status = x],
             q.at \in {"expire", "status"}, x = "COMPLETED" => q.at = "status" /\ q.all,
             UNCHANGED <<story, hasPaid, request, yieldRows, keyRow, cached, uncleared, spent,
                         spendRows, forgotten, payOrphans, moved, granted>>
      PROVE  PayInv'
  <2>1. /\ payHandler' = [payHandler EXCEPT ![h] = Payments!Idle]
        /\ split' = [split EXCEPT !.status = x]
        /\ q.at \in {"expire", "status"}
        /\ UNCHANGED <<story, hasPaid, request, yieldRows, keyRow, cached, uncleared, spent,
                       spendRows, forgotten, payOrphans, moved, granted>>
    BY <1>6
  <2>2. x \in {"EXPIRED", "COMPLETED", "PARTIAL"} /\ (x = "COMPLETED" => q.at = "status" /\ q.all)
    BY <1>6
  <2>3. split' \in Splits /\ split'.collected = split.collected /\ split'.status = x
    BY <1>2, <2>1, <2>2 DEF Splits
  <2>4. PayRows'
    BY <1>1, <1>3, <2>1, <2>2, <2>3 DEF PayRows, PayHolds
  <2>5. Payments!RevokedKeysAreNotCached'
    BY <1>4, <1>5, <2>1, KeysKept
  <2>6. /\ UNCHANGED <<story, yieldRows, spent, spendRows, forgotten, payOrphans, moved, granted>>
        /\ hasPaid \subseteq hasPaid' /\ hasPaid' \subseteq Payers
        /\ request' \in {"PENDING", "PAID", "CANCELLED"}
        /\ keyRow' \in [Payers -> {"ACTIVE", "INACTIVE", "REVOKED"}] /\ cached' \subseteq Payers /\ uncleared' \subseteq Payers
    BY <1>2, <2>1
  <2> QED
    BY <1>5, <2>1, <2>3, <2>4, <2>5, <2>6, PayMove
<1>7. CASE Payments!MarkPaid(h)
  <2> DEFINE m == [q EXCEPT !.at = "collect"]
  <2>1. /\ payHandler' = [payHandler EXCEPT ![h] = m]
        /\ q.at = "confirmed" /\ q.op = "split"
        /\ hasPaid' = hasPaid \cup {q.payer}
        /\ UNCHANGED <<story, split, request, yieldRows, keyRow, cached, uncleared, spent,
                       spendRows, forgotten, payOrphans, moved, granted>>
    BY <1>1, <1>7 DEF Payments!MarkPaid, Payments!At, Payments!Goto, Payments!keys, Payments!chain
  <2>2. m \in PayRecords /\ m.at = "collect" /\ m.op = "split" /\ m.payer = q.payer
    BY <1>1, <2>1 DEF PayRecords
  <2>3. PICK r \in PayRecords : r = m
    BY <2>2
  <2> HIDE DEF m
  <2>4. moved[q.payer]["split"] > 0
    BY <1>1, <2>1 DEF PayHolds
  <2>5. PayHolds(r)'
    BY <2>1, <2>2, <2>3, <2>4 DEF PayHolds
  <2>6. PayRows'
    BY <1>1, <1>3, <2>1, <2>4 DEF PayRows
  <2>7. Payments!RevokedKeysAreNotCached'
    BY <1>4, <2>1, <2>3, KeysKept
  <2>8. /\ \A p \in Payers : ~Moves(r, p) /\ ~Yields(r, p)
        /\ Collects(q)
    BY <2>1, <2>2, <2>3 DEF Moves, Yields, Collects
  <2>9. /\ UNCHANGED <<story, yieldRows, spent, spendRows, forgotten, payOrphans, moved, granted>>
        /\ split' \in Splits /\ split'.collected = split.collected
        /\ hasPaid \subseteq hasPaid' /\ hasPaid' \subseteq Payers
        /\ request' \in {"PENDING", "PAID", "CANCELLED"}
        /\ keyRow' \in [Payers -> {"ACTIVE", "INACTIVE", "REVOKED"}] /\ cached' \subseteq Payers /\ uncleared' \subseteq Payers
        /\ payHandler' = [payHandler EXCEPT ![h] = r]
    BY <1>1, <1>2, <2>1, <2>3
  <2> QED
    BY <2>5, <2>6, <2>7, <2>8, <2>9, PayMove
<1>8. ASSUME NEW persisted \in BOOLEAN, Payments!RecordRequest(h, persisted) PROVE PayInv'
  <2>1. /\ payHandler' = [payHandler EXCEPT ![h] = Payments!Idle]
        /\ q.at = "confirmed" /\ q.op = "request"
        /\ request' = request \/ request' = "PAID"
        /\ UNCHANGED <<story, split, hasPaid, yieldRows, keyRow, cached, uncleared, spent,
                       spendRows, forgotten, payOrphans, moved, granted>>
    BY <1>8 DEF Payments!RecordRequest, Payments!At, Payments!Return, Payments!keys, Payments!chain
  <2>2. moved[Debtor]["request"] > 0
    BY <1>1, <2>1 DEF PayHolds
  <2>3. PayRows'
    BY <1>3, <2>1, <2>2 DEF PayRows
  <2>4. Payments!RevokedKeysAreNotCached'
    BY <1>4, <1>5, <2>1, KeysKept
  <2>5. /\ UNCHANGED <<story, yieldRows, spent, spendRows, forgotten, payOrphans, moved, granted>>
        /\ split' \in Splits /\ split'.collected = split.collected
        /\ hasPaid \subseteq hasPaid' /\ hasPaid' \subseteq Payers
        /\ request' \in {"PENDING", "PAID", "CANCELLED"}
        /\ keyRow' \in [Payers -> {"ACTIVE", "INACTIVE", "REVOKED"}] /\ cached' \subseteq Payers /\ uncleared' \subseteq Payers
    BY <1>2, <2>1
  <2> QED
    BY <1>5, <2>1, <2>3, <2>4, <2>5, PayMove
<1>9. ASSUME NEW cleared \in BOOLEAN, NEW removed \in BOOLEAN,
             Payments!RefuseGrant(h, cleared, removed)
      PROVE  PayInv'
  <2>1. /\ payHandler' = [payHandler EXCEPT ![h] = Payments!Idle] /\ q.at = "grant"
        /\ \/ keyRow' = keyRow
           \/ keyRow' = [keyRow EXCEPT ![q.payer] = "INACTIVE"]
        /\ \/ UNCHANGED <<cached, uncleared>>
           \/ cached' = cached \ {q.payer} /\ uncleared' = uncleared \ {q.payer}
        /\ UNCHANGED <<story, split, hasPaid, request, yieldRows, spent,
                       spendRows, forgotten, payOrphans, moved, granted>>
    BY <1>9 DEF Payments!RefuseGrant, Payments!Remove, Payments!At, Payments!Return,
                Payments!rows, Payments!chain
  <2>2. /\ keyRow' \in [Payers -> {"ACTIVE", "INACTIVE", "REVOKED"}]
        /\ \A p \in Payers : keyRow'[p] = "REVOKED" => keyRow[p] = "REVOKED"
    BY <1>1, <1>2, <2>1
  <2>3. Payments!RevokedKeysAreNotCached'
    <3>1. \A g \in Handlers : payHandler[g].at = "uncache" => payHandler'[g] = payHandler[g]
      BY <1>4, <1>5, <2>1
    <3>2. cached' \subseteq cached /\ \A p \in cached' : p \in uncleared => p \in uncleared'
      BY <2>1
    <3> QED
      BY <2>2, <3>1, <3>2, KeysKept
  <2>4. PayRows'
    BY <1>3, <2>1 DEF PayRows
  <2>5. /\ UNCHANGED <<story, yieldRows, spent, spendRows, forgotten, payOrphans, moved, granted>>
        /\ split' \in Splits /\ split'.collected = split.collected
        /\ hasPaid \subseteq hasPaid' /\ hasPaid' \subseteq Payers
        /\ request' \in {"PENDING", "PAID", "CANCELLED"}
        /\ cached' \subseteq Payers /\ uncleared' \subseteq Payers
    BY <1>2, <2>1
  <2> QED
    BY <1>5, <2>1, <2>2, <2>3, <2>4, <2>5, PayMove
<1>11. ASSUME NEW removed \in BOOLEAN, Payments!Uncache(h, removed) PROVE PayInv'
  <2>1. /\ payHandler' = [payHandler EXCEPT ![h] = Payments!Idle] /\ q.at = "uncache"
        /\ \/ cached' = cached \ {q.payer} /\ uncleared' = uncleared \ {q.payer}
           \/ cached' = cached /\ uncleared' = uncleared \cup {q.payer}
        /\ UNCHANGED <<story, split, hasPaid, request, yieldRows, keyRow, spent,
                       spendRows, forgotten, payOrphans, moved, granted>>
    BY <1>11 DEF Payments!Uncache, Payments!Remove, Payments!At, Payments!Return,
                 Payments!rows, Payments!chain
  <2>2. Payments!RevokedKeysAreNotCached'
    <3>1. ASSUME NEW p \in cached', keyRow'[p] = "REVOKED"
          PROVE  p \in uncleared' \/ \E g \in Handlers : payHandler'[g].at = "uncache"
                                                        /\ payHandler'[g].payer = p
      <4>1. \/ p \in uncleared
            \/ \E g \in Handlers : payHandler[g].at = "uncache" /\ payHandler[g].payer = p
        BY <2>1, <3>1 DEF PayInv, Payments!RevokedKeysAreNotCached, Payments!At
      <4>2. CASE p = q.payer
        BY <2>1, <3>1, <4>2
      <4>3. CASE p # q.payer
        BY <1>4, <1>5, <2>1, <4>1, <4>3
      <4> QED
        BY <4>2, <4>3
    <3> QED
      BY <3>1 DEF Payments!RevokedKeysAreNotCached, Payments!At
  <2>3. PayRows'
    BY <1>3, <2>1 DEF PayRows
  <2>4. /\ UNCHANGED <<story, yieldRows, spent, spendRows, forgotten, payOrphans, moved, granted>>
        /\ split' \in Splits /\ split'.collected = split.collected
        /\ hasPaid \subseteq hasPaid' /\ hasPaid' \subseteq Payers
        /\ request' \in {"PENDING", "PAID", "CANCELLED"}
        /\ keyRow' \in [Payers -> {"ACTIVE", "INACTIVE", "REVOKED"}]
        /\ cached' \subseteq Payers /\ uncleared' \subseteq Payers
    BY <1>1, <1>2, <2>1
  <2> QED
    BY <1>5, <2>1, <2>2, <2>3, <2>4, PayMove
<1>12. ASSUME NEW p \in Payers, Payments!RevokeRow(h, p) PROVE PayInv'
  <2> DEFINE r == [Payments!Idle EXCEPT !.op = "revoke", !.payer = p, !.at = "uncache"]
  <2>1. /\ payHandler' = [payHandler EXCEPT ![h] = r] /\ q = Payments!Idle
        /\ keyRow' = [keyRow EXCEPT ![p] = "REVOKED"]
        /\ UNCHANGED <<story, split, hasPaid, request, yieldRows, cached, uncleared, spent,
                       spendRows, forgotten, payOrphans, moved, granted>>
    BY <1>12 DEF Payments!RevokeRow, Payments!rows, Payments!chain
  <2>2. r \in PayRecords /\ r.op = "revoke" /\ r.payer = p /\ r.at = "uncache"
    BY PayIdle DEF PayRecords
  <2> HIDE DEF r
  <2>3. payHandler'[h] = r /\ \A g \in Handlers : g # h => payHandler'[g] = payHandler[g]
    BY <1>1, <2>1
  <2>4. /\ keyRow' \in [Payers -> {"ACTIVE", "INACTIVE", "REVOKED"}]
        /\ \A s \in Payers : s # p => keyRow'[s] = keyRow[s]
    BY <1>2, <2>1
  <2>5. Payments!RevokedKeysAreNotCached'
    <3>1. q.at = "idle"
      BY <2>1, PayIdle
    <3> QED
      BY <2>1, <2>2, <2>3, <2>4, <3>1 DEF PayInv, Payments!RevokedKeysAreNotCached, Payments!At
  <2>6. PayRows' /\ PayHolds(r)'
    BY <1>3, <2>1, <2>2 DEF PayRows, PayHolds
  <2>7. Weightless(r)
    BY <2>2, PayEarly
  <2>8. /\ UNCHANGED <<story, yieldRows, spent, spendRows, forgotten, payOrphans, moved, granted>>
        /\ split' \in Splits /\ split'.collected = split.collected
        /\ hasPaid \subseteq hasPaid' /\ hasPaid' \subseteq Payers
        /\ request' \in {"PENDING", "PAID", "CANCELLED"} /\ cached' \subseteq Payers /\ uncleared' \subseteq Payers
    BY <1>2, <2>1
  <2>9. /\ \A s \in Payers : ~Moves(r, s) /\ ~Yields(r, s)
        /\ ~Collects(r)
    BY <2>7 DEF Weightless
  <2> QED
    BY <2>1, <2>2, <2>4, <2>5, <2>6, <2>8, <2>9, PayMove
<1>13. CASE Payments!ExpireSplit(h)
  BY <1>6, <1>13 DEF Payments!ExpireSplit, Payments!At, Payments!Return, Payments!keys,
                     Payments!chain
<1>14. CASE Payments!SplitStatus(h)
  BY <1>6, <1>14 DEF Payments!SplitStatus, Payments!At, Payments!Return, Payments!keys,
                     Payments!chain
<1> QED
  BY <1>7, <1>8, <1>9, <1>11, <1>12, <1>13, <1>14

\* What a request has behind it stays there.
LEMMA PayHoldsKept ==
  ASSUME PayInv, PayShapes', hasPaid \subseteq hasPaid',
         \A p \in Payers, o \in Payments!Purposes : moved[p][o] <= moved'[p][o],
         NEW g \in Handlers, payHandler'[g] = payHandler[g]
  PROVE  PayHolds(payHandler[g])'
<1>1. PICK s \in PayRecords : s = payHandler[g] /\ s = payHandler'[g]
  BY DEF PayInv, PayShapes
<1>2. PayHolds(s)
  BY <1>1 DEF PayInv
<1>3. hasPaid = Payers => hasPaid' = Payers
  BY DEF PayShapes
<1>4. s.at \in {"landed", "confirmed", "collect"} =>
        s.op \in Payments!Purposes /\ s.payer \in Payers
  BY <1>2, PurposeNames DEF PayHolds, PayRecords
<1>5. ASSUME s.at \in {"landed", "confirmed", "collect"} PROVE moved'[s.payer][s.op] > 0
  <2>1. moved[s.payer][s.op] \in Nat /\ moved'[s.payer][s.op] \in Nat
    BY <1>4, <1>5 DEF PayInv, PayShapes
  <2>2. moved[s.payer][s.op] > 0 /\ moved[s.payer][s.op] <= moved'[s.payer][s.op]
    BY <1>2, <1>4, <1>5 DEF PayHolds
  <2> QED
    BY <2>1, <2>2
<1>6. PayHolds(s)'
  BY <1>2, <1>3, <1>5 DEF PayHolds
<1> QED
  BY <1>1, <1>6 DEF PayHolds

\* One request moves and the counters move with it.
LEMMA PayChange ==
  ASSUME PayInv, NEW h \in Handlers, NEW r \in PayRecords,
         payHandler' = [payHandler EXCEPT ![h] = r],
         PayShapes', PayHolds(r)', PayRows', Payments!RevokedKeysAreNotCached',
         hasPaid \subseteq hasPaid',
         \A p \in Payers, o \in Payments!Purposes : moved[p][o] <= moved'[p][o],
         \A p \in Payers :
           /\ Payments!Landed(p)' - Payments!Landed(p) + Weight(Moves(r, p))
                - Weight(Moves(payHandler[h], p))
                + Cardinality(Abandoned(p))' - Cardinality(Abandoned(p))
                <= spent'[p] - spent[p] + forgotten'[p] - forgotten[p]
           /\ yieldRows'[p] - yieldRows[p] + Weight(Yields(r, p))
                - Weight(Yields(payHandler[h], p)) <= moved'[p]["yield"] - moved[p]["yield"],
         split'.collected - split.collected + Weight(Collects(r)) - Weight(Collects(payHandler[h]))
           <= SumOf(SplitMoved, Payers)' - SumOf(SplitMoved, Payers)
  PROVE  PayInv'
<1> DEFINE q == payHandler[h]
<1>1. PayShapes /\ PayCounters /\ PayCollected /\ payHandler \in [Handlers -> PayRecords]
  BY DEF PayInv, PayShapes
<1>2. payHandler'[h] = r /\ \A g \in Handlers : g # h => payHandler'[g] = payHandler[g]
  BY <1>1
<1>3. PayCounters'
  <2>1. ASSUME NEW p \in Payers
        PROVE  /\ Payments!Landed(p)' + Cardinality(Moving(p))' + Cardinality(Abandoned(p))'
                    <= spent'[p] + forgotten'[p]
               /\ yieldRows'[p] + Cardinality(Yielding(p))' <= moved'[p]["yield"]
    <3>1. /\ Cardinality(Moving(p))' = Cardinality(Moving(p))
               - Weight(Moves(q, p)) + Weight(Moves(r, p))
          /\ Cardinality(Yielding(p))' = Cardinality(Yielding(p))
               - Weight(Yields(q, p)) + Weight(Yields(r, p))
      BY <1>1, PayCount
    <3>2. /\ Weight(Moves(r, p)) \in Int /\ Weight(Moves(q, p)) \in Int
          /\ Weight(Yields(r, p)) \in Int /\ Weight(Yields(q, p)) \in Int
      BY DEF Weight
    <3>3. /\ Cardinality(Moving(p)) \in Nat
          /\ Cardinality(Yielding(p)) \in Nat /\ Cardinality(Abandoned(p)) \in Nat
          /\ Payments!Landed(p) \in Nat /\ moved[p]["yield"] \in Nat
          /\ spent[p] \in Nat /\ spendRows[p] \in Nat /\ forgotten[p] \in Int
          /\ yieldRows[p] \in Nat
      BY <1>1, PayNumbers, PurposeNames
    <3>4. /\ Cardinality(Abandoned(p))' \in Nat
          /\ Payments!Landed(p)' \in Nat /\ moved'[p]["yield"] \in Nat
          /\ spent'[p] \in Nat /\ spendRows'[p] \in Nat /\ forgotten'[p] \in Int
          /\ yieldRows'[p] \in Nat
      BY PayNumbersNext DEF PayNumeric
    <3>5. /\ Payments!Landed(p) + Cardinality(Moving(p)) + Cardinality(Abandoned(p))
               <= spent[p] + forgotten[p]
          /\ yieldRows[p] + Cardinality(Yielding(p)) <= moved[p]["yield"]
      BY <1>1 DEF PayCounters
    <3> QED
      BY <3>1, <3>2, <3>3, <3>4, <3>5
  <2> QED
    BY <2>1 DEF PayCounters
<1>4. PayCollected'
  <2>1. Cardinality(Collecting)' = Cardinality(Collecting) - Weight(Collects(q)) + Weight(Collects(r))
    BY <1>1, PayCount
  <2>2. Weight(Collects(r)) \in Int /\ Weight(Collects(q)) \in Int
    BY DEF Weight
  <2>3. /\ Cardinality(Collecting) \in Nat /\ split.collected \in Nat
        /\ SumOf(SplitMoved, Payers) \in Nat
    BY <1>1, PayNumbers
  <2>4. split'.collected \in Nat /\ SumOf(SplitMoved, Payers)' \in Nat
    BY PayNumbersNext DEF PayNumeric
  <2>5. split.collected + Cardinality(Collecting) <= SumOf(SplitMoved, Payers)
    BY <1>1 DEF PayCollected
  <2>6. split'.collected + Cardinality(Collecting)' <= SumOf(SplitMoved, Payers)'
    BY <2>1, <2>2, <2>3, <2>4, <2>5
  <2> QED
    BY <2>6 DEF PayCollected
<1>5. ASSUME NEW g \in Handlers, g # h PROVE PayHolds(payHandler[g])'
  BY <1>2, <1>5, PayHoldsKept
<1>6. PayHolds(payHandler[h])'
  BY <1>2 DEF PayHolds
<1> QED
  BY <1>3, <1>4, <1>5, <1>6 DEF PayInv

Executed(p, o) == moved' = [moved EXCEPT ![p][o] = @ + 1]

\* A transfer lands: the vault's nonce, the sums and nothing else.
LEMMA PayExecuted ==
  ASSUME PayShapes, NEW p \in Payers, NEW o \in Payments!Purposes, Executed(p, o)
  PROVE  /\ moved' \in [Payers -> [Payments!Purposes -> Nat]]
         /\ \A s \in Payers, x \in Payments!Purposes :
              moved'[s][x] \in Nat /\ moved[s][x] <= moved'[s][x]
         /\ moved'[p][o] > 0
         /\ \A s \in Payers :
              /\ Payments!Landed(s)' = Payments!Landed(s) + Weight(s = p)
              /\ moved'[s]["yield"] = moved[s]["yield"] + Weight(o = "yield" /\ s = p)
         /\ SumOf(SplitMoved, Payers)' = SumOf(SplitMoved, Payers) + Weight(o = "split")
<1>1. moved \in [Payers -> [Payments!Purposes -> Nat]]
  BY DEF PayShapes
<1>2. moved[p][o] \in Nat
  BY <1>1
<1>3. moved[p][o] + 1 \in Nat /\ moved[p][o] + 1 > 0
  BY <1>2
<1>4. moved' \in [Payers -> [Payments!Purposes -> Nat]]
  BY <1>1, <1>3 DEF Executed
<1>5. ASSUME NEW s \in Payers, NEW x \in Payments!Purposes
      PROVE  /\ moved[s][x] \in Nat /\ moved'[s][x] \in Nat
             /\ moved'[s][x] = IF s = p /\ x = o THEN moved[s][x] + 1 ELSE moved[s][x]
  BY <1>1, <1>4 DEF Executed
<1>6. ASSUME NEW s \in Payers, NEW x \in Payments!Purposes
      PROVE  moved'[s][x] = moved[s][x] + Weight(x = o /\ s = p)
  BY <1>5 DEF Weight
<1>7. ASSUME NEW s \in Payers
      PROVE  Payments!Landed(s)' = Payments!Landed(s) + Weight(s = p)
  <2>1. /\ moved[s]["split"] \in Nat /\ moved[s]["request"] \in Nat /\ moved[s]["yield"] \in Nat
        /\ s = p => moved'[s][o] = moved[s][o] + 1
        /\ \A x \in {"split", "request", "yield"} :
             x # o \/ s # p => moved'[s][x] = moved[s][x]
    BY <1>5, PurposeNames
  <2>2. /\ Payments!Landed(s) = moved[s]["split"] + moved[s]["request"] + moved[s]["yield"]
        /\ Payments!Landed(s)' = moved'[s]["split"] + moved'[s]["request"] + moved'[s]["yield"]
    BY DEF Payments!Landed, Payments!VaultNonce
  <2>3. CASE s = p
    <3>1. CASE o = "split"
      BY <2>1, <2>2, <2>3, <3>1 DEF Weight
    <3>2. CASE o = "request"
      BY <2>1, <2>2, <2>3, <3>2 DEF Weight
    <3>3. CASE o = "yield"
      BY <2>1, <2>2, <2>3, <3>3 DEF Weight
    <3> QED
      BY <3>1, <3>2, <3>3, PurposeNames
  <2>4. CASE s # p
    BY <2>1, <2>2, <2>4 DEF Weight
  <2> QED
    BY <2>3, <2>4
<1>8. SumOf(SplitMoved, Payers)' = SumOf(SplitMoved, Payers) + Weight(o = "split")
  <2>1. ASSUME NEW s \in Payers
        PROVE  SplitMoved[s] = moved[s]["split"] /\ SplitMoved'[s] = moved'[s]["split"]
    BY DEF SplitMoved
  <2>2. \A s \in Payers : SplitMoved[s] \in Int /\ SplitMoved'[s] \in Int
    BY <1>5, <2>1, PurposeNames
  <2>3. \A s \in Payers : s # p => SplitMoved'[s] = SplitMoved[s]
    BY <1>5, <2>1, PurposeNames
  <2>4. SplitMoved'[p] = SplitMoved[p] + Weight(o = "split")
    BY <1>5, <2>1, PurposeNames DEF Weight
  <2>5. IsFiniteSet(Payers)
    BY ChatAssumption
  <2>6. SumOf(SplitMoved, Payers)' = SumOf(SplitMoved, Payers) + SplitMoved'[p] - SplitMoved[p]
    BY ONLY <2>2, <2>3, <2>5, p \in Payers, SumUpdate
  <2>7. SumOf(SplitMoved, Payers) \in Int
    BY PayNumbers
  <2>8. Weight(o = "split") \in Int
    BY DEF Weight
  <2>9. SplitMoved[p] \in Int
    BY <2>2
  <2> QED
    BY ONLY <2>4, <2>6, <2>7, <2>8, <2>9
<1>9. ASSUME NEW s \in Payers, NEW x \in Payments!Purposes
      PROVE  moved'[s][x] \in Nat /\ moved[s][x] <= moved'[s][x]
  BY <1>5
<1>10. moved'[p][o] > 0
  BY <1>3, <1>5
<1>11. ASSUME NEW s \in Payers
       PROVE  moved'[s]["yield"] = moved[s]["yield"] + Weight(o = "yield" /\ s = p)
  <2>1. moved'[s]["yield"] = moved[s]["yield"] + Weight("yield" = o /\ s = p)
    BY <1>6, PurposeNames
  <2> QED
    BY <2>1 DEF Weight
<1> QED
  BY <1>4, <1>7, <1>8, <1>9, <1>10, <1>11

\* validateAndRecordSpending: the counter rises before the request may send
\* anything; it also rises for a request that never learns of it.
LEMMA PayReserve ==
  ASSUME PayInv, NEW h \in Handlers, Payments!Reserve(h) \/ Payments!RefuseReserve(h)
  PROVE  PayInv'
<1> DEFINE q == payHandler[h]
           p == q.payer
           m == [q EXCEPT !.at = "grant"]
<1>1. q \in PayRecords /\ PayHolds(q) /\ payHandler \in [Handlers -> PayRecords] /\ p \in Payers
      /\ PayShapes /\ PayRows
  BY DEF PayInv, PayShapes, PayRecords
<1>2. CASE UNCHANGED spent /\ Payments!RefuseReserve(h)
  BY <1>2, PayReads
<1>3. CASE spent' = [spent EXCEPT ![p] = @ + 1]
  <2>1. /\ q.at = "policy"
        /\ \/ payHandler' = [payHandler EXCEPT ![h] = m]
           \/ payHandler' = [payHandler EXCEPT ![h] = Payments!Idle]
        /\ UNCHANGED <<story, split, hasPaid, request, yieldRows, keyRow, cached, uncleared,
                       spendRows, forgotten, payOrphans, moved, granted>>
    BY <1>1, <1>3 DEF Payments!Reserve, Payments!RefuseReserve, Payments!At, Payments!Goto,
                      Payments!Return, Payments!rows, Payments!chain
  <2>2. m \in PayRecords /\ m.at = "grant" /\ m.op = q.op /\ m.payer = q.payer
    BY <1>1 DEF PayRecords
  <2>3. PICK r \in PayRecords : /\ payHandler' = [payHandler EXCEPT ![h] = r]
                                /\ r = m \/ r = Payments!Idle
    BY <2>1, <2>2, PayIdle
  <2> HIDE DEF m
  <2>4. spent \in [Payers -> Nat] /\ spent[p] + 1 \in Nat
    BY <1>1 DEF PayShapes
  <2>5. /\ spent' \in [Payers -> Nat] /\ spent'[p] = spent[p] + 1
        /\ \A s \in Payers : s # p => spent'[s] = spent[s]
    BY <1>1, <1>3, <2>4
  <2>6. payHandler' \in [Handlers -> PayRecords]
    BY <1>1, <2>3
  <2>7. PayShapes'
    BY <1>1, <2>1, <2>5, <2>6 DEF PayShapes
  <2>8. PayHolds(r)' /\ PayRows'
    BY <1>1, <2>1, <2>2, <2>3, PayIdle DEF PayHolds, PayRows
  <2>9. Payments!RevokedKeysAreNotCached'
    <3>1. \A g \in Handlers : payHandler[g].at = "uncache" => payHandler'[g] = payHandler[g]
      BY <1>1, <2>1, <2>3
    <3> QED
      BY <2>1, <3>1, KeysKept
  <2>10. ASSUME NEW s \in Payers
         PROVE  /\ Weight(Moves(r, s)) <= spent'[s] - spent[s] /\ Weight(Moves(q, s)) = 0
                /\ Weight(Yields(r, s)) = 0 /\ Weight(Yields(q, s)) = 0
                /\ Weight(Moves(r, s)) \in Int /\ spent[s] \in Int /\ spent'[s] \in Int
    <3>1. (Moves(r, s) => s = p) /\ ~Moves(q, s) /\ ~Yields(q, s) /\ ~Yields(r, s)
      BY <2>1, <2>2, <2>3, PayIdle DEF Moves, Yields
    <3>2. spent'[s] = spent[s] + Weight(s = p) /\ Weight(s = p) \in Int /\ spent[s] \in Nat
      BY <1>1, <2>4, <2>5, PayNumbers DEF Weight
    <3>3. Weight(s = p) = spent'[s] - spent[s] /\ spent'[s] \in Int
      BY ONLY <3>2
    <3>4. /\ Weight(Moves(r, s)) <= Weight(s = p) /\ Weight(Moves(r, s)) \in Int
          /\ Weight(Yields(r, s)) = 0 /\ Weight(Yields(q, s)) = 0 /\ Weight(Moves(q, s)) = 0
      BY ONLY <3>1 DEF Weight
    <3> QED
      BY <3>2, <3>3, <3>4
  <2>11. Weight(Collects(r)) = 0 /\ Weight(Collects(q)) = 0
    BY <2>1, <2>2, <2>3, PayIdle DEF Weight, Collects
  <2>12. /\ \A s \in Payers : /\ Payments!Landed(s)' = Payments!Landed(s)
                              /\ Cardinality(Abandoned(s))' = Cardinality(Abandoned(s))
         /\ SumOf(SplitMoved, Payers)' = SumOf(SplitMoved, Payers)
    BY <2>1 DEF Payments!Landed, Payments!VaultNonce, Abandoned, SplitMoved
  <2>13. ASSUME NEW s \in Payers
         PROVE  /\ Payments!Landed(s)' - Payments!Landed(s) + Weight(Moves(r, s))
                     - Weight(Moves(q, s))
                     + Cardinality(Abandoned(s))' - Cardinality(Abandoned(s))
                     <= spent'[s] - spent[s] + forgotten'[s] - forgotten[s]
                /\ yieldRows'[s] - yieldRows[s] + Weight(Yields(r, s))
                     - Weight(Yields(q, s)) <= moved'[s]["yield"] - moved[s]["yield"]
    BY <1>1, <2>1, <2>10, <2>12, PayNumbers, PurposeNames
  <2>14. split'.collected - split.collected + Weight(Collects(r)) - Weight(Collects(q))
           <= SumOf(SplitMoved, Payers)' - SumOf(SplitMoved, Payers)
    BY <1>1, <2>1, <2>11, <2>12, PayNumbers
  <2>15. /\ hasPaid \subseteq hasPaid'
         /\ \A s \in Payers, o \in Payments!Purposes : moved[s][o] <= moved'[s][o]
    BY <1>1, <2>1, PayNumbers
  <2> QED
    BY <2>3, <2>7, <2>8, <2>9, <2>13, <2>14, <2>15, PayChange
<1> QED
  BY <1>2, <1>3 DEF Payments!Reserve, Payments!RefuseReserve

\* A payment lands: it may move no more, and is recorded nowhere yet.
LEMMA PayLand ==
  ASSUME PayInv, NEW h \in Handlers, Payments!Land(h)
  PROVE  PayInv'
<1> DEFINE q == payHandler[h]
<1>1. /\ q \in PayRecords /\ PayHolds(q) /\ payHandler \in [Handlers -> PayRecords]
      /\ q.payer \in Payers /\ PayShapes /\ PayRows
  BY DEF PayInv, PayShapes, PayRecords
<1> DEFINE m == [q EXCEPT !.at = "landed"]
<1>2. /\ q.at = "sent" /\ moved' = [moved EXCEPT ![q.payer][q.op] = @ + 1]
      /\ payHandler' = [payHandler EXCEPT ![h] = m]
      /\ UNCHANGED <<story, split, hasPaid, request, yieldRows, keyRow, cached, uncleared, spent,
                     spendRows, forgotten, payOrphans, granted>>
  BY <1>1 DEF Payments!Land, Payments!At, Payments!Goto, Payments!rows, Payments!keys,
              Payments!Execute, Payments!Transaction
<1>3. m \in PayRecords /\ m.at = "landed" /\ m.op = q.op /\ m.payer = q.payer
  BY <1>1 DEF PayRecords
<1>4. PICK r \in PayRecords : r = m
  BY <1>3
<1>5. q.op \in Payments!Purposes /\ (q.op = "request" => q.payer = Debtor)
  BY <1>1, <1>2 DEF PayHolds
<1>6. payHandler' = [payHandler EXCEPT ![h] = r] /\ payHandler' \in [Handlers -> PayRecords]
  BY <1>1, <1>2, <1>4
<1>7. Payments!RevokedKeysAreNotCached'
  <2>1. \A g \in Handlers : payHandler[g].at = "uncache" => payHandler'[g] = payHandler[g]
    BY <1>1, <1>2
  <2> QED
    BY <1>2, <2>1, KeysKept
<1> HIDE DEF m
<1>8. /\ moved' \in [Payers -> [Payments!Purposes -> Nat]]
      /\ \A s \in Payers, x \in Payments!Purposes :
           moved'[s][x] \in Nat /\ moved[s][x] <= moved'[s][x]
      /\ moved'[q.payer][q.op] > 0
      /\ \A s \in Payers :
           /\ Payments!Landed(s)' = Payments!Landed(s) + Weight(s = q.payer)
           /\ moved'[s]["yield"] = moved[s]["yield"] + Weight(q.op = "yield" /\ s = q.payer)
      /\ SumOf(SplitMoved, Payers)' = SumOf(SplitMoved, Payers) + Weight(q.op = "split")
  <2>1. /\ PayShapes /\ q.payer \in Payers /\ q.op \in Payments!Purposes
        /\ Executed(q.payer, q.op)
    BY <1>1, <1>2, <1>5 DEF Executed
  <2> QED
    BY <2>1, PayExecuted
<1>9. PayShapes'
  BY <1>1, <1>2, <1>6, <1>8 DEF PayShapes
<1>10. PayHolds(r)'
  <2>1. moved'[r.payer][r.op] > 0 /\ r.at = "landed" /\ r.op \in Payments!Purposes
        /\ (r.op = "request" => r.payer = Debtor)
    BY <1>3, <1>4, <1>5, <1>8
  <2> QED
    BY <2>1 DEF PayHolds
<1>11. PayRows'
  <2>1. \A s \in Payers : /\ moved[s]["split"] \in Nat /\ moved'[s]["split"] \in Nat
                          /\ moved[s]["split"] <= moved'[s]["split"]
                          /\ moved[s]["request"] \in Nat /\ moved'[s]["request"] \in Nat
                          /\ moved[s]["request"] <= moved'[s]["request"]
    BY <1>1, <1>8, PayNumbers, PurposeNames
  <2>2. hasPaid \subseteq Payers /\ Debtor \in Payers
    BY <1>1, ChatAssumption DEF PayShapes
  <2> QED
    BY <1>1, <1>2, <2>1, <2>2 DEF PayRows
<1>12. ASSUME NEW s \in Payers
       PROVE  /\ Payments!Landed(s)' - Payments!Landed(s) + Weight(Moves(r, s))
                     - Weight(Moves(q, s))
                     + Cardinality(Abandoned(s))' - Cardinality(Abandoned(s))
                     <= spent'[s] - spent[s] + forgotten'[s] - forgotten[s]
                /\ yieldRows'[s] - yieldRows[s] + Weight(Yields(r, s))
                     - Weight(Yields(q, s)) <= moved'[s]["yield"] - moved[s]["yield"]
  <2>1. /\ ~Moves(r, s) /\ (Moves(q, s) <=> s = q.payer)
        /\ (Yields(r, s) <=> q.op = "yield" /\ s = q.payer) /\ ~Yields(q, s)
    BY <1>2, <1>3, <1>4 DEF Moves, Yields
  <2>2. /\ Weight(Moves(r, s)) = 0 /\ Weight(Moves(q, s)) = Weight(s = q.payer)
        /\ Weight(Yields(r, s)) = Weight(q.op = "yield" /\ s = q.payer) /\ Weight(Yields(q, s)) = 0
        /\ Weight(s = q.payer) \in Int /\ Weight(q.op = "yield" /\ s = q.payer) \in Int
    BY ONLY <2>1 DEF Weight
  <2>3. Cardinality(Abandoned(s))' = Cardinality(Abandoned(s))
    BY <1>2 DEF Abandoned
  <2>4. /\ Payments!Landed(s)' = Payments!Landed(s) + Weight(s = q.payer)
        /\ moved'[s]["yield"] = moved[s]["yield"] + Weight(q.op = "yield" /\ s = q.payer)
        /\ spendRows'[s] = spendRows[s] /\ spent'[s] = spent[s]
        /\ forgotten'[s] = forgotten[s] /\ yieldRows'[s] = yieldRows[s]
    BY <1>2, <1>8
  <2>5. /\ Payments!Landed(s) \in Nat /\ moved[s]["yield"] \in Nat /\ Cardinality(Abandoned(s)) \in Nat
        /\ spent[s] \in Nat /\ spendRows[s] \in Nat /\ forgotten[s] \in Int /\ yieldRows[s] \in Nat
    BY <1>1, PayNumbers, PurposeNames
  <2> QED
    BY ONLY <2>2, <2>3, <2>4, <2>5
<1>13. split'.collected - split.collected + Weight(Collects(r)) - Weight(Collects(q))
           <= SumOf(SplitMoved, Payers)' - SumOf(SplitMoved, Payers)
  <2>1. (Collects(r) <=> q.op = "split") /\ ~Collects(q)
    BY <1>2, <1>3, <1>4 DEF Collects
  <2>2. /\ Weight(Collects(r)) = Weight(q.op = "split") /\ Weight(Collects(q)) = 0
        /\ Weight(q.op = "split") \in Int
    BY ONLY <2>1 DEF Weight
  <2>3. /\ SumOf(SplitMoved, Payers)' = SumOf(SplitMoved, Payers) + Weight(q.op = "split")
        /\ split' = split /\ split.collected \in Nat /\ SumOf(SplitMoved, Payers) \in Nat
    BY <1>1, <1>2, <1>8, PayNumbers
  <2> QED
    BY ONLY <2>2, <2>3
<1>14. hasPaid \subseteq hasPaid' /\ \A s \in Payers, o \in Payments!Purposes : moved[s][o] <= moved'[s][o]
  BY <1>2, <1>8
<1> QED
  BY <1>6, <1>7, <1>9, <1>10, <1>11, <1>12, <1>13, <1>14, PayChange

\* A payment nobody waits for any longer stays reserved.
LEMMA PayGiveUp ==
  ASSUME PayInv, NEW h \in Handlers, NEW sent \in BOOLEAN, Payments!GiveUp(h, sent)
  PROVE  PayInv'
<1> DEFINE q == payHandler[h]
<1>1. /\ q \in PayRecords /\ PayHolds(q) /\ payHandler \in [Handlers -> PayRecords]
      /\ q.payer \in Payers /\ PayShapes /\ PayRows
  BY DEF PayInv, PayShapes, PayRecords
<1> DEFINE tx == Payments!Transaction(h)
           r == Payments!Idle
<1>2. /\ q.at = "sent" /\ payOrphans' = IF sent THEN payOrphans \cup {tx} ELSE payOrphans
      /\ payHandler' = [payHandler EXCEPT ![h] = r]
      /\ UNCHANGED <<story, split, hasPaid, request, yieldRows, keyRow, cached, uncleared, spent,
                     spendRows, forgotten, moved, granted>>
  BY <1>1 DEF Payments!GiveUp, Payments!At, Payments!Return, Payments!rows, Payments!keys,
              Payments!chain
<1>3. tx \in PayTransactions /\ tx.payer = q.payer
  <2>1. q.op \in Payments!Purposes /\ q.nonce \in Nat
    BY <1>1, <1>2 DEF PayHolds, PayRecords
  <2> QED
    BY <1>1, <2>1 DEF Payments!Transaction, PayTransactions
<1>4. r \in PayRecords /\ payHandler' \in [Handlers -> PayRecords]
  BY <1>1, <1>2, PayIdle
<1>5. Payments!RevokedKeysAreNotCached'
  <2>1. \A g \in Handlers : payHandler[g].at = "uncache" => payHandler'[g] = payHandler[g]
    BY <1>1, <1>2
  <2> QED
    BY <1>2, <2>1, KeysKept
<1> HIDE DEF tx
<1>6. ASSUME NEW s \in Payers
      PROVE  /\ Cardinality(Abandoned(s)) \in Nat /\ Cardinality(Abandoned(s))' \in Nat
             /\ Cardinality(Abandoned(s))' <= Cardinality(Abandoned(s)) + Weight(s = q.payer)
             /\ IsFiniteSet(payOrphans')
  <2>1. IsFiniteSet(payOrphans) /\ Cardinality(Abandoned(s)) \in Nat
    BY <1>1, PayNumbers DEF PayShapes
  <2>2. CASE payOrphans' = payOrphans
    <3>1. Abandoned(s)' = Abandoned(s)
      BY <2>2 DEF Abandoned
    <3>2. Weight(s = q.payer) \in Nat
      BY DEF Weight
    <3> QED
      BY <2>1, <2>2, <3>1, <3>2
  <2>3. CASE payOrphans' = payOrphans \cup {tx}
    <3>1. /\ IsFiniteSet(payOrphans') /\ Cardinality(Abandoned(s))' \in Nat
          /\ Cardinality(Abandoned(s))' <= Cardinality(Abandoned(s)) + Weight(tx.payer = s)
      <4>1. /\ IsFiniteSet(payOrphans') /\ Cardinality(PaidBy(payOrphans', s)) \in Nat
            /\ Cardinality(PaidBy(payOrphans', s))
                 <= Cardinality(PaidBy(payOrphans, s)) + Weight(tx.payer = s)
        BY ONLY <2>1, <2>3, AbandonedMore
      <4> QED
        BY <4>1 DEF Abandoned
    <3>2. (tx.payer = s) <=> (s = q.payer)
      BY <1>3
    <3>3. Weight(tx.payer = s) = Weight(s = q.payer)
      BY ONLY <3>2 DEF Weight
    <3> QED
      BY <2>1, <3>1, <3>3
  <2> QED
    BY <1>2, <2>2, <2>3
<1>7. PayShapes'
  <2>1. payOrphans' \subseteq PayTransactions /\ IsFiniteSet(payOrphans')
    BY <1>1, <1>2, <1>3, <1>6 DEF PayShapes
  <2> QED
    BY <1>1, <1>2, <1>4, <2>1 DEF PayShapes
<1>8. PayHolds(r)' /\ PayRows'
  BY <1>1, <1>2, PayIdle DEF PayHolds, PayRows
<1>9. ASSUME NEW s \in Payers
      PROVE  /\ Payments!Landed(s)' - Payments!Landed(s) + Weight(Moves(r, s))
                    - Weight(Moves(q, s))
                    + Cardinality(Abandoned(s))' - Cardinality(Abandoned(s))
                    <= spent'[s] - spent[s] + forgotten'[s] - forgotten[s]
               /\ yieldRows'[s] - yieldRows[s] + Weight(Yields(r, s))
                    - Weight(Yields(q, s)) <= moved'[s]["yield"] - moved[s]["yield"]
  <2>1. /\ ~Moves(r, s) /\ (Moves(q, s) <=> s = q.payer) /\ ~Yields(r, s) /\ ~Yields(q, s)
    BY <1>2, PayIdle DEF Moves, Yields
  <2>2. /\ Weight(Moves(r, s)) = 0 /\ Weight(Moves(q, s)) = Weight(s = q.payer)
        /\ Weight(Yields(r, s)) = 0 /\ Weight(Yields(q, s)) = 0
        /\ Weight(s = q.payer) \in Nat
    BY ONLY <2>1 DEF Weight
  <2>3. /\ Cardinality(Abandoned(s)) \in Nat /\ Cardinality(Abandoned(s))' \in Nat
        /\ Cardinality(Abandoned(s))' <= Cardinality(Abandoned(s)) + Weight(s = q.payer)
    BY <1>6
  <2>4. /\ Payments!Landed(s)' = Payments!Landed(s) /\ moved'[s]["yield"] = moved[s]["yield"]
        /\ spendRows'[s] = spendRows[s] /\ spent'[s] = spent[s]
        /\ forgotten'[s] = forgotten[s] /\ yieldRows'[s] = yieldRows[s]
    BY <1>2 DEF Payments!Landed, Payments!VaultNonce
  <2>5. /\ Payments!Landed(s) \in Nat /\ moved[s]["yield"] \in Nat
        /\ spent[s] \in Nat /\ spendRows[s] \in Nat /\ forgotten[s] \in Int /\ yieldRows[s] \in Nat
    BY <1>1, PayNumbers, PurposeNames
  <2> QED
    BY ONLY <2>2, <2>3, <2>4, <2>5
<1>10. split'.collected - split.collected + Weight(Collects(r)) - Weight(Collects(q))
           <= SumOf(SplitMoved, Payers)' - SumOf(SplitMoved, Payers)
  <2>1. Weight(Collects(r)) = 0 /\ Weight(Collects(q)) = 0
    BY <1>2, PayIdle DEF Weight, Collects
  <2>2. SumOf(SplitMoved, Payers)' = SumOf(SplitMoved, Payers)
    BY <1>2 DEF SplitMoved
  <2> QED
    BY <1>1, <1>2, <2>1, <2>2, PayNumbers
<1>11. hasPaid \subseteq hasPaid' /\ \A s \in Payers, o \in Payments!Purposes : moved[s][o] <= moved'[s][o]
  BY <1>1, <1>2, PayNumbers
<1> HIDE DEF r
<1> QED
  BY <1>2, <1>4, <1>5, <1>7, <1>8, <1>9, <1>10, <1>11, PayChange

\* The SpendingRecord row, if it is written, is one the counter already shows.
LEMMA PayConfirm ==
  ASSUME PayInv, NEW h \in Handlers, NEW recorded \in BOOLEAN, Payments!Confirm(h, recorded)
  PROVE  PayInv'
<1> DEFINE q == payHandler[h]
<1>1. /\ q \in PayRecords /\ PayHolds(q) /\ payHandler \in [Handlers -> PayRecords]
      /\ q.payer \in Payers /\ PayShapes /\ PayRows
  BY DEF PayInv, PayShapes, PayRecords
<1> DEFINE m == [q EXCEPT !.at = "confirmed"]
<1>2. /\ q.at = "landed"
      /\ spendRows' = IF recorded THEN [spendRows EXCEPT ![q.payer] = @ + 1] ELSE spendRows
      /\ payHandler' = [payHandler EXCEPT ![h] = m]
      /\ UNCHANGED <<story, split, hasPaid, request, yieldRows, keyRow, cached, uncleared, spent,
                     forgotten, payOrphans, moved, granted>>
  BY <1>1 DEF Payments!Confirm, Payments!At, Payments!Goto, Payments!rows, Payments!chain
<1>3. m \in PayRecords /\ m.at = "confirmed" /\ m.op = q.op /\ m.payer = q.payer
  BY <1>1 DEF PayRecords
<1>4. PICK r \in PayRecords : r = m
  BY <1>3
<1>5. payHandler' = [payHandler EXCEPT ![h] = r] /\ payHandler' \in [Handlers -> PayRecords]
  BY <1>1, <1>2, <1>4
<1>6. Payments!RevokedKeysAreNotCached'
  <2>1. \A g \in Handlers : payHandler[g].at = "uncache" => payHandler'[g] = payHandler[g]
    BY <1>1, <1>2
  <2> QED
    BY <1>2, <2>1, KeysKept
<1> HIDE DEF m
<1>7. /\ spendRows' \in [Payers -> Nat]
      /\ \A s \in Payers : /\ spendRows[s] \in Nat /\ spendRows'[s] \in Nat
                           /\ spendRows'[s] <= spendRows[s] + Weight(s = q.payer)
  <2>1. spendRows \in [Payers -> Nat] /\ spendRows[q.payer] + 1 \in Nat
    BY <1>1 DEF PayShapes
  <2>2. CASE recorded
    <3>1. spendRows' = [spendRows EXCEPT ![q.payer] = @ + 1] /\ spendRows' \in [Payers -> Nat]
      BY <1>2, <2>1, <2>2
    <3> QED
      BY <1>1, <2>1, <3>1 DEF Weight
  <2>3. CASE ~recorded
    BY <1>2, <2>1, <2>3 DEF Weight
  <2> QED
    BY <2>2, <2>3
<1>8. PayShapes'
  BY <1>1, <1>2, <1>5, <1>7 DEF PayShapes
<1>9. PayHolds(r)' /\ PayRows'
  BY <1>1, <1>2, <1>3, <1>4 DEF PayHolds, PayRows
<1>10. ASSUME NEW s \in Payers
       PROVE  /\ Payments!Landed(s)' - Payments!Landed(s) + Weight(Moves(r, s))
                     - Weight(Moves(q, s))
                     + Cardinality(Abandoned(s))' - Cardinality(Abandoned(s))
                     <= spent'[s] - spent[s] + forgotten'[s] - forgotten[s]
                /\ yieldRows'[s] - yieldRows[s] + Weight(Yields(r, s))
                     - Weight(Yields(q, s)) <= moved'[s]["yield"] - moved[s]["yield"]
  <2>1. /\ ~Moves(r, s) /\ ~Moves(q, s) /\ (Yields(r, s) <=> Yields(q, s))
    BY <1>2, <1>3, <1>4 DEF Moves, Yields
  <2>2. /\ Weight(Moves(r, s)) = 0 /\ Weight(Moves(q, s)) = 0
        /\ Weight(Yields(r, s)) = Weight(Yields(q, s))
        /\ Weight(s = q.payer) \in Int /\ Weight(Yields(q, s)) \in Int
    BY ONLY <2>1 DEF Weight
  <2>3. /\ spendRows'[s] \in Nat /\ spendRows'[s] <= spendRows[s] + Weight(s = q.payer)
        /\ yieldRows'[s] = yieldRows[s]
    BY <1>2, <1>7
  <2>4. /\ Payments!Landed(s)' = Payments!Landed(s) /\ moved'[s]["yield"] = moved[s]["yield"]
        /\ Cardinality(Abandoned(s))' = Cardinality(Abandoned(s))
        /\ spent'[s] = spent[s] /\ forgotten'[s] = forgotten[s]
    BY <1>2 DEF Payments!Landed, Payments!VaultNonce, Abandoned
  <2>5. /\ Payments!Landed(s) \in Nat /\ moved[s]["yield"] \in Nat /\ Cardinality(Abandoned(s)) \in Nat
        /\ spent[s] \in Nat /\ spendRows[s] \in Nat /\ forgotten[s] \in Int /\ yieldRows[s] \in Nat
    BY <1>1, PayNumbers, PurposeNames
  <2> QED
    BY ONLY <2>2, <2>3, <2>4, <2>5
<1>11. split'.collected - split.collected + Weight(Collects(r)) - Weight(Collects(q))
           <= SumOf(SplitMoved, Payers)' - SumOf(SplitMoved, Payers)
  <2>1. Collects(r) <=> Collects(q)
    BY <1>2, <1>3, <1>4 DEF Collects
  <2>2. Weight(Collects(r)) = Weight(Collects(q)) /\ Weight(Collects(q)) \in Int
    BY ONLY <2>1 DEF Weight
  <2>3. /\ SumOf(SplitMoved, Payers)' = SumOf(SplitMoved, Payers)
        /\ split' = split /\ split.collected \in Nat /\ SumOf(SplitMoved, Payers) \in Nat
    BY <1>1, <1>2, PayNumbers DEF SplitMoved
  <2> QED
    BY ONLY <2>2, <2>3
<1>12. hasPaid \subseteq hasPaid' /\ \A s \in Payers, o \in Payments!Purposes : moved[s][o] <= moved'[s][o]
  BY <1>1, <1>2, PayNumbers
<1> QED
  BY <1>5, <1>6, <1>8, <1>9, <1>10, <1>11, <1>12, PayChange

\* A unit is counted as collected once, by the request that moved it.
LEMMA PayCollect ==
  ASSUME PayInv, NEW h \in Handlers, Payments!Collect(h)
  PROVE  PayInv'
<1> DEFINE q == payHandler[h]
<1>1. /\ q \in PayRecords /\ PayHolds(q) /\ payHandler \in [Handlers -> PayRecords]
      /\ q.payer \in Payers /\ PayShapes /\ PayRows
  BY DEF PayInv, PayShapes, PayRecords
<1> DEFINE m == [q EXCEPT !.at = "status", !.all = (hasPaid = Payers)]
<1>2. /\ q.at = "collect" /\ split' = [split EXCEPT !.collected = @ + 1]
      /\ payHandler' = [payHandler EXCEPT ![h] = m]
      /\ UNCHANGED <<story, hasPaid, request, yieldRows, keyRow, cached, uncleared, spent, spendRows,
                     forgotten, payOrphans, moved, granted>>
  BY <1>1 DEF Payments!Collect, Payments!At, Payments!keys, Payments!chain
<1>3. /\ m \in PayRecords /\ m.at = "status" /\ m.op = q.op /\ m.payer = q.payer
      /\ (m.all => hasPaid = Payers)
  BY <1>1 DEF PayRecords
<1>4. PICK r \in PayRecords : r = m
  BY <1>3
<1>5. payHandler' = [payHandler EXCEPT ![h] = r] /\ payHandler' \in [Handlers -> PayRecords]
  BY <1>1, <1>2, <1>4
<1>6. Payments!RevokedKeysAreNotCached'
  <2>1. \A g \in Handlers : payHandler[g].at = "uncache" => payHandler'[g] = payHandler[g]
    BY <1>1, <1>2
  <2> QED
    BY <1>2, <2>1, KeysKept
<1> HIDE DEF m
<1>7. /\ split \in Splits /\ split' \in Splits /\ split'.collected = split.collected + 1
      /\ split'.status = split.status /\ split.collected \in Nat
  <2>1. split \in Splits /\ split.collected + 1 \in Nat
    BY <1>1 DEF PayShapes, Splits
  <2> QED
    BY <1>2, <2>1 DEF Splits
<1>8. PayShapes'
  BY <1>1, <1>2, <1>5, <1>7 DEF PayShapes, Splits
<1>9. q.op = "split"
  BY <1>1, <1>2 DEF PayHolds
<1>10. PayHolds(r)' /\ PayRows'
  BY <1>1, <1>2, <1>3, <1>4, <1>7, <1>9 DEF PayHolds, PayRows
<1>11. ASSUME NEW s \in Payers
       PROVE  /\ Payments!Landed(s)' - Payments!Landed(s) + Weight(Moves(r, s))
                     - Weight(Moves(q, s))
                     + Cardinality(Abandoned(s))' - Cardinality(Abandoned(s))
                     <= spent'[s] - spent[s] + forgotten'[s] - forgotten[s]
                /\ yieldRows'[s] - yieldRows[s] + Weight(Yields(r, s))
                     - Weight(Yields(q, s)) <= moved'[s]["yield"] - moved[s]["yield"]
  <2>1. ~Moves(r, s) /\ ~Moves(q, s) /\ ~Yields(r, s) /\ ~Yields(q, s)
    BY <1>2, <1>3, <1>4 DEF Moves, Yields
  <2>2. /\ Weight(Moves(r, s)) = 0 /\ Weight(Moves(q, s)) = 0
        /\ Weight(Yields(r, s)) = 0 /\ Weight(Yields(q, s)) = 0
    BY ONLY <2>1 DEF Weight
  <2>3. spendRows'[s] = spendRows[s] /\ yieldRows'[s] = yieldRows[s]
    BY <1>2
  <2>4. /\ Payments!Landed(s)' = Payments!Landed(s) /\ moved'[s]["yield"] = moved[s]["yield"]
        /\ Cardinality(Abandoned(s))' = Cardinality(Abandoned(s))
        /\ spent'[s] = spent[s] /\ forgotten'[s] = forgotten[s]
    BY <1>2 DEF Payments!Landed, Payments!VaultNonce, Abandoned
  <2>5. /\ Payments!Landed(s) \in Nat /\ moved[s]["yield"] \in Nat /\ Cardinality(Abandoned(s)) \in Nat
        /\ spent[s] \in Nat /\ spendRows[s] \in Nat /\ forgotten[s] \in Int /\ yieldRows[s] \in Nat
    BY <1>1, PayNumbers, PurposeNames
  <2> QED
    BY ONLY <2>2, <2>3, <2>4, <2>5
<1>12. split'.collected - split.collected + Weight(Collects(r)) - Weight(Collects(q))
           <= SumOf(SplitMoved, Payers)' - SumOf(SplitMoved, Payers)
  <2>1. Weight(Collects(r)) = 0 /\ Weight(Collects(q)) = 1
    BY <1>2, <1>3, <1>4, <1>9 DEF Weight, Collects
  <2>2. /\ SumOf(SplitMoved, Payers)' = SumOf(SplitMoved, Payers)
        /\ SumOf(SplitMoved, Payers) \in Nat
    BY <1>1, <1>2, PayNumbers DEF SplitMoved
  <2> QED
    BY <1>7, <2>1, <2>2
<1>13. hasPaid \subseteq hasPaid' /\ \A s \in Payers, o \in Payments!Purposes : moved[s][o] <= moved'[s][o]
  BY <1>1, <1>2, PayNumbers
<1> QED
  BY <1>5, <1>6, <1>8, <1>10, <1>11, <1>12, <1>13, PayChange

\* A movement of the yield vault is recorded by the request that made it.
LEMMA PayYield ==
  ASSUME PayInv, NEW h \in Handlers, Payments!RecordYield(h)
  PROVE  PayInv'
<1> DEFINE q == payHandler[h]
<1>1. /\ q \in PayRecords /\ PayHolds(q) /\ payHandler \in [Handlers -> PayRecords]
      /\ q.payer \in Payers /\ PayShapes /\ PayRows
  BY DEF PayInv, PayShapes, PayRecords
<1> DEFINE r == Payments!Idle
<1>2. /\ q.at = "confirmed" /\ q.op = "yield"
      /\ yieldRows' = [yieldRows EXCEPT ![q.payer] = @ + 1]
      /\ payHandler' = [payHandler EXCEPT ![h] = r]
      /\ UNCHANGED <<story, split, hasPaid, request, keyRow, cached, uncleared, spent, spendRows,
                     forgotten, payOrphans, moved, granted>>
  BY <1>1 DEF Payments!RecordYield, Payments!At, Payments!Return, Payments!keys, Payments!chain
<1>3. r \in PayRecords /\ payHandler' \in [Handlers -> PayRecords]
  BY <1>1, <1>2, PayIdle
<1>4. Payments!RevokedKeysAreNotCached'
  <2>1. \A g \in Handlers : payHandler[g].at = "uncache" => payHandler'[g] = payHandler[g]
    BY <1>1, <1>2
  <2> QED
    BY <1>2, <2>1, KeysKept
<1>5. /\ yieldRows' \in [Payers -> Nat]
      /\ \A s \in Payers : yieldRows[s] \in Nat /\ yieldRows'[s] = yieldRows[s] + Weight(s = q.payer)
  <2>1. yieldRows \in [Payers -> Nat] /\ yieldRows[q.payer] + 1 \in Nat
    BY <1>1 DEF PayShapes
  <2> QED
    BY <1>1, <1>2, <2>1 DEF Weight
<1>6. PayShapes'
  BY <1>1, <1>2, <1>3, <1>5 DEF PayShapes
<1>7. PayHolds(r)' /\ PayRows'
  BY <1>1, <1>2, PayIdle DEF PayHolds, PayRows
<1>8. ASSUME NEW s \in Payers
      PROVE  /\ Payments!Landed(s)' - Payments!Landed(s) + Weight(Moves(r, s))
                    - Weight(Moves(q, s))
                    + Cardinality(Abandoned(s))' - Cardinality(Abandoned(s))
                    <= spent'[s] - spent[s] + forgotten'[s] - forgotten[s]
               /\ yieldRows'[s] - yieldRows[s] + Weight(Yields(r, s))
                    - Weight(Yields(q, s)) <= moved'[s]["yield"] - moved[s]["yield"]
  <2>1. /\ ~Moves(r, s) /\ ~Moves(q, s)
        /\ ~Yields(r, s) /\ (Yields(q, s) <=> s = q.payer)
    BY <1>2, PayIdle DEF Moves, Yields
  <2>2. /\ Weight(Moves(r, s)) = 0 /\ Weight(Moves(q, s)) = 0
        /\ Weight(Yields(r, s)) = 0 /\ Weight(Yields(q, s)) = Weight(s = q.payer)
        /\ Weight(s = q.payer) \in Int
    BY ONLY <2>1 DEF Weight
  <2>3. spendRows'[s] = spendRows[s] /\ yieldRows'[s] = yieldRows[s] + Weight(s = q.payer)
    BY <1>2, <1>5
  <2>4. /\ Payments!Landed(s)' = Payments!Landed(s) /\ moved'[s]["yield"] = moved[s]["yield"]
        /\ Cardinality(Abandoned(s))' = Cardinality(Abandoned(s))
        /\ spent'[s] = spent[s] /\ forgotten'[s] = forgotten[s]
    BY <1>2 DEF Payments!Landed, Payments!VaultNonce, Abandoned
  <2>5. /\ Payments!Landed(s) \in Nat /\ moved[s]["yield"] \in Nat /\ Cardinality(Abandoned(s)) \in Nat
        /\ spent[s] \in Nat /\ spendRows[s] \in Nat /\ forgotten[s] \in Int /\ yieldRows[s] \in Nat
    BY <1>1, PayNumbers, PurposeNames
  <2> QED
    BY ONLY <2>2, <2>3, <2>4, <2>5
<1>9. split'.collected - split.collected + Weight(Collects(r)) - Weight(Collects(q))
          <= SumOf(SplitMoved, Payers)' - SumOf(SplitMoved, Payers)
  <2>1. Weight(Collects(r)) = 0 /\ Weight(Collects(q)) = 0
    BY <1>2, PayIdle DEF Weight, Collects
  <2>2. SumOf(SplitMoved, Payers)' = SumOf(SplitMoved, Payers)
    BY <1>2 DEF SplitMoved
  <2> QED
    BY <1>1, <1>2, <2>1, <2>2, PayNumbers
<1>10. hasPaid \subseteq hasPaid' /\ \A s \in Payers, o \in Payments!Purposes : moved[s][o] <= moved'[s][o]
  BY <1>1, <1>2, PayNumbers
<1> HIDE DEF r
<1> QED
  BY <1>2, <1>3, <1>4, <1>6, <1>7, <1>8, <1>9, <1>10, PayChange

\* No request moves: transactions land or are lost, and the events around them.
LEMMA PayStill ==
  ASSUME PayInv, PayShapes', PayRows',
         UNCHANGED <<payHandler, hasPaid, yieldRows, keyRow, cached, uncleared, spent, spendRows, forgotten>>,
         split'.collected = split.collected,
         \A p \in Payers, o \in Payments!Purposes : moved[p][o] <= moved'[p][o],
         \A p \in Payers : Payments!Landed(p)' + Cardinality(Abandoned(p))'
                             <= Payments!Landed(p) + Cardinality(Abandoned(p)),
         SumOf(SplitMoved, Payers) <= SumOf(SplitMoved, Payers)'
  PROVE  PayInv'
<1>1. PayShapes /\ PayCounters /\ PayCollected
  BY DEF PayInv
<1>2. PayNumeric'
  BY PayNumbersNext
<1>3. PayCounters'
  <2>1. ASSUME NEW p \in Payers
        PROVE  /\ Payments!Landed(p)' + Cardinality(Moving(p))' + Cardinality(Abandoned(p))'
                    <= spent'[p] + forgotten'[p]
               /\ yieldRows'[p] + Cardinality(Yielding(p))' <= moved'[p]["yield"]
    <3>1. Moving(p)' = Moving(p) /\ Yielding(p)' = Yielding(p)
      BY DEF Moving, Yielding
    <3>2. /\ Cardinality(Moving(p)) \in Nat
          /\ Cardinality(Yielding(p)) \in Nat /\ Cardinality(Abandoned(p)) \in Nat
          /\ Payments!Landed(p) \in Nat /\ moved[p]["yield"] \in Nat
          /\ spent[p] \in Nat /\ forgotten[p] \in Int /\ yieldRows[p] \in Nat
      BY <1>1, PayNumbers, PurposeNames
    <3>3. /\ Cardinality(Abandoned(p))' \in Nat /\ Payments!Landed(p)' \in Nat
          /\ moved'[p]["yield"] \in Nat
      BY <1>2 DEF PayNumeric
    <3>4. /\ Payments!Landed(p) + Cardinality(Moving(p)) + Cardinality(Abandoned(p))
               <= spent[p] + forgotten[p]
          /\ yieldRows[p] + Cardinality(Yielding(p)) <= moved[p]["yield"]
          /\ moved[p]["yield"] <= moved'[p]["yield"]
      BY <1>1, PurposeNames DEF PayCounters
    <3> QED
      BY <3>1, <3>2, <3>3, <3>4
  <2> QED
    BY <2>1 DEF PayCounters
<1>4. PayCollected'
  <2>1. Collecting' = Collecting
    BY DEF Collecting
  <2>2. /\ Cardinality(Collecting) \in Nat /\ split.collected \in Nat
        /\ SumOf(SplitMoved, Payers) \in Nat /\ SumOf(SplitMoved, Payers)' \in Nat
    BY <1>1, <1>2, PayNumbers DEF PayNumeric
  <2>3. split.collected + Cardinality(Collecting) <= SumOf(SplitMoved, Payers)
    BY <1>1 DEF PayCollected
  <2>4. split'.collected + Cardinality(Collecting)' <= SumOf(SplitMoved, Payers)'
    BY <2>1, <2>2, <2>3
  <2> QED
    BY <2>4 DEF PayCollected
<1>5. ASSUME NEW g \in Handlers PROVE PayHolds(payHandler[g])'
  BY PayHoldsKept
<1>6. Payments!RevokedKeysAreNotCached'
  BY KeysKept
<1> QED
  BY <1>3, <1>4, <1>5, <1>6 DEF PayInv

\* An abandoned transaction lands after all, or never.
LEMMA PayOrphans ==
  ASSUME PayInv, NEW tx \in payOrphans, Payments!LandOrphan(tx) \/ Payments!DropOrphan(tx)
  PROVE  PayInv'
<1>1. PayShapes /\ PayRows
  BY DEF PayInv
<1>2. /\ tx \in PayTransactions /\ tx.payer \in Payers /\ tx.op \in Payments!Purposes
      /\ IsFiniteSet(payOrphans) /\ payOrphans \subseteq PayTransactions
  BY <1>1 DEF PayShapes, PayTransactions
<1>3. /\ payOrphans' = payOrphans \ {tx} /\ (Executed(tx.payer, tx.op) \/ UNCHANGED moved)
      /\ UNCHANGED <<story, split, hasPaid, request, yieldRows, keyRow, cached, uncleared, spent,
                     spendRows, forgotten, payHandler, granted>>
  BY DEF Payments!LandOrphan, Payments!DropOrphan, Payments!Execute, Payments!rows,
         Payments!keys, Payments!chain, Executed
<1>4. ASSUME NEW p \in Payers
      PROVE  /\ IsFiniteSet(payOrphans')
             /\ Cardinality(Abandoned(p)) \in Nat /\ Cardinality(Abandoned(p))' \in Nat
             /\ Cardinality(Abandoned(p))' = Cardinality(Abandoned(p)) - Weight(tx.payer = p)
  <2>1. IsFiniteSet(payOrphans) /\ payOrphans' = payOrphans \ {tx} /\ tx \in payOrphans
    BY <1>2, <1>3
  <2>2. /\ IsFiniteSet(payOrphans')
        /\ Cardinality(PaidBy(payOrphans, p)) \in Nat /\ Cardinality(PaidBy(payOrphans', p)) \in Nat
        /\ Cardinality(PaidBy(payOrphans', p))
             = Cardinality(PaidBy(payOrphans, p)) - Weight(tx.payer = p)
    BY ONLY <2>1, AbandonedLess
  <2> QED
    BY <2>2 DEF Abandoned
<1>5. IsFiniteSet(payOrphans') /\ payOrphans' \subseteq PayTransactions
  BY <1>2, <1>3, <1>4
<1>6. CASE Executed(tx.payer, tx.op)
  <2>1. /\ moved' \in [Payers -> [Payments!Purposes -> Nat]]
        /\ \A s \in Payers, x \in Payments!Purposes :
             moved'[s][x] \in Nat /\ moved[s][x] <= moved'[s][x]
        /\ \A s \in Payers : Payments!Landed(s)' = Payments!Landed(s) + Weight(s = tx.payer)
        /\ SumOf(SplitMoved, Payers)' = SumOf(SplitMoved, Payers) + Weight(tx.op = "split")
    BY <1>1, <1>2, <1>6, PayExecuted
  <2>2. PayShapes'
    BY <1>1, <1>3, <1>5, <2>1 DEF PayShapes
  <2>3. PayRows'
    <3>1. \A s \in Payers : /\ moved[s]["split"] \in Nat /\ moved'[s]["split"] \in Nat
                            /\ moved[s]["split"] <= moved'[s]["split"]
                            /\ moved[s]["request"] \in Nat /\ moved'[s]["request"] \in Nat
                            /\ moved[s]["request"] <= moved'[s]["request"]
      BY <1>1, <2>1, PayNumbers, PurposeNames
    <3>2. hasPaid \subseteq Payers /\ Debtor \in Payers
      BY <1>1, ChatAssumption DEF PayShapes
    <3> QED
      BY <1>1, <1>3, <3>1, <3>2 DEF PayRows
  <2>4. ASSUME NEW s \in Payers
        PROVE  Payments!Landed(s)' + Cardinality(Abandoned(s))'
                 <= Payments!Landed(s) + Cardinality(Abandoned(s))
    <3>1. Weight(s = tx.payer) = Weight(tx.payer = s) /\ Weight(tx.payer = s) \in Int
      BY DEF Weight
    <3>2. Payments!Landed(s) \in Nat /\ Payments!Landed(s)' = Payments!Landed(s) + Weight(s = tx.payer)
      BY <1>1, <2>1, PayNumbers
    <3>3. /\ Cardinality(Abandoned(s)) \in Nat
          /\ Cardinality(Abandoned(s))' = Cardinality(Abandoned(s)) - Weight(tx.payer = s)
      BY <1>4
    <3> QED
      BY ONLY <3>1, <3>2, <3>3
  <2>5. SumOf(SplitMoved, Payers) <= SumOf(SplitMoved, Payers)'
    <3>1. Weight(tx.op = "split") \in Nat
      BY DEF Weight
    <3> QED
      BY <1>1, <2>1, <3>1, PayNumbers
  <2>6. split'.collected = split.collected
    BY <1>3
  <2> QED
    BY <1>3, <2>1, <2>2, <2>3, <2>4, <2>5, <2>6, PayStill
<1>7. CASE UNCHANGED moved
  <2>1. PayShapes' /\ PayRows'
    BY <1>1, <1>3, <1>5, <1>7 DEF PayShapes, PayRows
  <2>2. ASSUME NEW s \in Payers
        PROVE  Payments!Landed(s)' + Cardinality(Abandoned(s))'
                 <= Payments!Landed(s) + Cardinality(Abandoned(s))
    <3>1. Weight(tx.payer = s) \in Nat
      BY DEF Weight
    <3>2. Payments!Landed(s) \in Nat /\ Payments!Landed(s)' = Payments!Landed(s)
      BY <1>1, <1>7, PayNumbers DEF Payments!Landed, Payments!VaultNonce
    <3>3. /\ Cardinality(Abandoned(s)) \in Nat
          /\ Cardinality(Abandoned(s))' = Cardinality(Abandoned(s)) - Weight(tx.payer = s)
      BY <1>4
    <3> QED
      BY ONLY <3>1, <3>2, <3>3
  <2>3. SumOf(SplitMoved, Payers) <= SumOf(SplitMoved, Payers)'
    BY <1>1, <1>7, PayNumbers DEF SplitMoved
  <2>4. \A p \in Payers, o \in Payments!Purposes : moved[p][o] <= moved'[p][o]
    BY <1>1, <1>7, PayNumbers
  <2>5. split'.collected = split.collected
    BY <1>3
  <2> QED
    BY <1>3, <2>1, <2>2, <2>3, <2>4, <2>5, PayStill
<1> QED
  BY <1>3, <1>6, <1>7

\* Grants end, requests are cancelled and deadlines pass.
LEMMA PayEvents ==
  ASSUME PayInv,
         (\E p \in Payers : Payments!EndGrant(p)) \/ Payments!CancelRequest \/ Payments!DeadlinePasses
  PROVE  PayInv'
<1>1. PayShapes /\ PayRows
  BY DEF PayInv
<1>2. /\ granted' \subseteq granted /\ (request' = request \/ request' = "CANCELLED")
      /\ UNCHANGED <<story, split, hasPaid, yieldRows, keyRow, cached, uncleared, spent, spendRows,
                     forgotten, payHandler, payOrphans, moved>>
  BY DEF Payments!EndGrant, Payments!CancelRequest, Payments!DeadlinePasses, Payments!rows,
         Payments!keys, Payments!chain
<1>3. PayShapes' /\ PayRows'
  BY <1>1, <1>2 DEF PayShapes, PayRows
<1>4. ASSUME NEW s \in Payers
      PROVE  Payments!Landed(s)' + Cardinality(Abandoned(s))'
               <= Payments!Landed(s) + Cardinality(Abandoned(s))
  <2>1. Payments!Landed(s)' = Payments!Landed(s) /\ Abandoned(s)' = Abandoned(s)
    BY <1>2 DEF Payments!Landed, Payments!VaultNonce, Abandoned
  <2>2. Payments!Landed(s) \in Nat /\ Cardinality(Abandoned(s)) \in Nat
    BY <1>1, PayNumbers
  <2> QED
    BY <2>1, <2>2
<1>5. SumOf(SplitMoved, Payers) <= SumOf(SplitMoved, Payers)'
  BY <1>1, <1>2, PayNumbers DEF SplitMoved
<1>6. /\ \A p \in Payers, o \in Payments!Purposes : moved[p][o] <= moved'[p][o]
      /\ split'.collected = split.collected
  BY <1>1, <1>2, PayNumbers
<1> QED
  BY <1>2, <1>3, <1>4, <1>5, <1>6, PayStill

\* A restart leaves the requests and the counters it leaves; what it drops from
\* a counter is history.
LEMMA PayResume ==
  ASSUME PayInv, NEW c \in SUBSET Payers, NEW counter \in [Payers -> Nat],
         Payments!Resume(c, counter), uncleared' \subseteq Payers,
         Payments!RevokedKeysAreNotCached'
  PROVE  PayInv'
<1>1. PayShapes /\ PayCounters /\ PayCollected /\ PayRows
  BY DEF PayInv
<1>2. /\ cached' = c /\ spent' = counter
      /\ forgotten' = [p \in Payers |-> forgotten[p] + spent[p] - counter[p]]
      /\ payHandler' = [h \in Handlers |-> Payments!Idle]
      /\ UNCHANGED <<story, split, hasPaid, request, yieldRows, keyRow, spendRows,
                     payOrphans, moved, granted>>
  BY DEF Payments!Resume, Payments!rows, Payments!chain
<1>3. ASSUME NEW p \in Payers
      PROVE  /\ spent[p] \in Nat /\ spendRows[p] \in Nat /\ forgotten[p] \in Int
             /\ counter[p] \in Nat
             /\ yieldRows[p] \in Nat /\ moved[p]["yield"] \in Nat
             /\ Payments!Landed(p) \in Nat /\ Cardinality(Abandoned(p)) \in Nat
             /\ Cardinality(Moving(p)) \in Nat /\ Cardinality(Yielding(p)) \in Nat
  BY <1>1, PayNumbers, PurposeNames
<1>4. /\ spent' \in [Payers -> Nat] /\ forgotten' \in [Payers -> Int]
      /\ \A p \in Payers : forgotten'[p] = forgotten[p] + spent[p] - counter[p]
  <2>1. \A p \in Payers : forgotten[p] + spent[p] - counter[p] \in Int
    BY <1>3
  <2> QED
    BY <1>2, <2>1
<1>5. /\ payHandler' \in [Handlers -> PayRecords]
      /\ \A h \in Handlers : payHandler'[h] = Payments!Idle
  BY <1>2, PayIdle
<1>6. PayShapes'
  BY <1>1, <1>2, <1>4, <1>5 DEF PayShapes
<1>7. (\A p \in Payers : Moving(p)' = {} /\ Yielding(p)' = {}) /\ Collecting' = {}
  BY <1>5, PayIdle DEF Moving, Yielding, Collecting
<1>8. PayCounters'
  <2>1. ASSUME NEW p \in Payers
        PROVE  /\ Payments!Landed(p)' + Cardinality(Moving(p))' + Cardinality(Abandoned(p))'
                    <= spent'[p] + forgotten'[p]
               /\ yieldRows'[p] + Cardinality(Yielding(p))' <= moved'[p]["yield"]
    <3>1. Cardinality(Moving(p))' = 0 /\ Cardinality(Yielding(p))' = 0
      BY <1>7, NoneCounted
    <3>2. Payments!Landed(p)' = Payments!Landed(p) /\ Abandoned(p)' = Abandoned(p)
      BY <1>2 DEF Payments!Landed, Payments!VaultNonce, Abandoned
    <3>3. /\ Payments!Landed(p) + Cardinality(Moving(p)) + Cardinality(Abandoned(p))
               <= spent[p] + forgotten[p]
          /\ yieldRows[p] + Cardinality(Yielding(p)) <= moved[p]["yield"]
      BY <1>1 DEF PayCounters
    <3> QED
      BY <1>2, <1>3, <1>4, <3>1, <3>2, <3>3
  <2> QED
    BY <2>1 DEF PayCounters
<1>9. PayCollected'
  <2>1. Cardinality(Collecting)' = 0 /\ SplitMoved' = SplitMoved
    BY <1>2, <1>7, NoneCounted DEF SplitMoved
  <2>2. /\ Cardinality(Collecting) \in Nat /\ split.collected \in Nat
        /\ SumOf(SplitMoved, Payers) \in Nat
        /\ split.collected + Cardinality(Collecting) <= SumOf(SplitMoved, Payers)
    BY <1>1, PayNumbers DEF PayCollected
  <2>3. split'.collected + Cardinality(Collecting)' <= SumOf(SplitMoved, Payers)'
    BY <1>2, <2>1, <2>2
  <2> QED
    BY <2>3 DEF PayCollected
<1>10. PayRows'
  BY <1>1, <1>2 DEF PayRows
<1>11. ASSUME NEW g \in Handlers PROVE PayHolds(payHandler[g])'
  BY <1>5, PayIdle DEF PayHolds
<1> QED
  BY <1>6, <1>8, <1>9, <1>10, <1>11 DEF PayInv

\* A warm-up that emptied Redis sets only keys that are not revoked; one that
\* did not leaves revoked keys whose removal failed, or never began.
LEMMA PayRestart ==
  ASSUME PayInv, NEW c \in SUBSET Payers, NEW s \in SUBSET Payers,
         Payments!Restart(c, s) \/ Payments!RestartUncleared(c, s)
  PROVE  PayInv'
<1>1. PayShapes
  BY DEF PayInv
<1>2. CASE Payments!Restart(c, s)
  <2> DEFINE counter == [p \in Payers |-> IF p \in s THEN spendRows[p] ELSE 0]
  <2>1. c \subseteq Payments!WarmKeys /\ Payments!Resume(c, counter) /\ uncleared' = {}
    BY <1>2 DEF Payments!Restart
  <2>2. counter \in [Payers -> Nat]
    BY <1>1 DEF PayShapes
  <2> HIDE DEF counter
  <2>3. cached' = c /\ keyRow' = keyRow
    BY <2>1 DEF Payments!Resume
  <2>4. Payments!RevokedKeysAreNotCached'
    BY <2>1, <2>3 DEF Payments!RevokedKeysAreNotCached, Payments!WarmKeys
  <2> QED
    BY <2>1, <2>2, <2>4, PayResume
<1>3. CASE Payments!RestartUncleared(c, s)
  <2> DEFINE counter == [p \in Payers |-> IF p \in s THEN spent[p] ELSE 0]
             cutOff == {payHandler[h].payer : h \in {g \in Handlers : Payments!At(g, "uncache")}}
  <2>1. /\ c \subseteq cached /\ Payments!Resume(c, counter)
        /\ uncleared' = uncleared \cup cutOff
    BY <1>3 DEF Payments!RestartUncleared
  <2>2. counter \in [Payers -> Nat]
    BY <1>1 DEF PayShapes
  <2> HIDE DEF counter
  <2>3. cached' = c /\ keyRow' = keyRow
    BY <2>1 DEF Payments!Resume
  <2>4. cutOff \subseteq Payers /\ uncleared \subseteq Payers
    BY <1>1 DEF PayShapes, PayRecords
  <2>5. \A h \in Handlers : Payments!At(h, "uncache") => payHandler[h].payer \in cutOff
    OBVIOUS
  <2> HIDE DEF cutOff
  <2>6. ASSUME NEW p \in cached', keyRow'[p] = "REVOKED" PROVE p \in uncleared'
    <3>1. \/ p \in uncleared
          \/ \E h \in Handlers : Payments!At(h, "uncache") /\ payHandler[h].payer = p
      BY <2>1, <2>3, <2>6 DEF PayInv, Payments!RevokedKeysAreNotCached
    <3> QED
      BY <2>1, <2>5, <3>1
  <2>7. Payments!RevokedKeysAreNotCached'
    BY <2>6 DEF Payments!RevokedKeysAreNotCached
  <2>8. uncleared' \subseteq Payers
    BY <2>1, <2>4
  <2> QED
    BY <2>1, <2>2, <2>7, <2>8, PayResume
<1> QED
  BY <1>2, <1>3

LEMMA PayStep == PayInv /\ Payments!Next => PayInv'
<1> SUFFICES ASSUME PayInv, Payments!Next PROVE PayInv'
  OBVIOUS
<1>1. ASSUME NEW h \in Handlers, Payments!Step(h) \/ Payments!BeginRequest(h) PROVE PayInv'
  BY <1>1, PayReads, PayWrites, PayReserve, PayLand, PayConfirm, PayCollect, PayYield
    DEF Payments!Step
<1>2. ASSUME NEW h \in Handlers, NEW p \in Payers,
             Payments!BeginSplit(h, p) \/ Payments!BeginYield(h, p) \/ Payments!RevokeRow(h, p)
      PROVE  PayInv'
  BY <1>2, PayReads, PayWrites
<1> QED
  BY <1>1, <1>2, PayGiveUp, PayOrphans, PayEvents, PayRestart DEF Payments!Next

LEMMA PayStutter == PayInv /\ UNCHANGED paymentVars => PayInv'
<1> SUFFICES ASSUME PayInv, UNCHANGED paymentVars PROVE PayInv'
  OBVIOUS
<1>1. PayShapes /\ PayRows
  BY DEF PayInv
<1>2. UNCHANGED <<story, split, hasPaid, request, yieldRows, keyRow, cached, uncleared, spent, spendRows,
                  forgotten, payHandler, payOrphans, moved, granted>>
  BY DEF paymentVars
<1>3. PayShapes' /\ PayRows'
  BY <1>1, <1>2 DEF PayShapes, PayRows
<1>4. ASSUME NEW s \in Payers
      PROVE  Payments!Landed(s)' + Cardinality(Abandoned(s))'
               <= Payments!Landed(s) + Cardinality(Abandoned(s))
  <2>1. Payments!Landed(s)' = Payments!Landed(s) /\ Abandoned(s)' = Abandoned(s)
    BY <1>2 DEF Payments!Landed, Payments!VaultNonce, Abandoned
  <2>2. Payments!Landed(s) \in Nat /\ Cardinality(Abandoned(s)) \in Nat
    BY <1>1, PayNumbers
  <2> QED
    BY <2>1, <2>2
<1>5. SumOf(SplitMoved, Payers) <= SumOf(SplitMoved, Payers)'
  BY <1>1, <1>2, PayNumbers DEF SplitMoved
<1>6. /\ \A p \in Payers, o \in Payments!Purposes : moved[p][o] <= moved'[p][o]
      /\ split'.collected = split.collected
  BY <1>1, <1>2, PayNumbers
<1> QED
  BY <1>2, <1>3, <1>4, <1>5, <1>6, PayStill

-----------------------------------------------------------------------------
(* Session payments: what a restart may cost.                              *)

\* A restart drops from a counter at most what was reserved on it, and nothing
\* is reserved beyond the limit.
Quota ==
  /\ restarts \in Nat
  /\ \A p \in Payers :
       /\ forgotten[p] <= DailyLimit * restarts
       /\ spent[p] + forgotten[p] <= DailyLimit * (restarts + 1)
       /\ spent[p] <= DailyLimit \/ spent[p] <= spendRows[p]

LEMMA QuotaInit == Payments!Init => Quota
<1> SUFFICES ASSUME Payments!Init PROVE Quota
  OBVIOUS
<1>1. /\ restarts = 0
      /\ \A p \in Payers : spent[p] = 0 /\ forgotten[p] = 0 /\ spendRows[p] = 0
  BY DEF Payments!Init
<1> QED
  BY <1>1, ChatAssumption DEF Quota

\* Neither the counters nor the history changes.
LEMMA QuotaKept ==
  ASSUME PayShapes, Quota, UNCHANGED <<spent, forgotten, restarts>>,
         \A p \in Payers : spendRows'[p] \in Nat /\ spendRows[p] <= spendRows'[p]
  PROVE  Quota'
<1>1. \A p \in Payers : spent[p] \in Nat /\ spendRows[p] \in Nat
  BY PayNumbers
<1>2. restarts' \in Nat
  BY DEF Quota
<1>3. ASSUME NEW p \in Payers
      PROVE  /\ forgotten'[p] <= DailyLimit * restarts'
             /\ spent'[p] + forgotten'[p] <= DailyLimit * (restarts' + 1)
  BY DEF Quota
<1>4. ASSUME NEW p \in Payers PROVE spent'[p] <= DailyLimit \/ spent'[p] <= spendRows'[p]
  <2>1. spent[p] <= DailyLimit \/ spent[p] <= spendRows[p]
    BY DEF Quota
  <2> QED
    BY <1>1, <2>1
<1> QED
  BY <1>2, <1>3, <1>4 DEF Quota

LEMMA QuotaReserve ==
  ASSUME PayShapes, Quota, NEW p \in Payers, Payments!Allowed(p),
         spent' = [spent EXCEPT ![p] = @ + 1], UNCHANGED <<spendRows, forgotten, restarts>>
  PROVE  Quota'
<1> DEFINE before == DailyLimit * restarts
           after == DailyLimit * (restarts + 1)
<1>1. before \in Nat /\ after = before + DailyLimit /\ restarts \in Nat /\ DailyLimit \in Nat
  BY ChatAssumption DEF Quota
<1> HIDE DEF before, after
<1>2. ASSUME NEW s \in Payers
      PROVE  /\ spent[s] \in Nat /\ forgotten[s] \in Int /\ spendRows[s] \in Nat
             /\ forgotten[s] <= before /\ spent[s] + forgotten[s] <= after
             /\ spent[s] <= DailyLimit \/ spent[s] <= spendRows[s]
  BY PayNumbers DEF Quota, before, after
<1>3. spent'[p] = spent[p] + 1 /\ \A s \in Payers : s # p => spent'[s] = spent[s]
  BY DEF PayShapes
<1>4. spent[p] + 1 <= DailyLimit
  BY DEF Payments!Allowed
<1>5. ASSUME NEW s \in Payers
      PROVE  /\ forgotten'[s] <= before /\ spent'[s] + forgotten'[s] <= after
             /\ spent'[s] <= DailyLimit \/ spent'[s] <= spendRows'[s]
  <2>1. CASE s = p
    BY <1>1, <1>2, <1>3, <1>4, <2>1
  <2>2. CASE s # p
    BY <1>2, <1>3, <2>2
  <2> QED
    BY <2>1, <2>2
<1> QED
  BY <1>1, <1>5 DEF Quota, before, after

LEMMA QuotaResume ==
  ASSUME PayShapes, Quota, NEW c, NEW counter \in [Payers -> Nat], Payments!Resume(c, counter),
         \A p \in Payers : counter[p] <= DailyLimit \/ counter[p] <= spendRows[p]
  PROVE  Quota'
<1> DEFINE before == DailyLimit * restarts
           after == DailyLimit * (restarts + 1)
           then == DailyLimit * (restarts + 1 + 1)
<1>1. /\ before \in Nat /\ after = before + DailyLimit /\ then = after + DailyLimit
      /\ restarts \in Nat /\ DailyLimit \in Nat
  BY ChatAssumption DEF Quota
<1>2. /\ restarts' = restarts + 1 /\ spent' = counter /\ spendRows' = spendRows
      /\ forgotten' = [p \in Payers |-> forgotten[p] + spent[p] - counter[p]]
  BY DEF Payments!Resume
<1> HIDE DEF before, after, then
<1>3. ASSUME NEW p \in Payers
      PROVE  forgotten'[p] <= after /\ spent'[p] + forgotten'[p] <= then
  <2>1. /\ spent[p] \in Nat /\ forgotten[p] \in Int /\ counter[p] \in Nat
        /\ spent[p] + forgotten[p] <= after
    BY PayNumbers DEF Quota, after
  <2>2. spent'[p] = counter[p] /\ forgotten'[p] = forgotten[p] + spent[p] - counter[p]
    BY <1>2
  <2> QED
    BY ONLY <1>1, <2>1, <2>2
<1> QED
  BY <1>1, <1>2, <1>3 DEF Quota, after, then

LEMMA QuotaStep == PayShapes /\ Quota /\ Payments!Next => Quota'
<1> SUFFICES ASSUME PayShapes, Quota, Payments!Next PROVE Quota'
  OBVIOUS
<1>1. \A p \in Payers : spendRows[p] \in Nat /\ spendRows[p] <= spendRows[p] /\ spent[p] \in Nat
  BY PayNumbers
<1>2. CASE UNCHANGED <<spent, forgotten, restarts, spendRows>>
  BY <1>1, <1>2, QuotaKept
<1>3. ASSUME NEW h \in Handlers, Payments!Reserve(h) \/ Payments!RefuseReserve(h) PROVE Quota'
  <2>1. payHandler[h].payer \in Payers
    BY DEF PayShapes, PayRecords
  <2>2. CASE UNCHANGED spent
    BY <1>2, <1>3, <2>2 DEF Payments!Reserve, Payments!RefuseReserve
  <2>3. CASE spent' # spent
    <3>1. PICK p \in Payers : /\ Payments!Allowed(p) /\ spent' = [spent EXCEPT ![p] = @ + 1]
                              /\ UNCHANGED <<spendRows, forgotten, restarts>>
      BY <1>3, <2>1, <2>3 DEF Payments!Reserve, Payments!RefuseReserve
    <3> QED
      BY <3>1, QuotaReserve
  <2> QED
    BY <2>2, <2>3
<1>4. ASSUME NEW h \in Handlers, NEW recorded \in BOOLEAN, Payments!Confirm(h, recorded)
      PROVE  Quota'
  <2>1. payHandler[h].payer \in Payers /\ spendRows \in [Payers -> Nat]
    BY DEF PayShapes, PayRecords
  <2>2. /\ UNCHANGED <<spent, forgotten, restarts>>
        /\ spendRows' = IF recorded THEN [spendRows EXCEPT ![payHandler[h].payer] = @ + 1]
                                    ELSE spendRows
    BY <1>4 DEF Payments!Confirm
  <2>3. \A p \in Payers : spendRows'[p] \in Nat /\ spendRows[p] <= spendRows'[p]
    BY <1>1, <2>1, <2>2
  <2> QED
    BY <2>2, <2>3, QuotaKept
<1>5. ASSUME NEW c \in SUBSET Payers, NEW s \in SUBSET Payers, Payments!Restart(c, s)
      PROVE  Quota'
  <2> DEFINE counter == [p \in Payers |-> IF p \in s THEN spendRows[p] ELSE 0]
  <2>1. Payments!Resume(c, counter)
    BY <1>5 DEF Payments!Restart
  <2>2. /\ counter \in [Payers -> Nat]
        /\ \A p \in Payers : counter[p] <= DailyLimit \/ counter[p] <= spendRows[p]
    BY <1>1, ChatAssumption
  <2> HIDE DEF counter
  <2> QED
    BY <2>1, <2>2, QuotaResume
<1>6. ASSUME NEW c \in SUBSET Payers, NEW s \in SUBSET Payers, Payments!RestartUncleared(c, s)
      PROVE  Quota'
  <2> DEFINE counter == [p \in Payers |-> IF p \in s THEN spent[p] ELSE 0]
  <2>1. Payments!Resume(c, counter)
    BY <1>6 DEF Payments!RestartUncleared
  <2>2. /\ counter \in [Payers -> Nat]
        /\ \A p \in Payers : counter[p] <= DailyLimit \/ counter[p] <= spendRows[p]
    BY <1>1, ChatAssumption DEF Quota
  <2> HIDE DEF counter
  <2> QED
    BY <2>1, <2>2, QuotaResume
<1>7. ASSUME NEW h \in Handlers, Payments!Step(h) \/ Payments!BeginRequest(h) PROVE Quota'
  <2>1. CASE Payments!Step(h)
    BY <1>2, <1>3, <1>4, <2>1
      DEF Payments!Step, Payments!ExpireSplit, Payments!ReadNonce, Payments!CheckGrant,
          Payments!RefuseGrant, Payments!Land, Payments!RecordRequest, Payments!MarkPaid,
          Payments!Collect, Payments!SplitStatus, Payments!RecordYield, Payments!Uncache,
          Payments!keys
  <2> QED
    BY <1>2, <1>7, <2>1 DEF Payments!BeginRequest, Payments!keys
<1>8. ASSUME NEW h \in Handlers, NEW p \in Payers,
             Payments!BeginSplit(h, p) \/ Payments!BeginYield(h, p) \/ Payments!RevokeRow(h, p)
      PROVE  Quota'
  BY <1>2, <1>8 DEF Payments!BeginSplit, Payments!BeginYield, Payments!RevokeRow, Payments!keys
<1> QED
  BY <1>2, <1>5, <1>6, <1>7, <1>8
    DEF Payments!Next, Payments!GiveUp, Payments!LandOrphan, Payments!DropOrphan,
        Payments!EndGrant, Payments!CancelRequest, Payments!DeadlinePasses, Payments!keys

LEMMA QuotaStutter == Quota /\ UNCHANGED paymentVars => Quota'
BY DEF Quota, paymentVars

-----------------------------------------------------------------------------
(* Session payments: what the run checks.                                 *)

\* The sum in RecordedPaymentsLanded is the sum of the proof.
SplitTerm(s, g) == IF s = {} THEN 0 ELSE moved[Pick(s)]["split"] + g[s \ {Pick(s)}]
IsSplitFold(g) == g = [s \in SUBSET Payers |-> SplitTerm(s, g)]

LEMMA SplitSum ==
  Payments!MapThenSumSet(LAMBDA p : moved[p]["split"], Payers) = SumOf(SplitMoved, Payers)
<1> DEFINE f == SplitMoved
           G == CHOOSE g : IsSplitFold(g)
<1>1. Payments!MapThenSumSet(LAMBDA p : moved[p]["split"], Payers) = G[Payers]
  BY Zenon DEF Payments!MapThenSumSet, Payments!MapThenFoldSet, IsSplitFold, SplitTerm, Pick
<1>2. ASSUME NEW g PROVE IsSplitFold(g) <=> IsFold(g, f, Payers)
  <2>1. ASSUME NEW s \in SUBSET Payers
        PROVE  SplitTerm(s, g) = IF s = {} THEN 0 ELSE f[Pick(s)] + g[s \ {Pick(s)}]
    <3>1. CASE s = {}
      BY <3>1 DEF SplitTerm
    <3>2. CASE s # {}
      <4>1. Pick(s) \in Payers
        BY <3>2, PickIn
      <4>2. f[Pick(s)] = moved[Pick(s)]["split"]
        BY <4>1 DEF SplitMoved
      <4> QED
        BY <3>2, <4>2 DEF SplitTerm
    <3> QED
      BY <3>1, <3>2
  <2>2. [s \in SUBSET Payers |-> SplitTerm(s, g)]
          = [s \in SUBSET Payers |-> IF s = {} THEN 0 ELSE f[Pick(s)] + g[s \ {Pick(s)}]]
    BY <2>1
  <2> QED
    BY <2>2 DEF IsSplitFold, IsFold
<1>3. IsFold(Fold(f, Payers), f, Payers)
  BY ChatAssumption, FoldExists
<1>4. IsSplitFold(G)
  <2>1. \E g : IsSplitFold(g)
    BY <1>2, <1>3
  <2> QED
    BY <2>1
<1>5. IsFold(G, f, Payers)
  BY <1>2, <1>4
<1> HIDE DEF f, G
<1>6. G[Payers] = Fold(f, Payers)[Payers]
  <2>1. Payers \in SUBSET (Payers \cap Payers) /\ IsFiniteSet(Payers)
    BY ChatAssumption
  <2> QED
    BY <1>3, <1>5, <2>1, FoldsAgree
<1>7. SumOf(f, Payers) = Fold(f, Payers)[Payers]
  BY SumIsFold
<1> QED
  BY <1>1, <1>6, <1>7 DEF f

LEMMA PayProperties ==
  PayInv /\ Quota => /\ Payments!TypeOK /\ Payments!RecordedPaymentsLanded
            /\ Payments!LimitPerRestart /\ Payments!RevokedKeysAreNotCached
<1> SUFFICES ASSUME PayInv, Quota
             PROVE  /\ Payments!TypeOK /\ Payments!RecordedPaymentsLanded
                    /\ Payments!LimitPerRestart /\ Payments!RevokedKeysAreNotCached
  OBVIOUS
<1>1. PayShapes /\ PayCounters /\ PayCollected /\ PayRows /\ Payments!RevokedKeysAreNotCached
  BY DEF PayInv
<1>2. Payments!TypeOK
  <2>1. ASSUME NEW p \in Payers
        PROVE  /\ spent[p] >= 0 /\ spendRows[p] >= 0
               /\ spent[p] <= DailyLimit \/ spent[p] <= spendRows[p]
    BY <1>1, PayNumbers DEF Quota
  <2> QED
    BY <1>1, <2>1 DEF PayShapes, Payments!TypeOK
<1>3. Payments!RecordedPaymentsLanded
  <2>1. split.collected <= SumOf(SplitMoved, Payers)
    BY <1>1, PayNumbers DEF PayCollected
  <2>2. \A p \in Payers : yieldRows[p] <= moved[p]["yield"]
    BY <1>1, PayNumbers, PurposeNames DEF PayCounters
  <2>3. split.collected <= Payments!MapThenSumSet(LAMBDA p : moved[p]["split"], Payers)
    BY <2>1, SplitSum
  <2> QED
    BY <1>1, <2>2, <2>3 DEF PayRows, Payments!RecordedPaymentsLanded
<1>4. Payments!LimitPerRestart
  <2>1. ASSUME NEW p \in Payers
        PROVE  Payments!Landed(p) + Payments!Cardinality(Payments!InFlight(p))
                 + Payments!Cardinality(Payments!Late(p)) <= DailyLimit * (restarts + 1)
    <3>1. Payments!InFlight(p) \subseteq Moving(p) /\ IsFiniteSet(Moving(p))
      BY ChatAssumption, FS_Subset DEF Payments!InFlight, Payments!At, Moving, Moves
    <3>2. /\ Cardinality(Payments!InFlight(p)) <= Cardinality(Moving(p))
          /\ Cardinality(Payments!InFlight(p)) \in Nat
      BY <3>1, FS_Subset, FS_CardinalityType
    <3>3. Payments!Late(p) = Abandoned(p)
      BY DEF Payments!Late, Abandoned, PaidBy
    <3>4. /\ Cardinality(Moving(p)) \in Nat /\ Cardinality(Abandoned(p)) \in Nat
          /\ Payments!Landed(p) \in Nat /\ spent[p] + forgotten[p] \in Int
          /\ Payments!Landed(p) + Cardinality(Moving(p)) + Cardinality(Abandoned(p))
               <= spent[p] + forgotten[p]
      BY <1>1, PayNumbers DEF PayCounters
    <3>5. /\ spent[p] + forgotten[p] <= DailyLimit * (restarts + 1)
          /\ DailyLimit * (restarts + 1) \in Int
      BY ChatAssumption DEF Quota
    <3>6. Payments!Landed(p) + Cardinality(Payments!InFlight(p)) + Cardinality(Abandoned(p))
            <= DailyLimit * (restarts + 1)
      <4> DEFINE bound == DailyLimit * (restarts + 1)
      <4> HIDE DEF bound
      <4>1. spent[p] + forgotten[p] <= bound /\ bound \in Int
        BY <3>5 DEF bound
      <4>2. Payments!Landed(p) + Cardinality(Payments!InFlight(p)) + Cardinality(Abandoned(p))
              <= bound
        BY ONLY <3>2, <3>4, <4>1
      <4> QED
        BY <4>2 DEF bound
    <3> QED
      BY <3>3, <3>6, OneCardinality
  <2> QED
    BY <2>1 DEF Payments!LimitPerRestart
<1> QED
  BY <1>1, <1>2, <1>3, <1>4

-----------------------------------------------------------------------------
(* The composition.                                                        *)

IInv == EnvInv /\ PayInv /\ Quota /\ RefInv

LEMMA IInvInit == Init => IInv
BY EnvInit, PayInit, QuotaInit, RefInit DEF Init, IInv

LEMMA IInvNext == IInv /\ [Next]_vars => IInv'
<1> SUFFICES ASSUME IInv, [Next]_vars PROVE IInv'
  OBVIOUS
<1>1. EnvInv /\ PayInv /\ PayShapes /\ Quota /\ RefInv
  BY DEF IInv, PayInv
<1>2. CASE Envelopes!Next /\ UNCHANGED <<paymentVars, referralVars>>
  BY <1>1, <1>2, EnvStep, PayStutter, QuotaStutter, RefStutter DEF IInv
<1>3. CASE Payments!Next /\ UNCHANGED <<envelopeVars, referralVars>>
  BY <1>1, <1>3, PayStep, QuotaStep, EnvStutter, RefStutter DEF IInv
<1>4. CASE Referring!Next /\ UNCHANGED <<envelopeVars, paymentVars>>
  BY <1>1, <1>4, RefStep, EnvStutter, PayStutter, QuotaStutter DEF IInv
<1>5. CASE UNCHANGED vars
  <2>1. UNCHANGED envelopeVars /\ UNCHANGED paymentVars /\ UNCHANGED referralVars
    BY <1>5 DEF vars
  <2> QED
    BY <1>1, <2>1, EnvStutter, PayStutter, QuotaStutter, RefStutter DEF IInv
<1> QED
  BY <1>2, <1>3, <1>4, <1>5 DEF Next

LEMMA IInvHolds == Spec => []IInv
BY IInvInit, IInvNext, PTL DEF Spec

LEMMA IInvProperties ==
  IInv => /\ TypeOK /\ ClaimsArePaid /\ NeverShutEarly /\ RecordedPaymentsLanded
          /\ LimitPerRestart /\ RevokedKeysAreNotCached /\ MilestonesPayOnce
BY EnvProperties, PayProperties, RefProperties
  DEF IInv, TypeOK, ClaimsArePaid, NeverShutEarly, RecordedPaymentsLanded,
      LimitPerRestart, RevokedKeysAreNotCached, MilestonesPayOnce

-----------------------------------------------------------------------------
(* The theorems.                                                           *)

\* The rows, counters and chain states of the three services keep their shape;
\* the Redis counter of a key is above its daily limit only after a warm-up from
\* rows that are.
THEOREM TypeCorrect == Spec => []TypeOK
BY IInvHolds, IInvProperties, PTL

\* claimEnvelope and ClaimRetryService: who has a claim row, or a pending one
\* that waits for it, was paid by the escrow, whatever claims, retries,
\* expiries and cancellations run at the same time.
THEOREM ClaimsPaid == Spec => []ClaimsArePaid
BY IInvHolds, IInvProperties, PTL

\* claimEnvelope: concurrent claims never close an envelope with shares left.
THEOREM NotShutEarly == Spec => []NeverShutEarly
BY IInvHolds, IInvProperties, PTL

\* paySplit, payRequest and the yield vault: every row that says paid has a
\* transfer that landed for its purpose, and nothing is counted twice.
THEOREM RecordsLanded == Spec => []RecordedPaymentsLanded
BY IInvHolds, IInvProperties, PTL

\* validateAndRecordSpending and onModuleInit: what a key has paid and what may
\* still land in its name stays within its daily limit, and within one more for
\* every restart, however far the warm-up gets.
THEOREM LimitWithRestarts == Spec => []LimitPerRestart
BY IInvHolds, IInvProperties, PTL

\* revokeSessionKey and onModuleInit: Redis holds a revoked key only while its
\* revocation is on the way, or after a removal that Redis did not carry out,
\* until a restart empties it; no warm-up, complete or not, puts it back.
THEOREM RevokedStayOut == Spec => []RevokedKeysAreNotCached
BY IInvHolds, IInvProperties, PTL

\* markWalletCreated, markFirstSend, markDepositRetainedD7: a milestone is
\* rewarded at most once, and in order, however the handlers interleave.
THEOREM MilestonesOnce == Spec => []MilestonesPayOnce
BY IInvHolds, IInvProperties, PTL

=============================================================================
