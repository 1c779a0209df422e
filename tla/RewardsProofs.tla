--------------------------- MODULE RewardsProofs ----------------------------
(***************************************************************************)
(* The tables of rewards agree, a deal is rewarded twice only where two    *)
(* activations overlapped, nothing unheld is paid, paid rewards have       *)
(* receipts of their own, and a reward is paid twice only in a race: for   *)
(* any numbers of deals, requests and passes.                              *)
(***************************************************************************)
EXTENDS RewardsProps, FiniteSetTheorems, FunctionTheorems, TLAPS

\* What a pass has listed exists, and a payment that is about to mark its
\* reward has its receipt.
ListedExists == \A p \in Passes : \A a \in todo[p] : reward[a].status # "absent"
PayingHasReceipt == \A y \in Payments : stage[y] = "pay" => receipt[cur[y].ref] # NoReward

TablesInv == RewardsInv /\ ListedExists /\ PayingHasReceipt

\* Two activations under way have met, and one that found no reward of its deal
\* has met any that has inserted one since.
OpeningInv ==
  /\ \A a, b \in Activations :
       a # b /\ stage[a] \in {"opening", "insert"} /\ stage[b] \in {"opening", "insert"} => {a, b} \in met
  /\ \A a, b \in Activations :
       a # b /\ ActOf[a] = ActOf[b] /\ stage[a] = "insert" /\ reward[b].status # "absent" => {a, b} \in met
  /\ RewardedTwiceNeedsRace

\* Whoever is about to release a reward, or to pay it, holds one that was held.
HoldInv ==
  /\ \A p \in Passes : stage[p] \in {"vet", "verify", "release"} => cur[p].reward \in old
  /\ \A y \in Payments : stage[y] \in {"read", "receipt", "pay"} => cur[y].reward \in old
  /\ PaidAfterHold

\* No two rewards were paid by one reference.
RefsDiffer ==
  \A a, b \in Activations : reward[a].ref # NoRef /\ reward[a].ref = reward[b].ref => a = b

-----------------------------------------------------------------------------

\* What the work of a pass on a task leaves in cur.
LEMMA NothingTypes ==
  /\ Nothing \in Hold \cup {Nothing}
  /\ Nothing.reward = NoReward
  /\ \A h \in Hold : h.reward \in Activations /\ h.ref \in Refs \cup {NoRef}
BY DEF Nothing, Hold

THEOREM TypeCorrect == Spec => []TypeOK
<1>1. Init => TypeOK
  BY RewardsAssumption
     DEF Init, TypeOK, Tasks, ActStages, PassStages, PayStages, Nothing, Hold, RewardStatus
<1>2. TypeOK /\ [Next]_vars => TypeOK'
  <2> SUFFICES ASSUME TypeOK, [Next]_vars PROVE TypeOK'
    OBVIOUS
  <2> USE RewardsAssumption DEF TypeOK, Tasks, ActStages, PassStages, PayStages, RewardStatus, Goto, outside, tables
  <2>1. CASE \E d \in Deals : SetStatus(d)
    BY <2>1 DEF SetStatus
  <2>2. ASSUME NEW a \in Activations, Activate(a) PROVE TypeOK'
    BY <2>2 DEF Activate, Start
  <2>3. ASSUME NEW a \in Activations, LookForReward(a) PROVE TypeOK'
    BY <2>3 DEF LookForReward, End
  <2>4. ASSUME NEW a \in Activations, CreateReward(a) PROVE TypeOK'
    BY <2>4 DEF CreateReward, End
  <2>5. ASSUME NEW a \in Activations, HoldEnds(a) PROVE TypeOK'
    BY <2>5 DEF HoldEnds
  <2>6. ASSUME NEW s \in {"verified", "suspended"}, StandingChanges(s) PROVE TypeOK'
    BY <2>6 DEF StandingChanges
  <2>7. ASSUME NEW p \in Passes, ListRewards(p) PROVE TypeOK'
    BY <2>7 DEF ListRewards, Start
  <2>8. ASSUME NEW p \in Passes, NEW a \in Activations, Judge(p, a) PROVE TypeOK'
    <3>1. todo' \in [Passes -> SUBSET Activations]
      BY <2>8 DEF Judge, Take
    <3>2. \/ stage' = stage /\ cur' = cur
          \/ \E s \in {"cancel", "vet"} :
               stage' = [stage EXCEPT ![p] = s] /\ cur' = [cur EXCEPT ![p].reward = a]
      BY <2>8 DEF Judge
    <3>3. \A h \in Hold \cup {Nothing} : [h EXCEPT !.reward = a] \in Hold
      BY DEF Hold, Nothing
    <3>4. \A h \in Hold \cup {Nothing} : [h EXCEPT !.reward = a].reward = a
      BY DEF Hold, Nothing
    <3>5. UNCHANGED <<tables, outside, met, mishaps>>
      BY <2>8 DEF Judge
    <3>6. CASE stage' = stage /\ cur' = cur
      BY <3>1, <3>5, <3>6
    <3>7. ASSUME NEW s \in {"cancel", "vet"},
                 stage' = [stage EXCEPT ![p] = s], cur' = [cur EXCEPT ![p].reward = a]
          PROVE  TypeOK'
      <4>1. cur' \in [Passes \cup Payments -> Hold \cup {Nothing}]
        BY <3>3, <3>7
      <4>2. cur'[p].reward = a /\ \A u \in (Passes \cup Payments) \ {p} : cur'[u] = cur[u]
        BY <3>4, <3>7
      <4>3. stage'[p] = s /\ \A u \in Tasks \ {p} : stage'[u] = stage[u]
        BY <3>7
      <4> QED BY <3>1, <3>5, <3>7, <4>1, <4>2, <4>3
    <3> QED BY <3>2, <3>6, <3>7
  <2>9. ASSUME NEW p \in Passes, Vet(p) \/ Verify(p) PROVE TypeOK'
    <3>1. UNCHANGED <<defaulted, reward, receipt, standing, old, todo, cut, moves, mishaps>>
      BY <2>9 DEF Vet, Verify
    <3>2. \/ Refuse(p)
          \/ stage[p] \in {"vet", "verify"} /\ UNCHANGED cur /\ (Goto(p, "verify") \/ Goto(p, "release"))
      BY <2>9 DEF Vet, Verify
    <3> QED BY <3>1, <3>2 DEF Refuse
  <2>10. ASSUME NEW p \in Passes, Decide(p) PROVE TypeOK'
    BY <2>10 DEF Decide
  <2>11. ASSUME NEW p \in Passes, EndPass(p) PROVE TypeOK'
    BY <2>11 DEF EndPass, End
  <2>12. ASSUME NEW y \in Payments, NEW a \in Activations, NEW r \in Refs, ReadReward(y, a, r)
         PROVE TypeOK'
    BY <2>12 DEF ReadReward, Start, Hold
  <2>13. ASSUME NEW y \in Payments, CheckSuspended(y) PROVE TypeOK'
    <3>1. UNCHANGED <<defaulted, reward, receipt, standing, old, todo, cur, cut, moves, mishaps>>
      BY <2>13 DEF CheckSuspended
    <3>2. Goto(y, "over") \/ (stage[y] = "read" /\ Goto(y, "receipt"))
      BY <2>13 DEF CheckSuspended, End
    <3>3. CASE Goto(y, "over")
      BY <3>1, <3>3
    <3>4. CASE stage[y] = "read" /\ Goto(y, "receipt")
      BY <3>1, <3>4
    <3> QED BY <3>2, <3>3, <3>4
  <2>14. ASSUME NEW y \in Payments, CreateReceipt(y) PROVE TypeOK'
    BY <2>14 DEF CreateReceipt
  <2>15. ASSUME NEW y \in Payments, MarkPaid(y) PROVE TypeOK'
    BY <2>15 DEF MarkPaid, End
  <2>16. ASSUME NEW t \in Tasks, Fails(t) PROVE TypeOK'
    <3>1. stage[t] = "pay" => t \in Payments
      OBVIOUS
    <3>2. /\ todo' \in [Passes -> SUBSET Activations]
          /\ cut' \subseteq Payments
          /\ mishaps' \in Nat
          /\ UNCHANGED <<tables, standing, old, met, moves>>
      BY <2>16, <3>1 DEF Fails
    <3>3. /\ stage' \in [Tasks -> ActStages \cup PassStages \cup PayStages]
          /\ stage'[t] = IF t \in Passes THEN "idle" ELSE "over"
          /\ \A u \in Tasks \ {t} : stage'[u] = stage[u]
      BY <2>16 DEF Fails, End
    <3>4. /\ cur' \in [Passes \cup Payments -> Hold \cup {Nothing}]
          /\ \A u \in (Passes \cup Payments) \ {t} : cur'[u] = cur[u]
      BY <2>16 DEF Fails
    <3>5. /\ \A a \in Activations : stage'[a] \in ActStages
          /\ \A p \in Passes : stage'[p] \in PassStages
          /\ \A y \in Payments : stage'[y] \in PayStages
      BY <3>3
    <3>6. /\ \A p \in Passes : stage'[p] \in {"vet", "verify", "cancel", "release"} => cur'[p].reward \in Activations
          /\ \A y \in Payments : stage'[y] \in {"read", "receipt", "pay"} => cur'[y] \in [reward : Activations, ref : Refs]
      BY <3>3, <3>4
    <3>7. moves' = moves /\ defaulted' = defaulted /\ reward' = reward /\ receipt' = receipt
          /\ standing' = standing /\ old' = old
      BY <3>2
    <3> QED BY <3>2, <3>3, <3>4, <3>5, <3>6, <3>7
  <2>17. CASE UNCHANGED vars
    BY <2>17 DEF vars
  <2> HIDE DEF TypeOK, Tasks, ActStages, PassStages, PayStages, RewardStatus, Goto, outside, tables
  <2> QED
    BY <2>1, <2>2, <2>3, <2>4, <2>5, <2>6, <2>7, <2>8, <2>9, <2>10, <2>11, <2>12,
       <2>13, <2>14, <2>15, <2>16, <2>17 DEF Next, Release
<1> QED
  BY <1>1, <1>2, PTL DEF Spec

-----------------------------------------------------------------------------

\* The tables change in three statements; no row and no receipt goes away.
LEMMA TablesGrow ==
  ASSUME TypeOK, [Next]_vars
  PROVE  /\ \A a \in Activations : reward[a].status # "absent" => reward'[a].status # "absent"
         /\ \A r \in Refs : receipt[r] # NoReward => receipt'[r] = receipt[r]
<1> USE RewardsAssumption DEF tables, outside
<1>1. ASSUME NEW a \in Activations, CreateReward(a)
      PROVE  /\ receipt' = receipt
             /\ \A b \in Activations : reward[b].status # "absent" => reward'[b].status # "absent"
  BY <1>1 DEF CreateReward, TypeOK
<1>2. ASSUME NEW p \in Passes, Decide(p)
      PROVE  /\ receipt' = receipt
             /\ \A b \in Activations : reward[b].status # "absent" => reward'[b].status # "absent"
  BY <1>2 DEF Decide, TypeOK
<1>3. ASSUME NEW y \in Payments, CreateReceipt(y)
      PROVE  /\ reward' = reward
             /\ \A r \in Refs : receipt[r] # NoReward => receipt'[r] = receipt[r]
  BY <1>3 DEF CreateReceipt, TypeOK
<1>4. ASSUME NEW y \in Payments, MarkPaid(y)
      PROVE  /\ receipt' = receipt
             /\ \A b \in Activations : reward[b].status # "absent" => reward'[b].status # "absent"
  BY <1>4 DEF MarkPaid, TypeOK
<1>5. \/ UNCHANGED <<reward, receipt>>
      \/ \E a \in Activations : CreateReward(a)
      \/ \E p \in Passes : Decide(p)
      \/ \E y \in Payments : CreateReceipt(y) \/ MarkPaid(y)
  BY DEF Next, vars, SetStatus, Activate, LookForReward, HoldEnds, StandingChanges, Release,
         ListRewards, Judge, Vet, Verify, EndPass, ReadReward, CheckSuspended, Fails
<1> QED BY <1>1, <1>2, <1>3, <1>4, <1>5

\* What a row says of its payment: that it was paid by a reference, whose
\* receipt is there.
RowAgrees(a) ==
  /\ reward[a].status = "paid" => reward[a].ref # NoRef
  /\ reward[a].ref # NoRef => receipt[reward[a].ref] # NoReward

LEMMA RowsAgree ==
  ASSUME TypeOK, TypeOK', TablesInv, [Next]_vars
  PROVE  \A a \in Activations : RowAgrees(a)'
<1> SUFFICES ASSUME NEW a \in Activations PROVE RowAgrees(a)'
  OBVIOUS
<1> USE RewardsAssumption DEF tables, outside
<1>0. RowAgrees(a) /\ \A r \in Refs : receipt[r] # NoReward => receipt'[r] = receipt[r]
  BY TablesGrow DEF TablesInv, RewardsInv, RowAgrees
<1>1. CASE reward'[a] = reward[a]
  BY <1>0, <1>1 DEF TypeOK, RowAgrees
<1>2. CASE /\ reward'[a].ref = reward[a].ref
           /\ reward'[a].status # "paid"
  BY <1>0, <1>2 DEF TypeOK, RowAgrees
<1>3. ASSUME NEW y \in Payments, stage[y] = "pay", receipt' = receipt,
             reward'[a] = [status |-> "paid", ref |-> cur[y].ref]
      PROVE  RowAgrees(a)'
  <2>1. cur[y].ref \in Refs /\ receipt[cur[y].ref] # NoReward
    BY <1>3 DEF TypeOK, TablesInv, PayingHasReceipt
  <2> QED BY <1>3, <2>1 DEF RowAgrees
<1>4. ASSUME NEW b \in Activations, CreateReward(b)
      PROVE  reward'[a] = reward[a] \/ (reward'[a].ref = reward[a].ref /\ reward'[a].status # "paid")
  BY <1>4 DEF CreateReward, TypeOK
<1>5. ASSUME NEW p \in Passes, Decide(p)
      PROVE  reward'[a] = reward[a] \/ (reward'[a].ref = reward[a].ref /\ reward'[a].status # "paid")
  BY <1>5 DEF Decide, TypeOK
<1>6. ASSUME NEW y \in Payments, MarkPaid(y)
      PROVE  \/ reward'[a] = reward[a]
             \/ /\ stage[y] = "pay" /\ receipt' = receipt
                /\ reward'[a] = [status |-> "paid", ref |-> cur[y].ref]
  BY <1>6 DEF MarkPaid, TypeOK
<1>7. \/ reward' = reward
      \/ \E b \in Activations : CreateReward(b)
      \/ \E p \in Passes : Decide(p)
      \/ \E y \in Payments : MarkPaid(y)
  BY DEF Next, vars, SetStatus, Activate, LookForReward, HoldEnds, StandingChanges, Release,
         ListRewards, Judge, Vet, Verify, EndPass, ReadReward, CheckSuspended, Fails, CreateReceipt
<1> QED BY <1>1, <1>2, <1>3, <1>4, <1>5, <1>6, <1>7

\* What tasks hold, and what receipts are of, exists.
LEMMA HeldExists ==
  ASSUME TypeOK, TypeOK', TablesInv, [Next]_vars
  PROVE  /\ \A r \in Refs : receipt'[r] # NoReward => reward'[receipt'[r]].status # "absent"
         /\ \A t \in DOMAIN cur' : cur'[t].reward # NoReward => reward'[cur'[t].reward].status # "absent"
<1> USE RewardsAssumption DEF tables, outside
<1>0. /\ \A r \in Refs : receipt[r] # NoReward => reward[receipt[r]].status # "absent"
      /\ \A t \in DOMAIN cur : cur[t].reward # NoReward => reward[cur[t].reward].status # "absent"
  BY DEF TablesInv, RewardsInv
<1>1. \A a \in Activations : reward[a].status # "absent" => reward'[a].status # "absent"
  BY TablesGrow
<1>2. DOMAIN cur' = DOMAIN cur /\ DOMAIN cur = Passes \cup Payments
  BY DEF TypeOK
<1>3. ASSUME NEW r \in Refs, receipt'[r] # NoReward
      PROVE  reward'[receipt'[r]].status # "absent"
  <2>1. CASE receipt'[r] = receipt[r]
    BY <2>1, <1>0, <1>1, <1>3 DEF TypeOK
  <2>2. ASSUME NEW y \in Payments, CreateReceipt(y) PROVE reward'[receipt'[r]].status # "absent"
    <3>1. receipt'[r] = receipt[r] \/ receipt'[r] = cur[y].reward
      BY <2>2 DEF CreateReceipt, TypeOK
    <3>2. cur[y].reward \in Activations
      BY <2>2 DEF CreateReceipt, TypeOK
    <3> QED BY <3>1, <3>2, <2>1, <1>0, <1>1, <1>2
  <2>3. receipt' = receipt \/ \E y \in Payments : CreateReceipt(y)
    BY
       DEF Next, vars, SetStatus, Activate, LookForReward, HoldEnds, StandingChanges, Release,
           CreateReward,
         ListRewards, Judge, Vet, Verify, EndPass, ReadReward, CheckSuspended, Fails, Decide, MarkPaid
  <2> QED BY <2>1, <2>2, <2>3
<1>4. ASSUME NEW t \in DOMAIN cur, cur'[t].reward # NoReward
      PROVE  reward'[cur'[t].reward].status # "absent"
  <2>1. CASE cur'[t].reward = cur[t].reward
    <3>1. cur[t].reward \in Activations
      BY <2>1, <1>2, <1>4, NothingTypes DEF TypeOK
    <3> QED BY <3>1, <2>1, <1>0, <1>1, <1>4
  <2>2. ASSUME NEW a \in Activations, reward[a].status # "absent", cur'[t].reward = a
        PROVE  reward'[cur'[t].reward].status # "absent"
    BY <2>2, <1>1
  <2>3. ASSUME NEW p \in Passes, NEW a \in Activations, Judge(p, a)
        PROVE  cur'[t].reward = cur[t].reward \/ (cur'[t].reward = a /\ reward[a].status # "absent")
    <3>1. reward[a].status # "absent"
      BY <2>3 DEF Judge, Take, TablesInv, ListedExists
    <3>2. cur' = cur \/ cur' = [cur EXCEPT ![p].reward = a]
      BY <2>3 DEF Judge
    <3>3. cur[t] \in Hold \cup {Nothing}
      BY <1>2 DEF TypeOK
    <3>4. [cur[t] EXCEPT !.reward = a].reward = a
      BY <3>3 DEF Hold, Nothing
    <3> QED BY <3>1, <3>2, <3>4, <1>2
  <2>4. ASSUME NEW y \in Payments, NEW a \in Activations, NEW r \in Refs, ReadReward(y, a, r)
        PROVE  cur'[t].reward = cur[t].reward \/ (cur'[t].reward = a /\ reward[a].status # "absent")
    BY <2>4, <1>2 DEF ReadReward
  <2>5. ASSUME NEW u \in Tasks, cur' = [cur EXCEPT ![u] = Nothing]
        PROVE  cur'[t].reward = cur[t].reward
    BY <2>5, <1>2, <1>4, NothingTypes
  <2>6. ASSUME NEW u \in Tasks, Fails(u)
        PROVE  cur'[t].reward = cur[t].reward
    BY <2>6, <1>2, <1>4, NothingTypes DEF Fails
  <2>7. \/ cur' = cur
        \/ \E u \in Tasks : cur' = [cur EXCEPT ![u] = Nothing] \/ Fails(u)
        \/ \E p \in Passes, a \in Activations : Judge(p, a)
        \/ \E y \in Payments, a \in Activations, r \in Refs : ReadReward(y, a, r)
    BY
       DEF Next, vars, Tasks, SetStatus, Activate, LookForReward, HoldEnds, StandingChanges,
           Release, CreateReward,
           ListRewards, Vet, Verify, Refuse, EndPass, CheckSuspended, Decide, CreateReceipt, MarkPaid
  <2> QED BY <2>1, <2>2, <2>3, <2>4, <2>5, <2>6, <2>7
<1> QED BY <1>2, <1>3, <1>4

\* What the lists of the passes and the payments about to mark rely on.
LEMMA ListsAndReceipts ==
  ASSUME TypeOK, TypeOK', TablesInv, [Next]_vars
  PROVE  ListedExists' /\ PayingHasReceipt'
<1> USE RewardsAssumption DEF tables, outside
<1>1. \A a \in Activations : reward[a].status # "absent" => reward'[a].status # "absent"
  BY TablesGrow
<1>2. ASSUME NEW p \in Passes, NEW a \in todo'[p]
      PROVE  reward'[a].status # "absent"
  <2>1. a \in Activations
    BY DEF TypeOK
  <2>2. CASE a \in todo[p]
    BY <2>1, <2>2, <1>1 DEF TablesInv, ListedExists
  <2>3. ASSUME NEW q \in Passes, ListRewards(q)
        PROVE  a \in todo[p] \/ reward[a].status = "pending"
    BY <2>3 DEF ListRewards, TypeOK
  <2>4. ASSUME NEW q \in Passes, NEW b \in Activations, Judge(q, b)
        PROVE  a \in todo[p]
    BY <2>4 DEF Judge, Take, TypeOK
  <2>5. ASSUME NEW t \in Tasks, Fails(t)
        PROVE  a \in todo[p]
    BY <2>5 DEF Fails
  <2>6. \/ todo' = todo
        \/ \E q \in Passes : ListRewards(q)
        \/ \E q \in Passes, b \in Activations : Judge(q, b)
        \/ \E t \in Tasks : Fails(t)
    BY
       DEF Next, vars, SetStatus, Activate, LookForReward, HoldEnds, StandingChanges, Release,
           CreateReward,
           Vet, Verify, EndPass, ReadReward, CheckSuspended, Decide, CreateReceipt, MarkPaid
  <2> QED BY <2>1, <2>2, <2>3, <2>4, <2>5, <2>6, <1>1
<1>3. ASSUME NEW y \in Payments, stage'[y] = "pay"
      PROVE  receipt'[cur'[y].ref] # NoReward
  <2>1. CASE stage[y] = "pay" /\ cur'[y] = cur[y]
    <3>1. receipt[cur[y].ref] # NoReward /\ cur[y].ref \in Refs
      BY <2>1 DEF TablesInv, PayingHasReceipt, TypeOK
    <3> QED BY <3>1, <2>1, TablesGrow
  <2>2. CASE CreateReceipt(y)
    <3>1. /\ cur[y].ref \in Refs /\ cur[y].reward \in Activations
      BY <2>2 DEF CreateReceipt, TypeOK
    <3> QED BY <3>1, <2>2 DEF CreateReceipt, TypeOK
  <2>3. CASE UNCHANGED <<stage, cur>>
    BY <2>1, <2>3, <1>3
  <2>4. ASSUME NEW a \in Activations, Activate(a) \/ LookForReward(a) \/ CreateReward(a)
        PROVE  stage[y] = "pay" /\ cur'[y] = cur[y]
    BY <2>4, <1>3 DEF Activate, LookForReward, CreateReward, Start, End, Goto, TypeOK, Tasks
  <2>5. ASSUME NEW p \in Passes, ListRewards(p) \/ EndPass(p)
        PROVE  stage[y] = "pay" /\ cur'[y] = cur[y]
    BY <2>5, <1>3 DEF ListRewards, EndPass, Start, End, Goto, TypeOK, Tasks
  <2>6. ASSUME NEW p \in Passes, Vet(p) \/ Verify(p) \/ Decide(p)
        PROVE  stage[y] = "pay" /\ cur'[y] = cur[y]
    BY <2>6, <1>3 DEF Vet, Verify, Decide, Refuse, Goto, TypeOK, Tasks
  <2>7. ASSUME NEW p \in Passes, NEW a \in Activations, Judge(p, a)
        PROVE  stage[y] = "pay" /\ cur'[y] = cur[y]
    BY <2>7, <1>3 DEF Judge, Goto, TypeOK, Tasks
  <2>8. ASSUME NEW z \in Payments, NEW a \in Activations, NEW r \in Refs, ReadReward(z, a, r)
        PROVE  stage[y] = "pay" /\ cur'[y] = cur[y]
    BY <2>8, <1>3 DEF ReadReward, Start, Goto, TypeOK, Tasks
  <2>9. ASSUME NEW z \in Payments, CheckSuspended(z) \/ MarkPaid(z)
        PROVE  stage[y] = "pay" /\ cur'[y] = cur[y]
    BY <2>9, <1>3 DEF CheckSuspended, MarkPaid, End, Goto, TypeOK, Tasks
  <2>10. ASSUME NEW z \in Payments, CreateReceipt(z)
         PROVE  z = y \/ (stage[y] = "pay" /\ cur'[y] = cur[y])
    BY <2>10, <1>3 DEF CreateReceipt, Goto, TypeOK, Tasks
  <2>11. ASSUME NEW t \in Tasks, Fails(t)
         PROVE  stage[y] = "pay" /\ cur'[y] = cur[y]
    BY <2>11, <1>3 DEF Fails, End, Goto, TypeOK, Tasks
  <2>12. \/ UNCHANGED <<stage, cur>>
         \/ \E a \in Activations : Activate(a) \/ LookForReward(a) \/ CreateReward(a)
         \/ \E p \in Passes : Release(p)
         \/ \E z \in Payments : CheckSuspended(z) \/ CreateReceipt(z) \/ MarkPaid(z)
                                \/ \E a \in Activations, r \in Refs : ReadReward(z, a, r)
         \/ \E t \in Tasks : Fails(t)
    BY DEF Next, vars, SetStatus, HoldEnds, StandingChanges
  <2> QED BY <2>1, <2>2, <2>3, <2>4, <2>5, <2>6, <2>7, <2>8, <2>9, <2>10, <2>11, <2>12 DEF Release
<1> QED BY <1>2, <1>3 DEF ListedExists, PayingHasReceipt

LEMMA TablesHold == Spec => []TablesInv
<1>1. Init => TablesInv
  <2>1. Init => TypeOK
    BY RewardsAssumption
       DEF Init, TypeOK, Tasks, ActStages, PassStages, PayStages, Nothing, Hold, RewardStatus
  <2> QED BY <2>1, RewardsAssumption
             DEF Init, TablesInv, RewardsInv, ListedExists, PayingHasReceipt, Tasks
<1>2. TypeOK /\ TypeOK' /\ TablesInv /\ [Next]_vars => TablesInv'
  <2> SUFFICES ASSUME TypeOK, TypeOK', TablesInv, [Next]_vars PROVE TablesInv'
    OBVIOUS
  <2>1. \A a \in Activations : RowAgrees(a)'
    BY RowsAgree
  <2>2. /\ \A r \in Refs : receipt'[r] # NoReward => reward'[receipt'[r]].status # "absent"
        /\ \A t \in DOMAIN cur' : cur'[t].reward # NoReward => reward'[cur'[t].reward].status # "absent"
    BY HeldExists
  <2>3. RewardsInv'
    BY <2>1, <2>2 DEF RewardsInv, RowAgrees
  <2>4. ListedExists' /\ PayingHasReceipt'
    BY ListsAndReceipts
  <2> QED BY <2>3, <2>4 DEF TablesInv
<1> QED BY <1>1, <1>2, TypeCorrect, PTL DEF Spec

\* The tables of rewards agree.  Lists and payments under way are part of the
\* induction: their statements write by what was read before.
THEOREM RewardTablesAgree == Spec => []RewardsInv
<1>1. TablesInv => RewardsInv
  BY DEF TablesInv
<1> QED BY <1>1, TablesHold, PTL

-----------------------------------------------------------------------------

\* No step forgets that two tasks have met, and activations move in four steps.
LEMMA ActivationSteps ==
  ASSUME RewardsInv, [Next]_vars
  PROVE  /\ met \subseteq met'
         /\ \/ \E a \in Activations : Activate(a) \/ LookForReward(a) \/ CreateReward(a)
            \/ /\ \A a \in Activations : stage'[a] \in {stage[a], "over"}
               /\ \A a \in Activations : reward'[a].status # "absent" => reward[a].status # "absent"
<1> USE RewardsAssumption DEF tables, outside, Tasks
<1>0. TypeOK
  BY DEF RewardsInv
<1>1. met \subseteq met'
  BY
     DEF Next, vars, SetStatus, Activate, LookForReward, HoldEnds, StandingChanges, Release,
         CreateReward, Start,
         ListRewards, Judge, Vet, Verify, EndPass, ReadReward, CheckSuspended, Fails, Decide, CreateReceipt, MarkPaid
<1>2. \A p \in Passes : Release(p) => \A a \in Activations : stage'[a] = stage[a]
  <2> TAKE p \in Passes
  <2>1. ListRewards(p) \/ EndPass(p) => \A a \in Activations : stage'[a] = stage[a]
    BY <1>0 DEF ListRewards, EndPass, Start, End, Goto, TypeOK
  <2>2. Vet(p) \/ Verify(p) \/ Decide(p) => \A a \in Activations : stage'[a] = stage[a]
    BY <1>0 DEF Vet, Verify, Decide, Refuse, Goto, TypeOK
  <2>3. \A b \in Activations : Judge(p, b) => \A a \in Activations : stage'[a] = stage[a]
    BY <1>0 DEF Judge, Goto, TypeOK
  <2> QED BY <2>1, <2>2, <2>3 DEF Release
<1>3. \A y \in Payments :
        /\ CheckSuspended(y) \/ CreateReceipt(y) \/ MarkPaid(y) => \A a \in Activations : stage'[a] = stage[a]
        /\ \A b \in Activations, r \in Refs : ReadReward(y, b, r) => \A a \in Activations : stage'[a] = stage[a]
  BY <1>0 DEF CheckSuspended, CreateReceipt, MarkPaid, ReadReward, Start, End, Goto, TypeOK
<1>4. \A t \in Tasks : Fails(t) => \A a \in Activations : stage'[a] \in {stage[a], "over"}
  BY <1>0 DEF Fails, End, Goto, TypeOK
<1>5. \A p \in Passes : Decide(p) =>
        \A a \in Activations : reward'[a].status # "absent" => reward[a].status # "absent"
  <2> SUFFICES ASSUME NEW p \in Passes, Decide(p), NEW a \in Activations, reward[a].status = "absent"
               PROVE  reward'[a].status = "absent"
    BY <1>0 DEF TypeOK
  <2>1. cur[p].reward # a
    <3>1. cur[p].reward \in Activations /\ p \in DOMAIN cur
      BY <1>0 DEF TypeOK, Decide
    <3> QED BY <3>1 DEF RewardsInv
  <2> QED BY <2>1, <1>0 DEF Decide, TypeOK
<1>6. \A y \in Payments : MarkPaid(y) =>
        \A a \in Activations : reward'[a].status # "absent" => reward[a].status # "absent"
  <2> SUFFICES ASSUME NEW y \in Payments, MarkPaid(y), NEW a \in Activations, reward[a].status = "absent"
               PROVE  reward'[a].status = "absent"
    BY <1>0 DEF TypeOK
  <2>1. cur[y].reward # a
    <3>1. cur[y].reward \in Activations /\ y \in DOMAIN cur
      BY <1>0 DEF TypeOK, MarkPaid
    <3> QED BY <3>1 DEF RewardsInv
  <2> QED BY <2>1, <1>0 DEF MarkPaid, TypeOK
<1>7. \/ reward' = reward
      \/ \E a \in Activations : CreateReward(a)
      \/ \E p \in Passes : Decide(p)
      \/ \E y \in Payments : MarkPaid(y)
  BY DEF Next, vars, SetStatus, Activate, LookForReward, HoldEnds, StandingChanges, Release,
         ListRewards, Judge, Vet, Verify, EndPass, ReadReward, CheckSuspended, Fails, CreateReceipt
<1>8. \/ \A a \in Activations : stage'[a] \in {stage[a], "over"}
      \/ \E a \in Activations : Activate(a) \/ LookForReward(a) \/ CreateReward(a)
  <2>1. \/ stage' = stage
        \/ \E a \in Activations : Activate(a) \/ LookForReward(a) \/ CreateReward(a)
        \/ \E p \in Passes : Release(p)
        \/ \E y \in Payments : \/ CheckSuspended(y) \/ CreateReceipt(y) \/ MarkPaid(y)
                               \/ \E a \in Activations, r \in Refs : ReadReward(y, a, r)
        \/ \E t \in Tasks : Fails(t)
    BY DEF Next, vars, SetStatus, HoldEnds, StandingChanges
  <2> QED BY <2>1, <1>2, <1>3, <1>4
<1> QED BY <1>1, <1>5, <1>6, <1>7, <1>8

\* A deal is rewarded twice only where two activations of it overlapped.
THEOREM DoubleRewardIsARace == Spec => []RewardedTwiceNeedsRace
<1>1. Init => OpeningInv
  BY RewardsAssumption DEF Init, OpeningInv, RewardedTwiceNeedsRace, Tasks
<1>2. RewardsInv /\ OpeningInv /\ [Next]_vars => OpeningInv'
  <2> SUFFICES ASSUME RewardsInv, OpeningInv, [Next]_vars PROVE OpeningInv'
    OBVIOUS
  <2>0. TypeOK /\ met \subseteq met'
    BY ActivationSteps DEF RewardsInv
  <2> USE RewardsAssumption DEF OpeningInv, RewardedTwiceNeedsRace
  <2>1. ASSUME NEW c \in Activations, Activate(c) PROVE OpeningInv'
    <3>1. /\ stage[c] = "idle" /\ reward' = reward
          /\ \A a \in Activations : stage'[a] = IF a = c THEN "opening" ELSE stage[a]
      BY <2>0, <2>1 DEF Activate, Start, Goto, TypeOK, Tasks, tables
    <3>2. \A a \in Activations : stage[a] \in {"opening", "insert"} => {c, a} \in met'
      BY <2>1 DEF Activate, Start, UnderWay, Tasks
    <3>3. \A a \in Activations : {c, a} = {a, c}
      OBVIOUS
    <3> QED BY <2>0, <3>1, <3>2, <3>3
  <2>2. ASSUME NEW c \in Activations, LookForReward(c) PROVE OpeningInv'
    <3>1. /\ reward' = reward /\ stage[c] = "opening"
          /\ \A a \in Activations \ {c} : stage'[a] = stage[a]
      BY <2>0, <2>2 DEF LookForReward, End, Goto, TypeOK, Tasks, tables
    <3>2. \/ stage'[c] = "over"
          \/ /\ stage'[c] = "insert"
             /\ \A a \in Activations : ActOf[a] = ActOf[c] => reward[a].status = "absent"
      BY <2>0, <2>2 DEF LookForReward, End, Goto, Rewarded, TypeOK, Tasks
    <3> QED BY <2>0, <3>1, <3>2
  <2>3. ASSUME NEW c \in Activations, CreateReward(c) PROVE OpeningInv'
    <3>1. /\ stage[c] = "insert"
          /\ \A a \in Activations : stage'[a] = IF a = c THEN "over" ELSE stage[a]
      BY <2>0, <2>3 DEF CreateReward, End, Goto, TypeOK, Tasks
    <3>2. \A a \in Activations \ {c} : reward'[a] = reward[a]
      BY <2>0, <2>3 DEF CreateReward, TypeOK
    <3>3. \A a \in Activations : {c, a} = {a, c}
      OBVIOUS
    <3> QED BY <2>0, <3>1, <3>2, <3>3
  <2>4. CASE /\ \A a \in Activations : stage'[a] \in {stage[a], "over"}
             /\ \A a \in Activations : reward'[a].status # "absent" => reward[a].status # "absent"
    BY <2>0, <2>4
  <2> QED BY <2>1, <2>2, <2>3, <2>4, ActivationSteps
<1>3. OpeningInv => RewardedTwiceNeedsRace
  BY DEF OpeningInv
<1> QED BY <1>1, <1>2, <1>3, RewardTablesAgree, PTL DEF Spec

-----------------------------------------------------------------------------

\* Nothing is paid for a rental that has not held, however passes and payments
\* overlap: each of them holds a reward that was held when it took it up.
THEOREM NothingUnheldIsPaid == Spec => []PaidAfterHold
<1>1. Init => HoldInv
  BY RewardsAssumption DEF Init, HoldInv, PaidAfterHold, Tasks
<1>2. TypeOK /\ TypeOK' /\ HoldInv /\ [Next]_vars => HoldInv'
  <2> SUFFICES ASSUME TypeOK, TypeOK', HoldInv, [Next]_vars PROVE HoldInv'
    OBVIOUS
  <2> USE RewardsAssumption DEF HoldInv, PaidAfterHold, tables, outside, Goto, Tasks
  <2>1. ASSUME NEW a \in Activations, Activate(a) \/ LookForReward(a) PROVE HoldInv'
    <3>1. UNCHANGED <<reward, receipt, old, cur>>
      BY <2>1 DEF Activate, LookForReward
    <3>2. \A t \in Passes \cup Payments : stage'[t] = stage[t]
      BY <2>1 DEF Activate, LookForReward, Start, End, TypeOK
    <3> QED BY <3>1, <3>2
  <2>2. ASSUME NEW a \in Activations, CreateReward(a) PROVE HoldInv'
    BY <2>2 DEF CreateReward, End, TypeOK
  <2>3. ASSUME NEW a \in Activations, HoldEnds(a) PROVE HoldInv'
    BY <2>3 DEF HoldEnds
  <2>4. CASE \/ \E d \in Deals : SetStatus(d)
             \/ \E s \in {"verified", "suspended"} : StandingChanges(s)
             \/ UNCHANGED vars
    BY <2>4 DEF SetStatus, StandingChanges, vars
  <2>5. ASSUME NEW p \in Passes, ListRewards(p) \/ EndPass(p) PROVE HoldInv'
    BY <2>5 DEF ListRewards, EndPass, Start, End, TypeOK
  <2>6. ASSUME NEW p \in Passes, NEW a \in Activations, Judge(p, a) PROVE HoldInv'
    <3>1. UNCHANGED <<reward, receipt, old>>
      BY <2>6 DEF Judge
    <3>2. \A t \in (Passes \cup Payments) \ {p} : stage'[t] = stage[t] /\ cur'[t] = cur[t]
      BY <2>6 DEF Judge, TypeOK
    <3>3. stage'[p] \in {"vet", "verify", "release"} => cur'[p].reward \in old
      <4>1. cur[p] \in Hold \cup {Nothing}
        BY DEF TypeOK
      <4>2. [cur[p] EXCEPT !.reward = a].reward = a
        BY <4>1 DEF Hold, Nothing
      <4>3. stage[p] = "next"
        BY <2>6 DEF Judge, Take
      <4>4. \/ stage' = stage
            \/ stage' = [stage EXCEPT ![p] = "cancel"]
            \/ a \in old /\ cur' = [cur EXCEPT ![p].reward = a]
        BY <2>6 DEF Judge, Held
      <4> QED BY <4>2, <4>3, <4>4 DEF TypeOK
    <3> QED BY <3>1, <3>2, <3>3
  <2>7. ASSUME NEW p \in Passes, Vet(p) \/ Verify(p) PROVE HoldInv'
    BY <2>7 DEF Vet, Verify, Refuse, TypeOK
  <2>8. ASSUME NEW p \in Passes, Decide(p) PROVE HoldInv'
    <3>1. UNCHANGED <<receipt, old>> /\ stage[p] \in {"cancel", "release"}
      BY <2>8 DEF Decide
    <3>2. /\ stage'[p] = "next"
          /\ \A t \in (Passes \cup Payments) \ {p} : stage'[t] = stage[t] /\ cur'[t] = cur[t]
      BY <2>8 DEF Decide, TypeOK
    <3>3. \A a \in Activations : reward'[a].status \in {"payable", "paid"} => a \in old
      <4> TAKE a \in Activations
      <4>1. CASE reward'[a] = reward[a]
        BY <4>1
      <4>2. CASE a = cur[p].reward /\ stage[p] = "cancel"
        BY <4>2, <2>8 DEF Decide, TypeOK
      <4>3. CASE a = cur[p].reward /\ stage[p] = "release"
        BY <4>3, <3>1
      <4> QED BY <4>1, <4>2, <4>3, <3>1, <2>8 DEF Decide, TypeOK
    <3> QED BY <3>1, <3>2, <3>3
  <2>9. ASSUME NEW y \in Payments, NEW a \in Activations, NEW r \in Refs, ReadReward(y, a, r)
        PROVE HoldInv'
    BY <2>9 DEF ReadReward, Start, TypeOK
  <2>10. ASSUME NEW y \in Payments, CheckSuspended(y) PROVE HoldInv'
    BY <2>10 DEF CheckSuspended, End, TypeOK
  <2>11. ASSUME NEW y \in Payments, CreateReceipt(y) PROVE HoldInv'
    BY <2>11 DEF CreateReceipt, TypeOK
  <2>12. ASSUME NEW y \in Payments, MarkPaid(y) PROVE HoldInv'
    BY <2>12 DEF MarkPaid, End, TypeOK
  <2>13. ASSUME NEW t \in Tasks, Fails(t) PROVE HoldInv'
    <3>1. UNCHANGED <<reward, receipt, old>>
      BY <2>13 DEF Fails
    <3>2. /\ stage'[t] \in {"idle", "over"}
          /\ \A u \in (Passes \cup Payments) \ {t} : stage'[u] = stage[u] /\ cur'[u] = cur[u]
      BY <2>13 DEF Fails, End, TypeOK
    <3> QED BY <3>1, <3>2
  <2> HIDE DEF HoldInv, PaidAfterHold, tables, outside, Goto, Tasks
  <2> QED BY <2>1, <2>2, <2>3, <2>4, <2>5, <2>6, <2>7, <2>8, <2>9, <2>10, <2>11, <2>12, <2>13
             DEF Next, Release
<1>3. HoldInv => PaidAfterHold
  BY DEF HoldInv
<1> QED BY <1>1, <1>2, <1>3, TypeCorrect, PTL DEF Spec

\* Paid rewards have receipts of their own: by the unique index no two share a
\* reference, so references map them one to one into the receipts.
THEOREM PaidRewardsAreCovered == Spec => []PaidIsCovered
<1>1. Init => RefsDiffer
  BY DEF Init, RefsDiffer
<1>2. TypeOK /\ TypeOK' /\ RefsDiffer /\ [Next]_vars => RefsDiffer'
  <2> SUFFICES ASSUME TypeOK, TypeOK', RefsDiffer, [Next]_vars PROVE RefsDiffer'
    OBVIOUS
  <2> USE RewardsAssumption DEF RefsDiffer, tables, outside
  <2>1. CASE \A a \in Activations : reward'[a].ref = reward[a].ref
    BY <2>1
  <2>2. ASSUME NEW y \in Payments, MarkPaid(y) PROVE RefsDiffer'
    <3>1. CASE reward' = reward
      BY <3>1
    <3>2. CASE reward' # reward
      <4>1. \A b \in Activations \ {cur[y].reward} : reward[b].ref # cur[y].ref
        BY <2>2, <3>2 DEF MarkPaid, RefTaken
      <4>2. /\ \A b \in Activations \ {cur[y].reward} : reward'[b] = reward[b]
            /\ cur[y].reward \in Activations => reward'[cur[y].reward].ref = cur[y].ref
        BY <2>2, <3>2 DEF MarkPaid, TypeOK
      <4> QED BY <4>1, <4>2
    <3> QED BY <3>1, <3>2
  <2>3. ASSUME NEW a \in Activations, CreateReward(a)
        PROVE \A b \in Activations : reward'[b].ref = reward[b].ref
    BY <2>3 DEF CreateReward, TypeOK
  <2>4. ASSUME NEW p \in Passes, Decide(p)
        PROVE \A b \in Activations : reward'[b].ref = reward[b].ref
    BY <2>4 DEF Decide, TypeOK
  <2>5. \/ reward' = reward
        \/ \E b \in Activations : CreateReward(b)
        \/ \E p \in Passes : Decide(p)
        \/ \E y \in Payments : MarkPaid(y)
    BY DEF Next, vars, SetStatus, Activate, LookForReward, HoldEnds, StandingChanges, Release,
           ListRewards, Judge, Vet, Verify, EndPass, ReadReward, CheckSuspended, Fails, CreateReceipt
  <2> QED BY <2>1, <2>2, <2>3, <2>4, <2>5
<1>3. TypeOK /\ RewardsInv /\ RefsDiffer => PaidIsCovered
  <2> SUFFICES ASSUME TypeOK, RewardsInv, RefsDiffer PROVE PaidIsCovered
    OBVIOUS
  <2> DEFINE Paid == {a \in Activations : reward[a].ref # NoRef}
             Receipted == {r \in Refs : receipt[r] # NoReward}
             by == [a \in Paid |-> reward[a].ref]
  <2>1. by \in [Paid -> Receipted]
    BY DEF TypeOK, RewardsInv
  <2>2. by \in Injection(Paid, Receipted)
    BY <2>1, Fun_IsInj DEF RefsDiffer
  <2>3. IsFiniteSet(Receipted)
    BY RewardsAssumption, FS_Subset
  <2> HIDE DEF Paid, Receipted, by
  <2>4. Cardinality(Paid) <= Cardinality(Receipted)
    BY <2>2, <2>3, FS_Injection
  <2> QED BY <2>4 DEF PaidIsCovered, Paid, Receipted
<1> QED BY <1>1, <1>2, <1>3, TypeCorrect, RewardTablesAgree, PTL DEF Spec

-----------------------------------------------------------------------------
(* A reward is paid twice only in a race for it.  As long as no payment of *)
(* a reward is contested, whatever has become of the payments of others, a *)
(* payment of it has the reward and its reference to itself, and the       *)
(* receipt it creates is the one that the reward keeps as paid.            *)

Paying(y) == stage[y] \in {"read", "receipt", "pay"}

\* A pass has the reward yet to decide on.
Has(p, a) == a \in todo[p] \/ cur[p].reward = a

\* An activation inserts at most one row, its own.
InsertsOnce == \A a \in Activations : reward[a].status # "absent" => stage[a] = "over"

\* A payment asks for one reward, once.
AsksOnce == \A y \in Payments : stage[y] = "idle" => cur[y] = Nothing

\* Nobody else is at the reward, or at the reference, of a payment of it.
PaidAlone(a) ==
  \A y \in Payments :
    Paying(y) /\ cur[y].reward = a =>
      /\ reward[a].status = "payable"
      /\ \A z \in Payments \ {y} : Paying(z) => cur[z].reward # a /\ cur[z].ref # cur[y].ref
      /\ \A p \in Passes : ~Has(p, a)

\* Its receipts are those it keeps, or is about to be marked with, and no other
\* reward keeps them.
PaidByReceipt(a) ==
  /\ reward[a].ref # NoRef => reward[a].status = "paid"
  /\ \A r \in Refs :
       receipt[r] = a =>
         /\ \/ reward[a].ref = r
            \/ \E y \in Payments : stage[y] = "pay" /\ cur[y].reward = a /\ cur[y].ref = r
         /\ \A b \in Activations \ {a} : reward[b].ref # r

ReleasedUnpaid(a) == \A p \in Passes : Has(p, a) => reward[a].status # "paid"

Orderly(a) == PaidAlone(a) /\ PaidByReceipt(a) /\ ReleasedUnpaid(a)

PaymentInv == InsertsOnce /\ AsksOnce /\ \A a \in Activations : ~Contested(a) => Orderly(a)

\* What a payment asks for stays, once it has been read.
LEMMA AskedStays ==
  ASSUME RewardsInv, AsksOnce, [Next]_vars
  PROVE  /\ AsksOnce'
         /\ \A y \in Payments : stage[y] # "idle" => stage'[y] # "idle" /\ cur'[y] = cur[y]
<1> USE RewardsAssumption DEF tables, outside, Tasks, Goto
<1>0. TypeOK
  BY DEF RewardsInv
<1> SUFFICES ASSUME NEW y \in Payments
             PROVE  /\ stage'[y] = "idle" => cur'[y] = Nothing
                    /\ stage[y] # "idle" => stage'[y] # "idle" /\ cur'[y] = cur[y]
  BY DEF AsksOnce
<1>1. ASSUME NEW a \in Activations, Activate(a) \/ LookForReward(a) \/ CreateReward(a)
      PROVE  stage'[y] = stage[y] /\ cur'[y] = cur[y]
  BY <1>0, <1>1 DEF Activate, LookForReward, CreateReward, Start, End, TypeOK
<1>2. ASSUME NEW p \in Passes, ListRewards(p) \/ EndPass(p)
      PROVE  stage'[y] = stage[y] /\ cur'[y] = cur[y]
  BY <1>0, <1>2 DEF ListRewards, EndPass, Start, End, TypeOK
<1>3. ASSUME NEW p \in Passes, Vet(p) \/ Verify(p) \/ Decide(p)
      PROVE  stage'[y] = stage[y] /\ cur'[y] = cur[y]
  BY <1>0, <1>3 DEF Vet, Verify, Decide, Refuse, TypeOK
<1>4. ASSUME NEW p \in Passes, NEW a \in Activations, Judge(p, a)
      PROVE  stage'[y] = stage[y] /\ cur'[y] = cur[y]
  BY <1>0, <1>4 DEF Judge, TypeOK
<1>5. ASSUME NEW z \in Payments, NEW a \in Activations, NEW r \in Refs, ReadReward(z, a, r)
      PROVE  /\ stage[z] = "idle" /\ stage'[z] = "read"
             /\ z # y => stage'[y] = stage[y] /\ cur'[y] = cur[y]
  BY <1>0, <1>5 DEF ReadReward, Start, TypeOK
<1>6. ASSUME NEW z \in Payments, CheckSuspended(z) \/ CreateReceipt(z) \/ MarkPaid(z)
      PROVE  /\ stage[z] # "idle" /\ stage'[z] # "idle" /\ cur' = cur
             /\ z # y => stage'[y] = stage[y]
  BY <1>0, <1>6 DEF CheckSuspended, CreateReceipt, MarkPaid, End, TypeOK
<1>7. ASSUME NEW t \in Tasks, Fails(t)
      PROVE  /\ stage[t] # "idle" /\ (t = y => stage'[t] # "idle") /\ cur'[y] = cur[y]
             /\ t # y => stage'[y] = stage[y]
  BY <1>0, <1>7 DEF Fails, UnderWay, End, TypeOK
<1>8. CASE \/ \E d \in Deals : SetStatus(d)
           \/ \E a \in Activations : HoldEnds(a)
           \/ \E s \in {"verified", "suspended"} : StandingChanges(s)
           \/ UNCHANGED vars
  BY <1>8 DEF SetStatus, HoldEnds, StandingChanges, vars, AsksOnce
<1>9. (stage'[y] = stage[y] /\ cur'[y] = cur[y]) =>
         /\ stage'[y] = "idle" => cur'[y] = Nothing
         /\ stage[y] # "idle" => stage'[y] # "idle" /\ cur'[y] = cur[y]
  BY DEF AsksOnce
<1> HIDE DEF tables, outside, Tasks, Goto
<1>10. CASE \E p \in Passes : Release(p)
  BY <1>2, <1>3, <1>4, <1>9, <1>10 DEF Release
<1>11. CASE \E z \in Payments, a \in Activations, r \in Refs : ReadReward(z, a, r)
  BY <1>5, <1>9, <1>11
<1>12. CASE \E z \in Payments : CheckSuspended(z) \/ CreateReceipt(z) \/ MarkPaid(z)
  BY <1>6, <1>9, <1>12
<1>13. CASE \E t \in Tasks : Fails(t)
  BY <1>7, <1>9, <1>13
<1> QED BY <1>1, <1>8, <1>9, <1>10, <1>11, <1>12, <1>13 DEF Next

\* A reward that was contested is so for good.
LEMMA ContestStays ==
  ASSUME RewardsInv, AsksOnce, [Next]_vars, NEW a \in Activations
  PROVE  Contested(a) => Contested(a)'
<1>1. met \subseteq met'
  BY ActivationSteps
<1>2. cut \subseteq cut'
  BY DEF Next, vars, tables, outside, SetStatus, Activate, LookForReward, HoldEnds, StandingChanges,
         Release, CreateReward, ListRewards, Judge, Vet, Verify, EndPass, ReadReward, CheckSuspended,
         Fails, Decide, CreateReceipt, MarkPaid
<1>3. \A y \in Payments : cur[y].reward = a => cur'[y] = cur[y]
  BY RewardsAssumption, AskedStays DEF AsksOnce, Nothing
<1> QED BY <1>1, <1>2, <1>3 DEF Contested

LEMMA InsertsOnceKept ==
  ASSUME RewardsInv, InsertsOnce, [Next]_vars PROVE InsertsOnce'
<1> USE DEF InsertsOnce
<1>0. TypeOK
  BY DEF RewardsInv
<1>1. CASE /\ \A a \in Activations : stage'[a] \in {stage[a], "over"}
           /\ \A a \in Activations : reward'[a].status # "absent" => reward[a].status # "absent"
  BY <1>1
<1>2. ASSUME NEW a \in Activations, Activate(a) \/ LookForReward(a) PROVE InsertsOnce'
  <2>1. reward' = reward /\ stage[a] # "over"
    BY <1>2 DEF Activate, LookForReward, Start, tables
  <2>2. \A b \in Activations \ {a} : stage'[b] = stage[b]
    BY <1>0, <1>2 DEF Activate, LookForReward, Start, End, Goto, TypeOK, Tasks
  <2> QED BY <2>1, <2>2
<1>3. ASSUME NEW a \in Activations, CreateReward(a) PROVE InsertsOnce'
  <2>1. /\ stage'[a] = "over"
        /\ \A b \in Activations \ {a} : stage'[b] = stage[b] /\ reward'[b] = reward[b]
    BY <1>0, <1>3, RewardsAssumption DEF CreateReward, End, Goto, TypeOK, Tasks
  <2> QED BY <2>1
<1> QED BY <1>1, <1>2, <1>3, ActivationSteps

\* A step that neither pays, nor releases, nor opens the reward.
LEMMA QuietKeeps ==
  ASSUME NEW a \in Activations, Orderly(a),
         receipt' = receipt, reward'[a] = reward[a],
         \A b \in Activations : reward'[b].ref = reward[b].ref,
         \A y \in Payments :
           /\ Paying(y)' => Paying(y) /\ cur'[y] = cur[y]
           /\ stage[y] = "pay" /\ cur[y].reward = a => stage'[y] = "pay" /\ cur'[y] = cur[y],
         \A p \in Passes : Has(p, a)' => Has(p, a)
  PROVE  Orderly(a)'
<1>1. PaidAlone(a)'
  BY DEF Orderly, PaidAlone
<1>2. PaidByReceipt(a)'
  BY DEF Orderly, PaidByReceipt
<1>3. ReleasedUnpaid(a)'
  BY DEF Orderly, ReleasedUnpaid
<1> QED BY <1>1, <1>2, <1>3 DEF Orderly

\* A payment by itself: what it holds is payable, so it has no reference yet,
\* and no other receipt.
LEMMA PayingFacts ==
  ASSUME RewardsInv, NEW y \in Payments, Paying(y), Orderly(cur[y].reward)
  PROVE  /\ cur[y].reward \in Activations /\ cur[y].ref \in Refs
         /\ reward[cur[y].reward].ref = NoRef
         /\ \A r \in Refs : receipt[r] = cur[y].reward => r = cur[y].ref /\ stage[y] = "pay"
<1>1. cur[y] \in [reward : Activations, ref : Refs]
  BY DEF RewardsInv, TypeOK, Paying
<1>2. reward[cur[y].reward].status = "payable"
  BY DEF Orderly, PaidAlone
<1>3. reward[cur[y].reward].ref = NoRef
  BY <1>2 DEF Orderly, PaidByReceipt
<1>4. \A z \in Payments : stage[z] = "pay" /\ cur[z].reward = cur[y].reward => z = y
  BY DEF Orderly, PaidAlone, Paying
<1>5. NoRef \notin Refs
  BY RewardsAssumption
<1> QED BY <1>1, <1>3, <1>4, <1>5 DEF Orderly, PaidByReceipt

LEMMA PassKeeps ==
  ASSUME RewardsInv, NEW a \in Activations, Orderly(a), NEW p \in Passes,
         \/ Vet(p) \/ Verify(p) \/ EndPass(p)
         \/ \E b \in Activations : Judge(p, b)
  PROVE  Orderly(a)'
<1> USE RewardsAssumption DEF tables, outside, Tasks, TypeOK, Goto
<1>0. TypeOK
  BY DEF RewardsInv
<1>1. UNCHANGED <<reward, receipt>>
  BY DEF Vet, Verify, EndPass, Judge
<1>2. \A y \in Payments : stage'[y] = stage[y] /\ cur'[y] = cur[y]
  BY <1>0 DEF Vet, Verify, EndPass, Judge, Refuse, End
<1>3. \A q \in Passes \ {p} : cur'[q] = cur[q] /\ todo'[q] = todo[q]
  BY <1>0 DEF Vet, Verify, EndPass, Judge, Take, Refuse, End
<1>4. Has(p, a)' => Has(p, a)
  <2>1. CASE Vet(p) \/ Verify(p)
    <3>1. todo' = todo /\ (cur' = cur \/ cur' = [cur EXCEPT ![p] = Nothing])
      BY <2>1 DEF Vet, Verify, Refuse
    <3>2. cur'[p] = cur[p] \/ cur'[p] = Nothing
      BY <1>0, <3>1
    <3> QED BY <3>1, <3>2 DEF Has, Nothing
  <2>2. CASE EndPass(p)
    BY <2>2 DEF EndPass, Has
  <2>3. ASSUME NEW b \in Activations, Judge(p, b)
        PROVE  Has(p, a)' => Has(p, a)
    <3>1. b \in todo[p] /\ todo'[p] \subseteq todo[p]
      BY <1>0, <2>3 DEF Judge, Take
    <3>2. cur' = cur \/ cur' = [cur EXCEPT ![p].reward = b]
      BY <2>3 DEF Judge
    <3>3. cur[p] \in Hold \cup {Nothing} /\ p \in DOMAIN cur
      BY <1>0
    <3> HIDE DEF tables, outside, Tasks, TypeOK, Goto
    <3>4. [cur[p] EXCEPT !.reward = b].reward = b
      BY <3>3 DEF Hold, Nothing
    <3>5. cur'[p] = cur[p] \/ cur'[p].reward = b
      BY <3>2, <3>3, <3>4
    <3> QED BY <3>1, <3>5 DEF Has
  <2> QED BY <2>1, <2>2, <2>3
<1>5. \A y \in Payments : (Paying(y)' <=> Paying(y))
  BY <1>2 DEF Paying
<1>6. \A q \in Passes : Has(q, a)' => Has(q, a)
  BY <1>3, <1>4 DEF Has
<1> HIDE DEF tables, outside, Tasks, TypeOK, Goto
<1> QED BY <1>1, <1>2, <1>5, <1>6, QuietKeeps

\* What a payment has read as payable is not listed.
LEMMA ListingKeeps ==
  ASSUME RewardsInv, NEW a \in Activations, Orderly(a), NEW p \in Passes, ListRewards(p)
  PROVE  Orderly(a)'
<1> USE RewardsAssumption DEF tables, outside, Tasks, TypeOK, Goto
<1>0. TypeOK
  BY DEF RewardsInv
<1>1. UNCHANGED <<reward, receipt, cur>>
  BY DEF ListRewards
<1>2. \A y \in Payments : stage'[y] = stage[y] /\ (Paying(y)' <=> Paying(y))
  BY <1>0 DEF ListRewards, Start, Paying
<1>3. \A q \in Passes : Has(q, a)' => Has(q, a) \/ reward[a].status = "pending"
  BY <1>0 DEF ListRewards, Has
<1>4. PaidAlone(a)'
  BY <1>1, <1>2, <1>3 DEF Orderly, PaidAlone
<1>5. PaidByReceipt(a)'
  BY <1>1, <1>2 DEF PaidByReceipt, Orderly
<1>6. ReleasedUnpaid(a)'
  BY <1>1, <1>3 DEF ReleasedUnpaid, Orderly
<1> QED BY <1>4, <1>5, <1>6 DEF Orderly

\* A payment that begins beside a contender for the reward has met it.
LEMMA ReadingKeeps ==
  ASSUME RewardsInv, NEW a \in Activations, Orderly(a),
         NEW y \in Payments, NEW b \in Activations, NEW r \in Refs, ReadReward(y, b, r),
         ~Contested(a)'
  PROVE  Orderly(a)'
<1> USE RewardsAssumption DEF tables, outside, Tasks, TypeOK, Goto
<1>0. TypeOK
  BY DEF RewardsInv
<1>1. UNCHANGED <<reward, receipt, todo>> /\ reward[b].status = "payable" /\ stage[y] = "idle"
  BY DEF ReadReward, Start
<1>2. /\ stage'[y] = "read" /\ cur'[y] = [reward |-> b, ref |-> r]
      /\ \A t \in Tasks \ {y} : stage'[t] = stage[t]
      /\ \A t \in (Passes \cup Payments) \ {y} : cur'[t] = cur[t]
  BY <1>0 DEF ReadReward, Start
<1>3. \A t \in Contenders(b, r) : {t, y} \in met'
  <2>1. \A t \in Contenders(b, r) : {y, t} \in met'
    BY DEF ReadReward, Start
  <2> QED BY <2>1
<1>4. \A z \in Payments \ {y} : (Paying(z)' <=> Paying(z))
  BY <1>2 DEF Paying
<1>5. \A z \in Payments : Paying(z) => z \in UnderWay
  BY DEF Paying, UnderWay
<1>6. \A p \in Passes : (Has(p, a)' <=> Has(p, a))
  BY <1>1, <1>2 DEF Has
<1>7. ASSUME NEW z \in Payments \ {y}, Paying(z), cur[z].reward = a
      PROVE  b # a /\ r # cur[z].ref
  <2>1. CASE z \in Contenders(b, r)
    <3>1. cur'[z].reward = a /\ {y, z} \in met'
      BY <1>2, <1>3, <1>7, <2>1
    <3> QED BY <3>1 DEF Contested
  <2>2. CASE z \notin Contenders(b, r)
    BY <1>5, <1>7, <2>2 DEF Contenders
  <2> QED BY <2>1, <2>2
<1>8. ASSUME b = a
      PROVE  /\ \A z \in Payments \ {y} : Paying(z) => cur[z].reward # a /\ cur[z].ref # r
             /\ \A p \in Passes : ~Has(p, a)
  <2>1. \A t \in Contenders(a, r) : t \notin (Payments \cup Passes) \ {y}
    BY <1>2, <1>3, <1>8 DEF Contested
  <2>2. \A z \in Payments \ {y} : Paying(z) => cur[z].reward # a /\ cur[z].ref # r
    BY <1>5, <2>1 DEF Contenders
  <2>3. \A p \in Passes : ~Has(p, a)
    BY <2>1 DEF Contenders, Has
  <2> QED BY <2>2, <2>3
<1>9. PaidAlone(a)'
  <2> SUFFICES ASSUME NEW z \in Payments, Paying(z)', cur'[z].reward = a
               PROVE  /\ reward[a].status = "payable"
                      /\ \A x \in Payments \ {z} :
                           Paying(x)' => cur'[x].reward # a /\ cur'[x].ref # cur'[z].ref
                      /\ \A p \in Passes : ~Has(p, a)
    BY <1>1, <1>6 DEF PaidAlone
  <2>1. CASE z = y
    BY <1>1, <1>2, <1>4, <1>8, <2>1
  <2>2. CASE z # y
    <3>1. Paying(z) /\ cur'[z] = cur[z]
      BY <1>2, <1>4, <2>2
    <3>2. /\ reward[a].status = "payable"
          /\ \A x \in Payments \ {z} : Paying(x) => cur[x].reward # a /\ cur[x].ref # cur[z].ref
          /\ \A p \in Passes : ~Has(p, a)
      BY <3>1 DEF Orderly, PaidAlone
    <3>3. b # a /\ r # cur[z].ref
      BY <1>7, <2>2, <3>1
    <3>4. \A x \in Payments \ {z, y} :
            Paying(x)' => cur'[x].reward # a /\ cur'[x].ref # cur'[z].ref
      BY <1>2, <1>4, <3>1, <3>2
    <3> QED BY <1>2, <3>1, <3>2, <3>3, <3>4
  <2> QED BY <2>1, <2>2
<1>10. PaidByReceipt(a)'
  <2>1. \A z \in Payments : stage[z] = "pay" => stage'[z] = "pay" /\ cur'[z] = cur[z]
    BY <1>1, <1>2
  <2> QED BY <1>1, <2>1 DEF PaidByReceipt, Orderly
<1>11. ReleasedUnpaid(a)'
  BY <1>1, <1>6 DEF ReleasedUnpaid, Orderly
<1> QED BY <1>9, <1>10, <1>11 DEF Orderly

LEMMA SuspensionKeeps ==
  ASSUME RewardsInv, NEW a \in Activations, Orderly(a), NEW y \in Payments, CheckSuspended(y)
  PROVE  Orderly(a)'
<1> USE RewardsAssumption DEF tables, outside, Tasks, TypeOK, Goto
<1>0. TypeOK
  BY DEF RewardsInv
<1>1. UNCHANGED <<reward, receipt, todo, cur>> /\ stage[y] = "read"
      /\ \A t \in Tasks \ {y} : stage'[t] = stage[t]
  BY <1>0 DEF CheckSuspended, End
<1>2. \A z \in Payments : (Paying(z)' => Paying(z)) /\ (stage[z] = "pay" => stage'[z] = "pay")
  BY <1>1 DEF Paying
<1>3. \A p \in Passes : Has(p, a)' => Has(p, a)
  BY <1>1 DEF Has
<1> HIDE DEF tables, outside, Tasks, TypeOK, Goto
<1> QED BY <1>1, <1>2, <1>3, QuietKeeps

\* A receipt is created for the reward by its payment alone, and one that was
\* there before keeps its reward.
LEMMA ReceiptKeeps ==
  ASSUME RewardsInv, NEW a \in Activations, Orderly(a), NEW y \in Payments, CreateReceipt(y)
  PROVE  Orderly(a)'
<1> USE RewardsAssumption DEF tables, outside, Tasks, TypeOK, Goto
<1>0. TypeOK
  BY DEF RewardsInv
<1>1. UNCHANGED <<reward, todo, cur>> /\ stage[y] = "receipt"
      /\ stage'[y] = "pay" /\ \A t \in Tasks \ {y} : stage'[t] = stage[t]
  BY <1>0 DEF CreateReceipt
<1>2. Paying(y)
  BY <1>1 DEF Paying
<1>3. cur[y].reward \in Activations /\ cur[y].ref \in Refs
  BY <1>0, <1>1
<1>4. \A r \in Refs : receipt'[r] = IF r = cur[y].ref /\ receipt[r] = NoReward
                                      THEN cur[y].reward ELSE receipt[r]
  BY <1>0, <1>3 DEF CreateReceipt
<1>5. \A z \in Payments : /\ Paying(z)' <=> Paying(z)
                          /\ stage[z] = "pay" => stage'[z] = "pay"
  BY <1>1 DEF Paying
<1>6. \A p \in Passes : (Has(p, a)' <=> Has(p, a))
  BY <1>1 DEF Has
<1>7. PaidAlone(a)' /\ ReleasedUnpaid(a)'
  BY <1>1, <1>5, <1>6 DEF Orderly, PaidAlone, ReleasedUnpaid
<1>8. ASSUME NEW r \in Refs, receipt'[r] = a
      PROVE  /\ \/ reward[a].ref = r
                \/ \E z \in Payments : stage'[z] = "pay" /\ cur[z].reward = a /\ cur[z].ref = r
             /\ \A b \in Activations \ {a} : reward[b].ref # r
  <2>1. CASE receipt[r] = a
    BY <1>5, <2>1 DEF Orderly, PaidByReceipt
  <2>2. CASE receipt[r] # a
    <3>1. r = cur[y].ref /\ receipt[r] = NoReward /\ cur[y].reward = a
      BY <1>4, <1>8, <2>2
    <3>2. r # NoRef
      BY RewardsAssumption
    <3>3. \A b \in Activations : reward[b].ref # r
      BY <3>1, <3>2 DEF RewardsInv
    <3> QED BY <1>1, <3>1, <3>3
  <2> QED BY <2>1, <2>2
<1>9. PaidByReceipt(a)'
  BY <1>1, <1>8 DEF Orderly, PaidByReceipt
<1> QED BY <1>7, <1>9 DEF Orderly

\* Marked by its own payment, a reward keeps the one receipt it has.
LEMMA OwnMarkKeeps ==
  ASSUME RewardsInv, NEW y \in Payments, MarkPaid(y), Orderly(cur[y].reward)
  PROVE  \A a \in Activations : a = cur[y].reward => Orderly(a)'
<1> USE RewardsAssumption DEF tables, outside, Tasks, TypeOK, Goto
<1>0. TypeOK
  BY DEF RewardsInv
<1> SUFFICES ASSUME NEW a \in Activations, a = cur[y].reward PROVE Orderly(a)'
  OBVIOUS
<1>1. UNCHANGED <<receipt, todo, cur>> /\ stage[y] = "pay"
      /\ stage'[y] = "over" /\ \A t \in Tasks \ {y} : stage'[t] = stage[t]
  BY <1>0 DEF MarkPaid, End
<1>2. Paying(y)
  BY <1>1 DEF Paying
<1>3. /\ cur[y].ref \in Refs /\ reward[a].ref = NoRef
      /\ \A r \in Refs : receipt[r] = a => r = cur[y].ref
  BY <1>2, PayingFacts
<1>4. \A p \in Passes : ~Has(p, a) /\ ~Has(p, a)'
  BY <1>1, <1>2 DEF Has, Orderly, PaidAlone
<1>5. \A z \in Payments : ~(Paying(z)' /\ cur'[z].reward = a)
  <2>1. \A z \in Payments \ {y} : Paying(z) => cur[z].reward # a
    BY <1>2 DEF Orderly, PaidAlone
  <2> QED BY <1>1, <2>1 DEF Paying
<1>6. PaidAlone(a)' /\ ReleasedUnpaid(a)'
  BY <1>4, <1>5 DEF PaidAlone, ReleasedUnpaid
<1>7. PaidByReceipt(a)'
  <2>1. CASE RefTaken(a, cur[y].ref)
    <3>1. reward' = reward
      BY <2>1 DEF MarkPaid
    <3>2. receipt[cur[y].ref] # a
      BY <1>3, <2>1 DEF RefTaken, Orderly, PaidByReceipt
    <3>3. \A r \in Refs : receipt[r] # a
      BY <1>3, <3>2
    <3> QED BY <1>1, <1>3, <3>1, <3>3 DEF PaidByReceipt
  <2>2. CASE ~RefTaken(a, cur[y].ref)
    <3>1. /\ reward'[a].status = "paid" /\ reward'[a].ref = cur[y].ref
          /\ \A b \in Activations \ {a} : reward'[b] = reward[b]
      BY <1>0, <1>3, <2>2 DEF MarkPaid
    <3>2. \A b \in Activations \ {a} : reward'[b].ref # cur[y].ref
      BY <2>2, <3>1 DEF RefTaken
    <3> QED BY <1>1, <1>3, <3>1, <3>2 DEF PaidByReceipt
  <2> QED BY <2>1, <2>2
<1> QED BY <1>6, <1>7 DEF Orderly

\* The mark of another reward cannot take a receipt: its reference is kept, or
\* being paid by, alone.
LEMMA OtherMarkKeeps ==
  ASSUME RewardsInv, NEW a \in Activations, Orderly(a),
         NEW y \in Payments, MarkPaid(y), cur[y].reward # a
  PROVE  Orderly(a)'
<1> USE RewardsAssumption DEF tables, outside, Tasks, TypeOK, Goto
<1>0. TypeOK
  BY DEF RewardsInv
<1>1. UNCHANGED <<receipt, todo, cur>> /\ stage[y] = "pay"
      /\ stage'[y] = "over" /\ \A t \in Tasks \ {y} : stage'[t] = stage[t]
  BY <1>0 DEF MarkPaid, End
<1>2. reward'[a] = reward[a]
  BY <1>0 DEF MarkPaid
<1>3. \A z \in Payments : /\ Paying(z)' => Paying(z)
                          /\ stage[z] = "pay" /\ cur[z].reward = a => stage'[z] = "pay"
  BY <1>1 DEF Paying
<1>4. \A p \in Passes : (Has(p, a)' <=> Has(p, a))
  BY <1>1 DEF Has
<1>5. PaidAlone(a)' /\ ReleasedUnpaid(a)'
  BY <1>1, <1>2, <1>3, <1>4 DEF Orderly, PaidAlone, ReleasedUnpaid
<1>6. \A b \in Activations :
        reward'[b].ref = reward[b].ref
          \/ (b = cur[y].reward /\ reward'[b].ref = cur[y].ref /\ ~RefTaken(b, cur[y].ref))
  BY <1>0 DEF MarkPaid
<1>7. ASSUME NEW r \in Refs, receipt[r] = a, NEW b \in Activations \ {a}
      PROVE  reward'[b].ref # r
  <2>1. reward[b].ref # r
    BY <1>7 DEF Orderly, PaidByReceipt
  <2>2. CASE reward[a].ref = r
    BY <1>6, <2>1, <2>2 DEF RefTaken
  <2>3. ASSUME NEW z \in Payments, stage[z] = "pay", cur[z].reward = a, cur[z].ref = r
        PROVE  reward'[b].ref # r
    <3>1. Paying(y) /\ Paying(z) /\ y # z
      BY <1>1, <2>3 DEF Paying
    <3>2. cur[y].ref # r
      BY <2>3, <3>1 DEF Orderly, PaidAlone
    <3> QED BY <1>6, <2>1, <3>2
  <2> QED BY <1>7, <2>2, <2>3 DEF Orderly, PaidByReceipt
<1>8. PaidByReceipt(a)'
  BY <1>1, <1>2, <1>3, <1>7 DEF Orderly, PaidByReceipt
<1> QED BY <1>5, <1>8 DEF Orderly

LEMMA DecidingKeeps ==
  ASSUME RewardsInv, NEW a \in Activations, Orderly(a), NEW p \in Passes, Decide(p)
  PROVE  Orderly(a)'
<1> USE RewardsAssumption DEF tables, outside, Tasks, TypeOK, Goto
<1>0. TypeOK
  BY DEF RewardsInv
<1>1. /\ UNCHANGED <<receipt, todo>> /\ cur[p].reward \in Activations
      /\ cur'[p] = Nothing
      /\ \A t \in (Passes \cup Payments) \ {p} : cur'[t] = cur[t]
      /\ \A y \in Payments : stage'[y] = stage[y]
  BY <1>0 DEF Decide
<1>2. /\ \A b \in Activations : reward'[b].ref = reward[b].ref
      /\ \A b \in Activations \ {cur[p].reward} : reward'[b] = reward[b]
      /\ reward'[cur[p].reward].status # "paid"
  BY <1>0, <1>1 DEF Decide
<1>3. \A y \in Payments : (Paying(y)' <=> Paying(y)) /\ cur'[y] = cur[y]
  BY <1>1 DEF Paying
<1>4. \A q \in Passes : Has(q, a)' => Has(q, a)
  BY <1>1 DEF Has, Nothing
<1>5. CASE a # cur[p].reward
  <2> HIDE DEF tables, outside, Tasks, TypeOK, Goto
  <2> QED BY <1>1, <1>2, <1>3, <1>4, <1>5, QuietKeeps
<1>6. CASE a = cur[p].reward
  <2>1. Has(p, a) /\ reward[a].status # "paid" /\ reward[a].ref = NoRef
    BY <1>6 DEF Has, Orderly, ReleasedUnpaid, PaidByReceipt
  <2>2. PaidAlone(a)'
    BY <1>3, <2>1 DEF Orderly, PaidAlone
  <2>3. PaidByReceipt(a)'
    BY <1>1, <1>2, <1>3, <2>1 DEF Orderly, PaidByReceipt
  <2>4. ReleasedUnpaid(a)'
    BY <1>2, <1>6 DEF ReleasedUnpaid
  <2> QED BY <2>2, <2>3, <2>4 DEF Orderly
<1> QED BY <1>5, <1>6

LEMMA OpeningKeeps ==
  ASSUME RewardsInv, InsertsOnce, NEW a \in Activations, Orderly(a),
         NEW b \in Activations, CreateReward(b)
  PROVE  Orderly(a)'
<1> USE RewardsAssumption DEF tables, outside, Tasks, TypeOK, Goto
<1>0. TypeOK
  BY DEF RewardsInv
<1>1. /\ UNCHANGED <<receipt, todo, cur>> /\ reward[b].status = "absent"
      /\ \A t \in Passes \cup Payments : stage'[t] = stage[t]
  BY <1>0 DEF CreateReward, InsertsOnce, End
<1>2. /\ reward'[b].status = "pending"
      /\ \A c \in Activations : reward'[c].ref = reward[c].ref
      /\ \A c \in Activations \ {b} : reward'[c] = reward[c]
  BY <1>0 DEF CreateReward
<1>3. \A y \in Payments : (Paying(y)' <=> Paying(y)) /\ stage'[y] = stage[y]
  BY <1>1 DEF Paying
<1>4. \A p \in Passes : Has(p, a)' => Has(p, a)
  BY <1>1 DEF Has
<1>5. CASE a # b
  <2> HIDE DEF tables, outside, Tasks, TypeOK, Goto
  <2> QED BY <1>1, <1>2, <1>3, <1>4, <1>5, QuietKeeps
<1>6. CASE a = b
  <2>1. \A y \in Payments : ~(Paying(y) /\ cur[y].reward = a)
    BY <1>1, <1>6 DEF Orderly, PaidAlone
  <2>2. reward[a].ref = NoRef
    BY <1>1, <1>6 DEF Orderly, PaidByReceipt
  <2>3. PaidAlone(a)'
    BY <1>1, <1>3, <2>1 DEF PaidAlone
  <2>4. PaidByReceipt(a)'
    BY <1>1, <1>2, <1>3, <2>2 DEF Orderly, PaidByReceipt
  <2>5. ReleasedUnpaid(a)'
    BY <1>2, <1>6 DEF ReleasedUnpaid
  <2> QED BY <2>3, <2>4, <2>5 DEF Orderly
<1> QED BY <1>5, <1>6

LEMMA FailureKeeps ==
  ASSUME RewardsInv, NEW a \in Activations, Orderly(a), NEW t \in Tasks, Fails(t), ~Contested(a)'
  PROVE  Orderly(a)'
<1> USE RewardsAssumption DEF tables, outside, Tasks, TypeOK, Goto
<1>0. TypeOK
  BY DEF RewardsInv
<1>1. UNCHANGED <<reward, receipt>>
  BY DEF Fails
<1>2. /\ stage'[t] = IF t \in Passes THEN "idle" ELSE "over"
      /\ \A u \in Tasks \ {t} : stage'[u] = stage[u]
  BY <1>0 DEF Fails, End
<1>3. /\ \A y \in Payments : cur'[y] = cur[y]
      /\ \A p \in Passes : cur'[p] = cur[p] \/ cur'[p] = Nothing
      /\ \A p \in Passes : todo'[p] \subseteq todo[p]
  BY <1>0 DEF Fails
<1>4. stage[t] = "pay" => t \in Payments /\ cur[t].reward # a
  <2> SUFFICES ASSUME stage[t] = "pay" PROVE t \in Payments /\ cur[t].reward # a
    OBVIOUS
  <2>1. t \in Payments
    BY <1>0 DEF ActStages, PassStages
  <2>2. t \in cut'
    BY DEF Fails
  <2> QED BY <1>3, <2>1, <2>2 DEF Contested
<1>5. \A y \in Payments :
        /\ Paying(y)' => Paying(y) /\ cur'[y] = cur[y]
        /\ stage[y] = "pay" /\ cur[y].reward = a => stage'[y] = "pay" /\ cur'[y] = cur[y]
  BY <1>2, <1>3, <1>4 DEF Paying
<1>6. \A p \in Passes : Has(p, a)' => Has(p, a)
  BY <1>3 DEF Has, Nothing
<1> HIDE DEF tables, outside, Tasks, TypeOK, Goto
<1> QED BY <1>1, <1>5, <1>6, QuietKeeps

LEMMA ElsewhereKeeps ==
  ASSUME RewardsInv, NEW a \in Activations, Orderly(a),
         \/ \E d \in Deals : SetStatus(d)
         \/ \E b \in Activations : Activate(b) \/ LookForReward(b) \/ HoldEnds(b)
         \/ \E s \in {"verified", "suspended"} : StandingChanges(s)
         \/ UNCHANGED vars
  PROVE  Orderly(a)'
<1> USE RewardsAssumption DEF tables, outside, Tasks, TypeOK, Goto
<1>0. TypeOK
  BY DEF RewardsInv
<1>1. UNCHANGED <<reward, receipt, todo, cur>>
  BY DEF SetStatus, Activate, LookForReward, HoldEnds, StandingChanges, vars
<1>2. \A t \in Payments : stage'[t] = stage[t]
  BY <1>0 DEF SetStatus, Activate, LookForReward, HoldEnds, StandingChanges, vars, Start, End
<1>3. \A y \in Payments : Paying(y)' => Paying(y)
  BY <1>2 DEF Paying
<1>4. \A p \in Passes : Has(p, a)' => Has(p, a)
  BY <1>1 DEF Has
<1> HIDE DEF tables, outside, Tasks, TypeOK, Goto
<1> QED BY <1>1, <1>2, <1>3, <1>4, QuietKeeps

LEMMA PaymentInductive ==
  ASSUME RewardsInv, PaymentInv, [Next]_vars  PROVE PaymentInv'
<1>1. InsertsOnce' /\ AsksOnce'
  BY InsertsOnceKept, AskedStays DEF PaymentInv
<1>2. ASSUME NEW a \in Activations, ~Contested(a)' PROVE Orderly(a)'
  <2>1. Orderly(a) /\ InsertsOnce
    BY <1>2, ContestStays DEF PaymentInv
  <2>2. CASE \E p \in Passes : Release(p)
    <3>1. PICK p \in Passes : Release(p)
      BY <2>2
    <3> QED BY <2>1, <3>1, PassKeeps, ListingKeeps, DecidingKeeps DEF Release
  <2>3. CASE \E y \in Payments : CheckSuspended(y) \/ CreateReceipt(y)
    BY <2>1, <2>3, SuspensionKeeps, ReceiptKeeps
  <2>4. CASE \E y \in Payments : MarkPaid(y)
    BY <2>1, <2>4, OwnMarkKeeps, OtherMarkKeeps
  <2>5. CASE \E y \in Payments, b \in Activations, r \in Refs : ReadReward(y, b, r)
    BY <1>2, <2>1, <2>5, ReadingKeeps
  <2>6. CASE \E b \in Activations : CreateReward(b)
    BY <2>1, <2>6, OpeningKeeps
  <2>7. CASE \E t \in Tasks : Fails(t)
    BY <1>2, <2>1, <2>7, FailureKeeps
  <2>8. CASE \/ \E d \in Deals : SetStatus(d)
             \/ \E b \in Activations : Activate(b) \/ LookForReward(b) \/ HoldEnds(b)
             \/ \E s \in {"verified", "suspended"} : StandingChanges(s)
             \/ UNCHANGED vars
    BY <2>1, <2>8, ElsewhereKeeps
  <2> QED BY <2>2, <2>3, <2>4, <2>5, <2>6, <2>7, <2>8 DEF Next
<1> QED BY <1>1, <1>2 DEF PaymentInv

LEMMA OrderlyPaysOnce == RewardsInv /\ PaymentInv => PaidTwiceNeedsRace
<1> SUFFICES ASSUME RewardsInv, PaymentInv, NEW q \in Refs, NEW r \in Refs,
                    receipt[q] # NoReward, receipt[q] = receipt[r], ~Contested(receipt[q])
             PROVE  q = r
  BY DEF PaidTwiceNeedsRace
<1>1. PICK a \in Activations : receipt[q] = a /\ receipt[r] = a
  BY DEF RewardsInv, TypeOK
<1>2. Orderly(a)
  BY <1>1 DEF PaymentInv
<1>3. ASSUME NEW y \in Payments, stage[y] = "pay", cur[y].reward = a
      PROVE  q = r
  BY <1>1, <1>2, <1>3, PayingFacts DEF Paying
<1> QED BY <1>1, <1>2, <1>3 DEF Orderly, PaidByReceipt

\* A reward has two receipts only where a payment of it overlapped another one
\* of it or by its reference, or a pass that had yet to decide on it, or was cut
\* off between its receipt and its mark; what happened to other rewards is no
\* excuse.
THEOREM DoublePaymentIsARace == Spec => []PaidTwiceNeedsRace
<1>1. Init => PaymentInv
  <2> SUFFICES ASSUME Init PROVE PaymentInv
    OBVIOUS
  <2>1. \A y \in Payments : ~Paying(y)
    BY DEF Init, Paying, Tasks
  <2>2. InsertsOnce /\ AsksOnce
    BY DEF Init, InsertsOnce, AsksOnce, Nothing
  <2>3. \A a \in Activations : PaidAlone(a)
    BY <2>1 DEF PaidAlone
  <2>4. \A a \in Activations : PaidByReceipt(a) /\ ReleasedUnpaid(a)
    BY RewardsAssumption DEF Init, PaidByReceipt, ReleasedUnpaid
  <2> QED BY <2>2, <2>3, <2>4 DEF PaymentInv, Orderly
<1>2. RewardsInv /\ PaymentInv /\ [Next]_vars => PaymentInv'
  BY PaymentInductive
<1> QED BY <1>1, <1>2, RewardTablesAgree, OrderlyPaysOnce, PTL DEF Spec

=============================================================================
