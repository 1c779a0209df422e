---------------------------- MODULE RewardsProps -----------------------------
(***************************************************************************)
(* What the requests about rewards keep to: one at a time they do what     *)
(* they should, and a deal is rewarded twice, or a reward paid twice, only *)
(* where two of them raced.                                                *)
(***************************************************************************)
EXTENDS Rewards

ActStages  == {"idle", "over", "opening", "insert"}
PassStages == {"idle", "next", "vet", "verify", "cancel", "release"}
PayStages  == {"idle", "over", "read", "receipt", "pay"}

Hold == [reward : Activations, ref : Refs \cup {NoRef}]

TypeOK ==
  /\ defaulted \subseteq Deals
  /\ reward  \in [Activations -> [status : RewardStatus, ref : Refs \cup {NoRef}]]
  /\ receipt \in [Refs -> Activations \cup {NoReward}]
  /\ standing \subseteq {"verified", "suspended"}
  /\ old     \subseteq Activations
  /\ stage   \in [Tasks -> ActStages \cup PassStages \cup PayStages]
  /\ \A a \in Activations : stage[a] \in ActStages
  /\ \A p \in Passes : stage[p] \in PassStages
  /\ \A y \in Payments : stage[y] \in PayStages
  /\ todo    \in [Passes -> SUBSET Activations]
  /\ cur     \in [Passes \cup Payments -> Hold \cup {Nothing}]
  /\ cut     \subseteq Payments
  /\ moves   \in Nat /\ mishaps \in Nat
  /\ \A p \in Passes : stage[p] \in {"vet", "verify", "cancel", "release"} => cur[p].reward \in Activations
  /\ \A y \in Payments : stage[y] \in {"read", "receipt", "pay"} => cur[y] \in [reward : Activations, ref : Refs]

\* The tables agree: receipts are of rewards that exist, whoever holds a reward
\* holds one that exists, and a paid reward keeps the reference it was paid by,
\* which has a receipt.
RewardsInv ==
  /\ TypeOK
  /\ \A r \in Refs : receipt[r] # NoReward => reward[receipt[r]].status # "absent"
  /\ \A t \in DOMAIN cur : cur[t].reward # NoReward => reward[cur[t].reward].status # "absent"
  /\ \A a \in Activations :
       /\ reward[a].status = "paid" => reward[a].ref # NoRef
       /\ reward[a].ref # NoRef => receipt[reward[a].ref] # NoReward

\* "Opens a pending reward for the whistleblower, once": a deal has a second
\* reward only when two requests to activate it overlapped.
RewardedTwiceNeedsRace ==
  \A a, b \in Activations :
    a # b /\ ActOf[a] = ActOf[b] /\ reward[a].status # "absent" /\ reward[b].status # "absent"
      => {a, b} \in met

\* Nothing is paid for a rental that has not held: a reward that has a receipt,
\* or can be paid, is past its hold period.
PaidAfterHold ==
  /\ \A r \in Refs : receipt[r] # NoReward => receipt[r] \in old
  /\ \A a \in Activations : reward[a].status \in {"payable", "paid"} => a \in old

\* The accounts agree: paid rewards have receipts of their own.
PaidIsCovered ==
  Cardinality({a \in Activations : reward[a].ref # NoRef})
    <= Cardinality({r \in Refs : receipt[r] # NoReward})

\* A payment of the reward that was not left to itself: it began beside a
\* contender for the reward or for its reference, or one began beside it, or it
\* ended between its receipt and its mark.
Contested(a) ==
  \E y \in Payments :
    /\ cur[y].reward = a
    /\ y \in cut \/ \E t \in Payments \cup Passes : t # y /\ {t, y} \in met

\* A reward has two receipts only when a payment of that very reward overlapped
\* another payment of it or by its reference, or a release pass that had yet to
\* decide on it, or ended between its receipt and its mark.
PaidTwiceNeedsRace ==
  \A q, r \in Refs :
    q # r /\ receipt[q] # NoReward /\ receipt[q] = receipt[r] => Contested(receipt[q])

=============================================================================
