------------------------------ MODULE Rewards -------------------------------
(***************************************************************************)
(* The reward of a whistleblower.  PATCH /api/deals/:id/status opens it    *)
(* when a deal becomes active, release passes (a timer in every instance,  *)
(* and an admin route) make it payable or cancel it, mark-paid pays it.    *)
(*                                                                         *)
(* One whistleblower, whose listings the deals let.  Every statement is a  *)
(* step of its own; no request takes a lock or a transaction.  A reward is *)
(* known by the request that inserted its row.  Of the status of a deal    *)
(* only whether it is defaulted is kept.                                   *)
(***************************************************************************)
EXTENDS FiniteSets, Naturals

CONSTANTS
  Deals,
  Activations,      \* requests to PATCH a deal to 'active', and their rewards
  ActOf,            \* the deal of each
  Passes,           \* runs of releaseDueRewards, one after the other in each
  Payments,         \* requests to mark a reward paid
  Refs,             \* external references of payments
  NoReward, NoRef,
  MaxMoves,         \* bound: changes of status, of a deal or of the reporter
  MaxMishaps        \* bound: crashes and failing statements

Tasks == Activations \cup Passes \cup Payments

ASSUME RewardsAssumption ==
  /\ Activations \cap Passes = {} /\ Activations \cap Payments = {} /\ Passes \cap Payments = {}
  /\ ActOf \in [Activations -> Deals]
  /\ NoReward \notin Activations /\ NoRef \notin Refs
  /\ IsFiniteSet(Refs)
  /\ MaxMoves \in Nat /\ MaxMishaps \in Nat

VARIABLES
  defaulted,  \* the deals whose status is 'defaulted'
  reward,     \* whistleblower_rewards
  receipt,    \* outbox_items of rewards, by external reference
  standing,   \* of the whistleblower: "verified" and "suspended", or what holds of them
  old,        \* the rewards whose hold period has passed
  stage, todo, \* where each task is, and what a pass has listed
  cur,        \* the reward in the hands of a pass; what a payment asks for
  met,        \* the pairs of rivals that were under way at the same time
  cut,        \* the payments that ended between their receipt and their mark
  moves, mishaps

vars   == <<defaulted, reward, receipt, standing, old, stage, todo, cur, met, cut, moves, mishaps>>
tables == <<defaulted, reward, receipt>>
outside == <<standing, old, cut, moves>>

RewardStatus == {"absent", "pending", "payable", "paid", "cancelled"}

Init ==
  /\ defaulted = {}
  /\ reward   = [a \in Activations |-> [status |-> "absent", ref |-> NoRef]]
  /\ receipt  = [r \in Refs |-> NoReward]
  /\ standing = {"verified"}
  /\ old      = {}
  /\ stage    = [t \in Tasks |-> "idle"]
  /\ todo     = [p \in Passes |-> {}]
  /\ cur      = [t \in Passes \cup Payments |-> [reward |-> NoReward, ref |-> NoRef]]
  /\ met      = {}
  /\ cut      = {}
  /\ moves    = 0
  /\ mishaps  = 0

UnderWay == {t \in Tasks : stage[t] \notin {"idle", "over"}}

\* Whoever may still decide on the reward, or pay it, or pay by the reference.
Contenders(a, r) ==
  {p \in Passes : a \in todo[p] \/ cur[p].reward = a}
    \cup {y \in Payments : y \in UnderWay /\ (cur[y].reward = a \/ cur[y].ref = r)}

\* A pass starts again when it has ended, a request does not.
Goto(t, s) == stage' = [stage EXCEPT ![t] = s]
End(t)     == Goto(t, IF t \in Passes THEN "idle" ELSE "over")

\* Of its company a task remembers the rivals.
Start(t, s, rivals) ==
  /\ stage[t] = "idle"
  /\ Goto(t, s)
  /\ met' = met \cup {{t, u} : u \in rivals}

-----------------------------------------------------------------------------
(* PATCH /api/deals/:dealId/status.  Any status may be set at any time.    *)

\* Also by the late-payment job: into the default, or out of it.
SetStatus(d) ==
  /\ moves < MaxMoves
  /\ moves' = moves + 1
  /\ defaulted' = IF d \in defaulted THEN defaulted \ {d} ELSE defaulted \cup {d}
  /\ UNCHANGED <<reward, receipt, standing, old, stage, todo, cur, met, cut, mishaps>>

\* 'active', which opens the reward.
Activate(a) ==
  /\ Start(a, "opening", Activations \cap UnderWay)
  /\ defaulted' = defaulted \ {ActOf[a]}
  /\ UNCHANGED <<reward, receipt, outside, todo, cur, mishaps>>

\* Mutant: nobody looks.
RewardedNever(d) == FALSE

Rewarded(d) == \E a \in Activations : ActOf[a] = d /\ reward[a].status # "absent"

\* openRewardForDeal: listAll and find, then insert.
LookForReward(a) ==
  /\ stage[a] = "opening"
  /\ IF Rewarded(ActOf[a]) THEN End(a) ELSE Goto(a, "insert")
  /\ UNCHANGED <<tables, outside, todo, cur, met, mishaps>>

CreateReward(a) ==
  /\ stage[a] = "insert"
  /\ reward' = [reward EXCEPT ![a].status = "pending"]
  /\ End(a)
  /\ UNCHANGED <<defaulted, receipt, outside, todo, cur, met, mishaps>>

\* The hold period counts from the insert.
HoldEnds(a) ==
  /\ reward[a].status # "absent" /\ a \notin old
  /\ old' = old \cup {a}
  /\ UNCHANGED <<tables, standing, stage, todo, cur, met, cut, moves, mishaps>>

\* Reports suspend and an admin reinstates.  A failed attempt to verify that
\* has read the record before another one succeeded takes that one back.
StandingChanges(s) ==
  /\ moves < MaxMoves
  /\ moves' = moves + 1
  /\ standing' = IF s \in standing THEN standing \ {s} ELSE standing \cup {s}
  /\ UNCHANGED <<tables, old, stage, todo, cur, met, cut, mishaps>>

-----------------------------------------------------------------------------
(* whistleblowerRewardService.releaseDueRewards                            *)

Nothing == [reward |-> NoReward, ref |-> NoRef]

\* No payment is a rival here: what it has read as payable is not listed.
ListRewards(p) ==
  /\ Start(p, "next", {})
  /\ todo' = [todo EXCEPT ![p] = {a \in Activations : reward[a].status = "pending"}]
  /\ UNCHANGED <<tables, outside, cur, mishaps>>

Take(p, a) ==
  /\ stage[p] = "next" /\ a \in todo[p]
  /\ todo' = [todo EXCEPT ![p] = @ \ {a}]

\* Mutant: the hold period is not waited for.
HeldAlready(a) == TRUE

Held(a) == a \in old

\* The status is as listed, the deal is read now: cancel, wait, or go on.
Judge(p, a) ==
  /\ Take(p, a)
  /\ \/ /\ ActOf[a] \in defaulted
        /\ Goto(p, "cancel")
        /\ cur' = [cur EXCEPT ![p].reward = a]
     \/ /\ ActOf[a] \notin defaulted /\ ~Held(a)
        /\ UNCHANGED <<stage, cur>>
     \/ /\ ActOf[a] \notin defaulted /\ Held(a)
        /\ Goto(p, "vet")
        /\ cur' = [cur EXCEPT ![p].reward = a]
  /\ UNCHANGED <<tables, outside, met, mishaps>>

Refuse(p) == Goto(p, "next") /\ cur' = [cur EXCEPT ![p] = Nothing]

Vet(p) ==
  /\ stage[p] = "vet"
  /\ IF "suspended" \in standing THEN Refuse(p) ELSE Goto(p, "verify") /\ UNCHANGED cur
  /\ UNCHANGED <<tables, outside, todo, met, mishaps>>

Verify(p) ==
  /\ stage[p] = "verify"
  /\ IF "verified" \notin standing THEN Refuse(p) ELSE Goto(p, "release") /\ UNCHANGED cur
  /\ UNCHANGED <<tables, outside, todo, met, mishaps>>

\* updateStatus by id, whatever the status has become.
Decide(p) ==
  /\ stage[p] \in {"cancel", "release"}
  /\ reward' = [reward EXCEPT ![cur[p].reward].status =
                  IF stage[p] = "cancel" THEN "cancelled" ELSE "payable"]
  /\ Goto(p, "next")
  /\ cur' = [cur EXCEPT ![p] = Nothing]
  /\ UNCHANGED <<defaulted, receipt, outside, todo, met, mishaps>>

EndPass(p) ==
  /\ stage[p] = "next" /\ todo[p] = {}
  /\ End(p)
  /\ UNCHANGED <<tables, outside, todo, cur, met, mishaps>>

-----------------------------------------------------------------------------
(* POST /admin/rewards/:rewardId/mark-paid                                 *)

\* Mutant: whatever its status.
ReadRewardAnyway(y, a, r) ==
  /\ reward[a].status # "absent"
  /\ Start(y, "read", Contenders(a, r))
  /\ cur' = [cur EXCEPT ![y] = [reward |-> a, ref |-> r]]
  /\ UNCHANGED <<tables, outside, todo, mishaps>>

\* The row is read here, its status tested after the suspension.
ReadReward(y, a, r) ==
  /\ reward[a].status = "payable"
  /\ Start(y, "read", Contenders(a, r))
  /\ cur' = [cur EXCEPT ![y] = [reward |-> a, ref |-> r]]
  /\ UNCHANGED <<tables, outside, todo, mishaps>>

CheckSuspended(y) ==
  /\ stage[y] = "read"
  /\ IF "suspended" \in standing
       THEN End(y) ELSE Goto(y, "receipt")
  /\ UNCHANGED <<tables, outside, todo, cur, met, mishaps>>

\* The outbox row, unique by reference; then one attempt to send it.
CreateReceipt(y) ==
  /\ stage[y] = "receipt"
  /\ receipt' = [receipt EXCEPT ![cur[y].ref] = IF @ = NoReward THEN cur[y].reward ELSE @]
  /\ Goto(y, "pay")
  /\ UNCHANGED <<defaulted, reward, outside, todo, cur, met, mishaps>>

\* whistleblower_rewards_external_ref_unique.
RefTaken(a, r) == \E b \in Activations \ {a} : reward[b].ref = r

\* Mutant: the reference is not kept with the reward.
MarkPaidUnreferenced(y) ==
  /\ stage[y] = "pay"
  /\ reward' = [reward EXCEPT ![cur[y].reward].status = "paid"]
  /\ End(y)
  /\ UNCHANGED <<defaulted, receipt, outside, todo, cur, met, mishaps>>

\* markAsPaid by id, whatever the status has become, or an error.
MarkPaid(y) ==
  /\ stage[y] = "pay"
  /\ reward' = IF RefTaken(cur[y].reward, cur[y].ref) THEN reward
               ELSE [reward EXCEPT ![cur[y].reward] = [status |-> "paid", ref |-> cur[y].ref]]
  /\ End(y)
  /\ UNCHANGED <<defaulted, receipt, outside, todo, cur, met, mishaps>>

-----------------------------------------------------------------------------

\* A task dies, or a statement of it fails: what follows is not done.  The
\* reward of an activation that fails is opened by nobody.
Fails(t) ==
  /\ t \in UnderWay /\ mishaps < MaxMishaps
  /\ mishaps' = mishaps + 1
  /\ End(t)
  /\ todo' = [p \in Passes |-> IF p = t THEN {} ELSE todo[p]]
  /\ cur'  = [u \in DOMAIN cur |-> IF u = t /\ t \in Passes THEN Nothing ELSE cur[u]]
  /\ cut' = IF stage[t] = "pay" THEN cut \cup {t} ELSE cut
  /\ UNCHANGED <<tables, standing, old, met, moves>>

Release(p) ==
  \/ ListRewards(p) \/ Vet(p) \/ Verify(p) \/ Decide(p) \/ EndPass(p)
  \/ \E a \in Activations : Judge(p, a)

Next ==
  \/ \E d \in Deals : SetStatus(d)
  \/ \E a \in Activations : Activate(a) \/ LookForReward(a) \/ CreateReward(a) \/ HoldEnds(a)
  \/ \E s \in {"verified", "suspended"} : StandingChanges(s)
  \/ \E p \in Passes : Release(p)
  \/ \E y \in Payments : CheckSuspended(y) \/ CreateReceipt(y) \/ MarkPaid(y)
                         \/ \E a \in Activations, r \in Refs : ReadReward(y, a, r)
  \/ \E t \in Tasks : Fails(t)

Spec == Init /\ [][Next]_vars

=============================================================================
