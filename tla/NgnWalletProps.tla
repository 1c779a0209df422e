--------------------------- MODULE NgnWalletProps ---------------------------
(***************************************************************************)
(* What the wallet promises.                                               *)
(***************************************************************************)
EXTENDS NgnWallet

Inside == {"write", "settle", "freeze", "unfreeze", "leave", "abandon"}

PC == Inside \union
      {"idle", "mark", "markOnly", "markRecord", "solvent", "enter", "queued", "convert", "stake"}

\* The types of the variables.
TypeOK ==
  /\ ledger \in Ledger /\ posted \in [Refs -> [EntryType -> Nat]]
  /\ deposit \in [Deposits -> DepositStatus] /\ reversed \subseteq Refs
  /\ withdrawal \in [Withdrawals -> WithdrawalStatus] /\ staked \subseteq Refs
  /\ freeze \in FreezeReason \union {"none"} /\ adminHold \in BOOLEAN
  /\ queue \in Seq(Requests)
  /\ pc \in [Requests -> PC] /\ op \in [Requests -> Op] /\ ref \in [Requests -> Refs]
  /\ calls \in Nat /\ mishaps \in Nat

\* Only a reversal takes the available balance below zero: withdrawals and
\* reservations that race, for one another's money too, never spend more than
\* there is.
NeverOverdrawn == AvailableNgn(ledger) >= ledger["TOPUP_REVERSED"]

\* Events and retries that are repeated or out of order post their entry once:
\* a deposit is credited and reversed at most once, a stake reserved, debited
\* and released at most once, and no conversion is debited without a reserve.
PostedOnce ==
  /\ \A d \in Deposits : posted[d]["TOPUP_CONFIRMED"] <= 1 /\ posted[d]["TOPUP_REVERSED"] <= 1
  /\ \A s \in Stakes :
       /\ posted[s]["STAKE_RESERVE"] <= 1
       /\ posted[s]["CONVERSION_DEBIT"] <= posted[s]["STAKE_RESERVE"]
       /\ posted[s]["STAKE_RELEASE"] <= posted[s]["STAKE_RESERVE"]

\* The inductive invariant behind NeverOverdrawn.  The queue holds each request
\* that waits for the lock or holds it, once; all but the first wait, so what
\* its holder has found of the balance still holds when it writes.
QueueOK ==
  /\ \A i, j \in 1..Len(queue) : queue[i] = queue[j] => i = j
  /\ \A i \in 1..Len(queue) : pc[queue[i]] = "queued" \/ (i = 1 /\ pc[queue[i]] \in Inside)
  /\ \A r \in Requests : pc[r] \in Inside => Holds(r)

CheckStillHolds ==
  \A r \in Requests :
    pc[r] = "write" /\ op[r] \in {"withdraw", "reserve"} => AvailableNgn(ledger) >= Amount[ref[r]]

WalletInv ==
  /\ TypeOK
  /\ QueueOK /\ CheckStillHolds
  /\ NeverOverdrawn /\ ledger["TOPUP_REVERSED"] <= 0

\* A deposit that is confirmed is credited, whoever else wants the wallet:
\* nobody keeps the lock, through refusals, errors and early returns.  Only the
\* credit itself may be lost to an error.
ConfirmedIsCredited ==
  \A d \in Deposits :
    deposit[d] = "confirmed" ~>
      \/ posted[d]["TOPUP_CONFIRMED"] = 1
      \/ mishaps > 0 /\ \A r \in Requests : ~(pc[r] # "idle" /\ op[r] = "credit" /\ ref[r] = d)

\* What the reversal policy says of a manual or compliance freeze: it is lifted
\* by an admin.
AdminFreezeHolds == adminHold => freeze # "none"

=============================================================================
