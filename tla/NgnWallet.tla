----------------------------- MODULE NgnWallet ------------------------------
(***************************************************************************)
(* NgnWalletService: one user's wallet under the requests that move money  *)
(* in and out of it - payment webhooks, withdrawals and their approval,    *)
(* staking from NGN - and the freezing of the user.                        *)
(*                                                                         *)
(* Every await is a step.  An entry is written under the lock of the       *)
(* wallet, a queue of promises; most handlers read and write the state     *)
(* they decide on outside it.                                              *)
(***************************************************************************)
EXTENDS NgnLedger, Sequences

CONSTANTS
  Requests,      \* handlers that may run at once
  Deposits,      \* payments announced by webhooks
  Records,       \* confirmed deposit records, reversed by a route of their own,
                 \* whose entry refers to the reversal and not to the payment
  Withdrawals, Stakes,
  Amount,        \* in NGN, of each of them
  Opening,       \* what the wallet holds at first, available
  MaxCalls,      \* bound: requests
  MaxMishaps     \* bound: errors of the store

Refs == Deposits \union Records \union Withdrawals \union Stakes

ASSUME WalletAssumption ==
  /\ Amount \in [Refs -> Nat \ {0}]
  /\ Opening \in Nat /\ MaxCalls \in Nat /\ MaxMishaps \in Nat
  /\ Refs # {} /\ Deposits \cap Records = {}

VARIABLES
  ledger,      \* the sums of the entries by type
  posted,      \* how many entries of each type refer to what
  deposit, reversed, withdrawal, staked,   \* status of deposits; records
               \* reversed; status of withdrawals; STAKE rows in the outbox
  freeze,      \* the reason the user is frozen for
  adminHold,   \* history: an admin has frozen the user, and none unfrozen
  queue,       \* requests on the lock, its holder first
  pc, op, ref, \* of each request: where it is, what for, on what
  calls, mishaps

vars   == <<ledger, posted, deposit, reversed, withdrawal, staked, freeze, adminHold,
            queue, pc, op, ref, calls, mishaps>>
money  == <<ledger, posted>>
status == <<deposit, reversed, withdrawal, staked>>
risk   == <<freeze, adminHold>>
job    == <<op, ref, calls, mishaps>>

DepositStatus    == {"pending", "failed", "confirmed", "reversed"}
WithdrawalStatus == {"none", "pending", "approved", "confirmed", "rejected"}
AdminReason      == {"MANUAL", "COMPLIANCE"}
FreezeReason     == AdminReason \union {"NEGATIVE_BALANCE"}

\* What a request does under the lock is write one entry.
EntryOf ==
  [credit   |-> "TOPUP_CONFIRMED",    reverse       |-> "TOPUP_REVERSED",
   withdraw |-> "WITHDRAWAL_PENDING", reverseRecord |-> "TOPUP_REVERSED",
   confirm  |-> "WITHDRAWAL_CONFIRMED", reject      |-> "WITHDRAWAL_FAILED",
   reserve  |-> "STAKE_RESERVE",      release       |-> "STAKE_RELEASE",
   debit    |-> "CONVERSION_DEBIT"]

Op == DOMAIN EntryOf

Signed(o, x) == IF o \in {"credit", "reject", "release"} THEN Amount[x] ELSE -Amount[x]

Init ==
  /\ ledger = [NoEntries EXCEPT !["TOPUP_CONFIRMED"] = Opening]
  /\ posted = [x \in Refs |-> [type \in EntryType |-> 0]]
  /\ deposit = [d \in Deposits |-> "pending"]
  /\ reversed = {}
  /\ withdrawal = [w \in Withdrawals |-> "none"]
  /\ staked = {}
  /\ freeze = "none" /\ adminHold = FALSE
  /\ queue = <<>>
  /\ pc = [r \in Requests |-> "idle"]
  /\ op = [r \in Requests |-> "credit"]
  /\ ref = [r \in Requests |-> CHOOSE x \in Refs : TRUE]
  /\ calls = 0 /\ mishaps = 0

-----------------------------------------------------------------------------
(* Requests: what is read and written before the lock is asked for.        *)

Goto(r, l) == pc' = [pc EXCEPT ![r] = l]

\* The request visits the wallet once more.
Continue(r, o) ==
  op' = [op EXCEPT ![r] = o] /\ Goto(r, "enter") /\ UNCHANGED <<ref, calls, mishaps>>

Receive(r, o, x, l) ==
  /\ pc[r] = "idle" /\ calls < MaxCalls
  /\ calls' = calls + 1 /\ UNCHANGED mishaps
  /\ op' = [op EXCEPT ![r] = o]
  /\ ref' = [ref EXCEPT ![r] = x]
  /\ Goto(r, l)

Rank == [pending |-> 0, failed |-> 1, confirmed |-> 2, reversed |-> 3]

CanAdvance(from, to) == Rank[from] < Rank[to]

\* A webhook says the payment is confirmed; who advances the status credits it.
ConfirmDeposit(r, d) ==
  /\ CanAdvance(deposit[d], "confirmed")
  /\ deposit' = [deposit EXCEPT ![d] = "confirmed"]
  /\ Receive(r, "credit", d, "enter")
  /\ UNCHANGED <<money, reversed, withdrawal, staked, risk, queue>>

FailDeposit(d) ==
  /\ CanAdvance(deposit[d], "failed")
  /\ deposit' = [deposit EXCEPT ![d] = "failed"]
  /\ UNCHANGED <<money, reversed, withdrawal, staked, risk, queue, pc, job>>

\* A webhook says it is reversed: whether it had been credited is told by the
\* row read before the status is advanced.
ReverseDeposit(r, d) ==
  /\ Receive(r, "reverse", d, IF deposit[d] = "confirmed" THEN "mark" ELSE "markOnly")
  /\ UNCHANGED <<money, status, risk, queue>>

MarkReversed(r) ==
  /\ pc[r] \in {"mark", "markOnly"}
  /\ IF CanAdvance(deposit[ref[r]], "reversed")
     THEN /\ deposit' = [deposit EXCEPT ![ref[r]] = "reversed"]
          /\ Goto(r, IF pc[r] = "mark" THEN "enter" ELSE "idle")
     ELSE UNCHANGED deposit /\ Goto(r, "idle")
  /\ UNCHANGED <<money, reversed, withdrawal, staked, risk, queue, job>>

\* processDepositReversal: reversedAt is read, then written.
ReverseRecord(r, x) ==
  /\ x \notin reversed
  /\ Receive(r, "reverseRecord", x, "markRecord")
  /\ UNCHANGED <<money, status, risk, queue>>

MarkRecord(r) ==
  /\ pc[r] = "markRecord"
  /\ reversed' = reversed \union {ref[r]}
  /\ Goto(r, "enter")
  /\ UNCHANGED <<money, deposit, withdrawal, staked, risk, queue, job>>

\* requireNotFrozen reads the risk state, then the balance.
InitiateWithdrawal(r, w) ==
  /\ withdrawal[w] = "none"
  /\ \A q \in Requests : pc[q] # "idle" => ref[q] # w
  /\ freeze = "none"
  /\ Receive(r, "withdraw", w, "solvent")
  /\ UNCHANGED <<money, status, risk, queue>>

RequireSolvent(r) ==
  /\ pc[r] = "solvent"
  /\ Goto(r, IF TotalNgn(ledger) < 0 THEN "idle" ELSE "enter")
  /\ UNCHANGED <<money, status, risk, queue, job>>

\* Approving sets the status, so confirmWithdrawal never finds it confirmed.
ApproveWithdrawal(r, w) ==
  /\ withdrawal[w] # "none"
  /\ withdrawal' = [withdrawal EXCEPT ![w] = "approved"]
  /\ Receive(r, "confirm", w, "enter")
  /\ UNCHANGED <<money, deposit, reversed, staked, risk, queue>>

RejectWithdrawal(r, w) ==
  /\ withdrawal[w] \notin {"none", "rejected"}
  /\ Receive(r, "reject", w, "enter")
  /\ UNCHANGED <<money, status, risk, queue>>

StakeNgn(r, s) ==
  /\ Receive(r, "reserve", s, "enter")
  /\ UNCHANGED <<money, status, risk, queue>>

-----------------------------------------------------------------------------
(* Under the lock.                                                         *)

\* acquireLock chains a promise behind the last one.
AcquireLock(r) ==
  /\ pc[r] = "enter"
  /\ queue' = Append(queue, r)
  /\ Goto(r, "queued")
  /\ UNCHANGED <<money, status, risk, job>>

\* Mutant: nobody is waited for.
HoldsAtOnce(r) == \E i \in 1..Len(queue) : queue[i] = r

Holds(r) == queue # <<>> /\ Head(queue) = r

\* Mutant: a reservation that was released does not count.
AlreadyOpen(type, x) == posted[x][type] > posted[x]["STAKE_RELEASE"]

AlreadyPosted(type, x) == posted[x][type] > 0

\* Mutant: the balance looked at is the total one.
InsufficientInAll(x) == TotalNgn(ledger) < Amount[x]

Insufficient(x) == AvailableNgn(ledger) < Amount[x]

Refused(r) ==
  \/ op[r] \in {"credit", "reserve"} /\ AlreadyPosted(EntryOf[op[r]], ref[r])
  \/ op[r] \in {"withdraw", "reserve"} /\ Insufficient(ref[r])

Check(r) ==
  /\ pc[r] = "queued" /\ Holds(r)
  /\ Goto(r, IF Refused(r) THEN "abandon" ELSE "write")
  /\ UNCHANGED <<money, status, risk, queue, job>>

Post(r) ==
  /\ ledger' = CreateLedgerEntry(ledger, EntryOf[op[r]], Signed(op[r], ref[r]))
  /\ posted' = [posted EXCEPT ![ref[r]][EntryOf[op[r]]] = @ + 1]

Write(r) ==
  /\ pc[r] = "write"
  /\ Post(r)
  /\ Goto(r, "settle")
  /\ UNCHANGED <<status, risk, queue, job>>

\* The query, or one that follows it, fails.
WriteThrows(r) ==
  /\ pc[r] = "write" /\ mishaps < MaxMishaps
  /\ mishaps' = mishaps + 1
  /\ Post(r) \/ UNCHANGED money
  /\ Goto(r, "abandon")
  /\ UNCHANGED <<status, risk, queue, op, ref, calls>>

\* A credit may lift an automatic freeze, a reversal may cause one, as the balance is.
RiskChange(r) ==
  CASE op[r] = "credit" /\ TotalNgn(ledger) >= 0       -> "unfreeze"
    [] op[r] = "reverseRecord" /\ TotalNgn(ledger) < 0 -> "freeze"
    [] OTHER                                           -> "leave"

StatusAfter == [withdraw |-> "pending", confirm |-> "confirmed", reject |-> "rejected"]

Settle(r) ==
  /\ pc[r] = "settle"
  /\ withdrawal' = IF op[r] \in DOMAIN StatusAfter
                   THEN [withdrawal EXCEPT ![ref[r]] = StatusAfter[op[r]]] ELSE withdrawal
  /\ Goto(r, RiskChange(r))
  /\ UNCHANGED <<money, deposit, reversed, staked, risk, queue, job>>

\* The risk state is kept in memory, read and written in one go.
ChangeRisk(r) ==
  /\ \/ pc[r] = "freeze" /\ freeze' = "NEGATIVE_BALANCE"
     \/ pc[r] = "unfreeze" /\ freeze' = IF freeze = "NEGATIVE_BALANCE" THEN "none" ELSE freeze
  /\ Goto(r, "leave")
  /\ UNCHANGED <<money, status, adminHold, queue, job>>

\* Mutant: an early return does not release.
UnlockAfterWrite(r) == IF pc[r] = "leave" THEN Tail(queue) ELSE queue

Unlock(r) == Tail(queue)

\* What the route does once the service has returned or thrown.
Leave(r) ==
  /\ pc[r] \in {"leave", "abandon"}
  /\ queue' = Unlock(r)
  /\ IF pc[r] = "abandon" /\ op[r] = "debit"
     THEN Continue(r, "release")
     ELSE /\ Goto(r, CASE pc[r] = "leave" /\ op[r] = "reserve" -> "convert"
                       [] pc[r] = "leave" /\ op[r] = "debit"   -> "stake"
                       [] OTHER                                -> "idle")
          /\ UNCHANGED job
  /\ UNCHANGED <<money, status, risk>>

-----------------------------------------------------------------------------
(* stake-ngn, between its visits to the wallet.                            *)

\* The conversion succeeds, or the reserve is released.
Convert(r) ==
  /\ pc[r] = "convert"
  /\ Continue(r, "debit") \/ Continue(r, "release")
  /\ UNCHANGED <<money, status, risk, queue>>

\* The outbox row is created and sent; an error of the store before or after
\* is caught as one of the conversion.
SubmitStake(r) ==
  /\ pc[r] = "stake"
  /\ \/ staked' = staked \union {ref[r]} /\ Goto(r, "idle") /\ UNCHANGED job
     \/ staked' \in {staked, staked \union {ref[r]}} /\ Continue(r, "release")
  /\ UNCHANGED <<money, deposit, reversed, withdrawal, risk, queue>>

-----------------------------------------------------------------------------
(* The admin's hand.                                                       *)

AdminFreeze ==
  /\ freeze' \in FreezeReason
  /\ adminHold' = (freeze' \in AdminReason)
  /\ UNCHANGED <<money, status, queue, pc, job>>

AdminUnfreeze ==
  /\ freeze # "none" /\ freeze' = "none" /\ adminHold' = FALSE
  /\ UNCHANGED <<money, status, queue, pc, job>>

-----------------------------------------------------------------------------

Arrive(r) ==
  \/ \E d \in Deposits : ConfirmDeposit(r, d) \/ ReverseDeposit(r, d)
  \/ \E x \in Records : ReverseRecord(r, x)
  \/ \E w \in Withdrawals :
       InitiateWithdrawal(r, w) \/ ApproveWithdrawal(r, w) \/ RejectWithdrawal(r, w)
  \/ \E s \in Stakes : StakeNgn(r, s)

Proceed(r) ==
  \/ MarkReversed(r) \/ MarkRecord(r) \/ RequireSolvent(r)
  \/ AcquireLock(r) \/ Check(r) \/ Write(r) \/ Settle(r) \/ ChangeRisk(r) \/ Leave(r)
  \/ Convert(r) \/ SubmitStake(r)

Next ==
  \/ \E r \in Requests : Arrive(r) \/ Proceed(r) \/ WriteThrows(r)
  \/ \E d \in Deposits : FailDeposit(d)
  \/ AdminFreeze \/ AdminUnfreeze

\* A handler that has started runs to its end.
Fairness == \A r \in Requests : WF_vars(Proceed(r))

Spec     == Init /\ [][Next]_vars
FairSpec == Spec /\ Fairness

=============================================================================
