-------------------------- MODULE NgnWalletProofs ---------------------------
(***************************************************************************)
(* No interleaving overdraws the wallet.  The lock is what keeps a check   *)
(* of the balance true until the entry is written, so the invariant says   *)
(* of the queue that only its head is past the check (QueueOK), and of the *)
(* head that what it has found is still there (CheckStillHolds).           *)
(*                                                                         *)
(* No interleaving posts an entry twice.  The lock alone does not do it:   *)
(* a deposit is credited and reversed by whoever has advanced its status,  *)
(* a stake debited and released by the request that has reserved (OnceInv).*)
(***************************************************************************)
EXTENDS NgnWalletProps, TLAPS

\* The kinds of request, and the entry each of them writes.
LEMMA OpFacts ==
  /\ Op = {"credit", "reverse", "withdraw", "reverseRecord", "confirm", "reject",
           "reserve", "release", "debit"}
  /\ EntryOf["credit"] = "TOPUP_CONFIRMED" /\ EntryOf["reverse"] = "TOPUP_REVERSED"
  /\ EntryOf["withdraw"] = "WITHDRAWAL_PENDING"
  /\ EntryOf["reverseRecord"] = "TOPUP_REVERSED"
  /\ EntryOf["confirm"] = "WITHDRAWAL_CONFIRMED"
  /\ EntryOf["reject"] = "WITHDRAWAL_FAILED"
  /\ EntryOf["reserve"] = "STAKE_RESERVE" /\ EntryOf["release"] = "STAKE_RELEASE"
  /\ EntryOf["debit"] = "CONVERSION_DEBIT"
BY DEF Op, EntryOf

\* What a withdrawal is after each request on it.
LEMMA StatusFacts ==
  /\ DOMAIN StatusAfter = {"withdraw", "confirm", "reject"}
  /\ \A o \in DOMAIN StatusAfter : StatusAfter[o] \in WithdrawalStatus
BY DEF StatusAfter, WithdrawalStatus

-----------------------------------------------------------------------------
(* The ledger.                                                             *)

\* The ledger has no overdraft that is not a reversal's, and covers what the
\* holder of the lock is about to write.
BalanceOK ==
  /\ CheckStillHolds /\ NeverOverdrawn /\ ledger["TOPUP_REVERSED"] <= 0

LEMMA InvParts == WalletInv <=> TypeOK /\ QueueOK /\ BalanceOK
BY DEF WalletInv, BalanceOK

\* An entry changes the sum of its type and no other.
LEMMA EntryAdded ==
  ASSUME NEW l \in Ledger, NEW type \in EntryType, NEW n \in Int
  PROVE  /\ CreateLedgerEntry(l, type, n) \in Ledger
         /\ CreateLedgerEntry(l, type, n)[type] = l[type] + n
         /\ \A t \in EntryType \ {type} : CreateLedgerEntry(l, type, n)[t] = l[t]
BY DEF Ledger, CreateLedgerEntry

\* The available balance is a sum of integers.
LEMMA AvailableIsInt ==
  ASSUME NEW l \in Ledger
  PROVE  AvailableNgn(l) \in Int /\ \A t \in EntryType : l[t] \in Int
BY DEF Ledger, AvailableNgn, EntryType

\* The entry of a request that was not refused overdraws nothing.
LEMMA EntryCovered ==
  ASSUME WalletAssumption, NEW l \in Ledger, NEW o \in Op, NEW x \in Refs,
         AvailableNgn(l) >= l["TOPUP_REVERSED"], l["TOPUP_REVERSED"] <= 0,
         o \in {"withdraw", "reserve"} => AvailableNgn(l) >= Amount[x],
         NEW m, m = CreateLedgerEntry(l, EntryOf[o], Signed(o, x))
  PROVE  m \in Ledger /\ AvailableNgn(m) >= m["TOPUP_REVERSED"] /\ m["TOPUP_REVERSED"] <= 0
<1> DEFINE n == Signed(o, x)
<1>1. Amount[x] \in Nat /\ Amount[x] > 0
  BY DEF WalletAssumption
<1>2. n \in Int /\ (n = Amount[x] \/ n = -Amount[x])
  BY <1>1 DEF Signed
<1>3. EntryOf[o] \in EntryType
  BY OpFacts DEF EntryType
<1>4. /\ m \in Ledger /\ m[EntryOf[o]] = l[EntryOf[o]] + n
      /\ \A t \in EntryType \ {EntryOf[o]} : m[t] = l[t]
  <2> DEFINE k == CreateLedgerEntry(l, EntryOf[o], n)
  <2>1. m = k
    OBVIOUS
  <2>2. n \in Int
    BY <1>2
  <2>3. /\ k \in Ledger /\ k[EntryOf[o]] = l[EntryOf[o]] + n
        /\ \A t \in EntryType \ {EntryOf[o]} : k[t] = l[t]
    <3> HIDE DEF n
    <3>1. QED
      BY <1>3, <2>2, EntryAdded
  <2> HIDE DEF k
  <2>4. QED
    BY <2>1, <2>3
<1>5. \A t \in EntryType : l[t] \in Int
  BY AvailableIsInt
<1> HIDE DEF n
<1>6. CASE o \in {"credit", "reject", "release"}
  <2>1. n = Amount[x]
    BY <1>6 DEF n, Signed
  <2>2. QED
    BY <1>1, <1>4, <1>5, <1>6, <2>1, OpFacts DEF AvailableNgn, EntryType
<1>7. CASE o \in {"reverse", "reverseRecord", "withdraw", "reserve", "confirm", "debit"}
  <2>1. n = -Amount[x]
    BY <1>7 DEF n, Signed
  <2>2. QED
    BY <1>1, <1>4, <1>5, <1>7, <2>1, OpFacts DEF AvailableNgn, EntryType
<1>8. QED
  BY <1>6, <1>7, OpFacts

-----------------------------------------------------------------------------
(* The lock.                                                               *)

Past == Inside \union {"queued"}

\* A request that moves on before it asks for the lock, or past the check,
\* leaves the queue in order.
LEMMA MoveKeepsQueue ==
  ASSUME TypeOK, QueueOK, NEW r \in Requests, NEW l, Goto(r, l), UNCHANGED queue,
         \/ pc[r] \notin Past /\ l \notin Past
         \/ (pc[r] \in Inside \/ Holds(r)) /\ l \in Inside
  PROVE  QueueOK'
<1>1. pc' = [pc EXCEPT ![r] = l] /\ pc \in [Requests -> PC] /\ queue \in Seq(Requests)
  BY DEF Goto, TypeOK
<1>2. \A i \in 1..Len(queue) : queue[i] \in Requests /\ pc[queue[i]] \in Past
  BY <1>1 DEF QueueOK, Past
<1>3. CASE pc[r] \notin Past /\ l \notin Past
  BY <1>1, <1>2, <1>3 DEF QueueOK, Past, Inside, Holds
<1>4. CASE (pc[r] \in Inside \/ Holds(r)) /\ l \in Inside
  <2>1. Holds(r) /\ queue # <<>> /\ queue[1] = r
    BY <1>1, <1>4 DEF QueueOK, Holds
  <2>2. 1 \in 1..Len(queue)
    BY <1>1, <2>1
  <2>3. \A i \in 1..Len(queue) : i # 1 => queue[i] # r /\ pc'[queue[i]] = "queued"
    BY <1>1, <1>2, <2>1, <2>2 DEF QueueOK
  <2>4. pc'[r] = l /\ \A q \in Requests : q # r => pc'[q] = pc[q]
    BY <1>1
  <2>5. QED
    BY <1>1, <1>2, <1>4, <2>1, <2>2, <2>3, <2>4 DEF QueueOK, Holds
<1>5. QED
  BY <1>3, <1>4

\* Asking for the lock puts a request at the end of the queue.
LEMMA EnterKeepsQueue ==
  ASSUME TypeOK, QueueOK, NEW r \in Requests, AcquireLock(r)
  PROVE  QueueOK' /\ queue' \in Seq(Requests)
<1> DEFINE n == Len(queue)
<1>1. /\ pc' = [pc EXCEPT ![r] = "queued"] /\ pc \in [Requests -> PC] /\ pc[r] = "enter"
      /\ queue \in Seq(Requests) /\ queue' = Append(queue, r)
  BY DEF AcquireLock, Goto, TypeOK
<1>2. /\ n \in Nat /\ Len(queue') = n + 1 /\ queue'[n + 1] = r /\ queue' \in Seq(Requests)
      /\ \A i \in 1..n : queue'[i] = queue[i]
  BY <1>1
<1>3. \A i \in 1..n : queue[i] \in Requests /\ queue[i] # r
  BY <1>1 DEF QueueOK, Inside
<1>4. /\ pc'[r] = "queued"
      /\ \A q \in Requests : q # r => pc'[q] = pc[q]
  BY <1>1
<1> HIDE DEF n
<1>5. 1..Len(queue') = 1..n \union {n + 1}
  BY <1>2
<1>6. \A i, j \in 1..Len(queue') : queue'[i] = queue'[j] => i = j
  <2>1. \A i, j \in 1..n : queue[i] = queue[j] => i = j
    BY DEF QueueOK, n
  <2>2. QED
    BY <1>2, <1>3, <1>5, <2>1
<1>7. \A i \in 1..Len(queue') :
        pc'[queue'[i]] = "queued" \/ (i = 1 /\ pc'[queue'[i]] \in Inside)
  <2>1. \A i \in 1..n : pc[queue[i]] = "queued" \/ (i = 1 /\ pc[queue[i]] \in Inside)
    BY DEF QueueOK, n
  <2>2. QED
    BY <1>2, <1>3, <1>4, <1>5, <2>1
<1>8. \A q \in Requests : pc'[q] \in Inside => Holds(q)'
  <2>1. SUFFICES ASSUME NEW q \in Requests, pc'[q] \in Inside
                 PROVE  Holds(q)'
    OBVIOUS
  <2>2. q # r /\ pc[q] \in Inside
    BY <1>4, <2>1 DEF Inside
  <2>3. queue # <<>> /\ queue[1] = q
    BY <1>1, <2>2 DEF QueueOK, Holds
  <2>4. 1 \in 1..n
    BY <1>1, <2>3 DEF n
  <2>5. queue'[1] = q /\ queue' # <<>>
    BY <1>2, <2>3, <2>4
  <2>6. QED
    BY <1>2, <2>5 DEF Holds
<1>9. QED
  BY <1>2, <1>6, <1>7, <1>8 DEF QueueOK

\* Leaving passes the lock to the next request.
LEMMA LeaveKeepsQueue ==
  ASSUME TypeOK, QueueOK, NEW r \in Requests, NEW l, l \notin Past,
         pc[r] \in Inside, queue' = Tail(queue), Goto(r, l)
  PROVE  QueueOK' /\ queue' \in Seq(Requests)
<1> DEFINE n == Len(queue)
<1>1. /\ pc' = [pc EXCEPT ![r] = l] /\ pc \in [Requests -> PC]
      /\ queue \in Seq(Requests)
  BY DEF Goto, TypeOK
<1>2. queue # <<>> /\ queue[1] = r
  BY <1>1 DEF QueueOK, Holds
<1>3. /\ n \in Nat /\ n >= 1 /\ Len(queue') = n - 1 /\ queue' \in Seq(Requests)
      /\ \A i \in 1..(n - 1) : queue'[i] = queue[i + 1]
  BY <1>1, <1>2
<1>4. /\ pc'[r] = l
      /\ \A q \in Requests : q # r => pc'[q] = pc[q]
  BY <1>1
<1>5. \A i \in 1..n : queue[i] \in Requests
  BY <1>1
<1>6. \A i, j \in 1..n : queue[i] = queue[j] => i = j
  BY DEF QueueOK
<1>7. \A i \in 1..n : pc[queue[i]] = "queued" \/ i = 1
  BY DEF QueueOK
<1> HIDE DEF n
<1>8. \A i \in 1..(n - 1) : i + 1 \in 1..n /\ i + 1 # 1 /\ queue[i + 1] # r
  BY <1>2, <1>3, <1>6
<1>9. \A i, j \in 1..(n - 1) : queue'[i] = queue'[j] => i = j
  BY <1>3, <1>6, <1>8
<1>10. \A i \in 1..(n - 1) : pc'[queue'[i]] = "queued"
  BY <1>3, <1>4, <1>5, <1>7, <1>8
<1>11. \A q \in Requests : pc'[q] \notin Inside
  <2>1. \A q \in Requests : pc[q] \in Inside => q = r
    BY <1>1, <1>2 DEF QueueOK, Holds
  <2>2. QED
    BY <1>4, <2>1 DEF Past
<1>12. QED
  BY <1>3, <1>9, <1>10, <1>11 DEF QueueOK

-----------------------------------------------------------------------------
(* The actions.                                                            *)

\* A step that writes no entry and passes no check leaves the balance covered.
LEMMA BalanceKept ==
  ASSUME TypeOK, BalanceOK, ledger' = ledger, NEW r \in Requests, NEW l, l # "write", Goto(r, l),
         \A q \in Requests \ {r} : op'[q] = op[q] /\ ref'[q] = ref[q]
  PROVE  BalanceOK'
<1>1. pc' = [pc EXCEPT ![r] = l] /\ pc \in [Requests -> PC]
  BY DEF Goto, TypeOK
<1>2. pc'[r] # "write" /\ \A q \in Requests \ {r} : pc'[q] = pc[q]
  BY <1>1
<1>3. NeverOverdrawn' /\ ledger'["TOPUP_REVERSED"] <= 0
  BY DEF BalanceOK, NeverOverdrawn, AvailableNgn
<1>4. CheckStillHolds'
  <2>1. SUFFICES ASSUME NEW q \in Requests, pc'[q] = "write", op'[q] \in {"withdraw", "reserve"}
                 PROVE  AvailableNgn(ledger) >= Amount[ref'[q]]
    BY DEF CheckStillHolds, AvailableNgn
  <2>2. q # r
    BY <1>2, <2>1
  <2>3. QED
    BY <1>2, <2>1, <2>2 DEF BalanceOK, CheckStillHolds
<1>5. QED
  BY <1>3, <1>4 DEF BalanceOK

\* The types of what a request says of itself.
RequestTypes ==
  /\ pc \in [Requests -> PC] /\ op \in [Requests -> Op] /\ ref \in [Requests -> Refs]
  /\ calls \in Nat /\ mishaps \in Nat

LEMMA InitInv == ASSUME WalletAssumption, Init PROVE WalletInv
<1>1. (CHOOSE x \in Refs : TRUE) \in Refs
  BY DEF WalletAssumption
<1>2. ledger \in Ledger /\ AvailableNgn(ledger) >= 0 /\ ledger["TOPUP_REVERSED"] = 0
  BY DEF Init, WalletAssumption, NoEntries, Ledger, EntryType, AvailableNgn
<1>3. RequestTypes /\ queue \in Seq(Requests)
  BY <1>1, OpFacts DEF Init, RequestTypes, PC
<1>4. /\ posted \in [Refs -> [EntryType -> Nat]]
      /\ deposit \in [Deposits -> DepositStatus] /\ reversed \subseteq Refs
      /\ withdrawal \in [Withdrawals -> WithdrawalStatus] /\ staked \subseteq Refs
      /\ freeze \in FreezeReason \union {"none"} /\ adminHold \in BOOLEAN
  BY DEF Init, DepositStatus, WithdrawalStatus
<1>5. TypeOK
  BY <1>2, <1>3, <1>4 DEF TypeOK, RequestTypes
<1>6. QueueOK
  BY DEF Init, QueueOK, Inside, Holds
<1>7. BalanceOK
  BY <1>2 DEF Init, BalanceOK, NeverOverdrawn, CheckStillHolds
<1>8. QED
  BY <1>5, <1>6, <1>7, InvParts

\* What every arrival does to the request.
LEMMA ReceiveKeeps ==
  ASSUME WalletInv, NEW r \in Requests, NEW o \in Op, NEW x \in Refs,
         NEW l \in {"enter", "mark", "markOnly", "markRecord", "solvent"},
         Receive(r, o, x, l), UNCHANGED <<ledger, queue>>
  PROVE  QueueOK' /\ BalanceOK' /\ RequestTypes'
<1>1. TypeOK /\ QueueOK /\ BalanceOK /\ Goto(r, l) /\ pc[r] = "idle"
  BY InvParts DEF Receive
<1>2. l \in PC /\ l \notin Past /\ l # "write" /\ pc[r] \notin Past
  BY <1>1 DEF PC, Past, Inside
<1>3. QueueOK'
  BY <1>1, <1>2, MoveKeepsQueue
<1>4. BalanceOK'
  <2>1. \A q \in Requests \ {r} : op'[q] = op[q] /\ ref'[q] = ref[q]
    BY <1>1 DEF Receive, TypeOK
  <2>2. QED
    BY <1>1, <1>2, <2>1, BalanceKept
<1>5. RequestTypes'
  BY <1>1, <1>2 DEF TypeOK, RequestTypes, Receive, Goto
<1>6. QED
  BY <1>3, <1>4, <1>5

LEMMA ArriveInv ==
  ASSUME WalletInv, NEW r \in Requests, Arrive(r)
  PROVE  WalletInv'
<1>1. TypeOK
  BY InvParts
<1>2. CASE \E d \in Deposits : ConfirmDeposit(r, d)
  <2>1. PICK d \in Deposits : ConfirmDeposit(r, d)
    BY <1>2
  <2>2. QueueOK' /\ BalanceOK' /\ RequestTypes'
    BY <2>1, ReceiveKeeps, OpFacts DEF ConfirmDeposit, Refs, money
  <2>3. TypeOK'
    BY <1>1, <2>1, <2>2 DEF TypeOK, RequestTypes, ConfirmDeposit, DepositStatus, money, risk
  <2>4. QED
    BY <2>2, <2>3 DEF WalletInv, BalanceOK
<1>3. CASE \E d \in Deposits : ReverseDeposit(r, d)
  <2>1. PICK d \in Deposits : ReverseDeposit(r, d)
    BY <1>3
  <2>2. QueueOK' /\ BalanceOK' /\ RequestTypes'
    BY <2>1, ReceiveKeeps, OpFacts DEF ReverseDeposit, Refs, money
  <2>3. TypeOK'
    BY <1>1, <2>1, <2>2 DEF TypeOK, RequestTypes, ReverseDeposit, money, risk, status
  <2>4. QED
    BY <2>2, <2>3 DEF WalletInv, BalanceOK
<1>4. CASE \E x \in Records : ReverseRecord(r, x)
  <2>1. PICK x \in Records : ReverseRecord(r, x)
    BY <1>4
  <2>2. QueueOK' /\ BalanceOK' /\ RequestTypes'
    BY <2>1, ReceiveKeeps, OpFacts DEF ReverseRecord, Refs, money
  <2>3. TypeOK'
    BY <1>1, <2>1, <2>2 DEF TypeOK, RequestTypes, ReverseRecord, money, risk, status
  <2>4. QED
    BY <2>2, <2>3 DEF WalletInv, BalanceOK
<1>5. CASE \E w \in Withdrawals : InitiateWithdrawal(r, w)
  <2>1. PICK w \in Withdrawals : InitiateWithdrawal(r, w)
    BY <1>5
  <2>2. QueueOK' /\ BalanceOK' /\ RequestTypes'
    BY <2>1, ReceiveKeeps, OpFacts DEF InitiateWithdrawal, Refs, money
  <2>3. TypeOK'
    BY <1>1, <2>1, <2>2 DEF TypeOK, RequestTypes, InitiateWithdrawal, money, risk, status
  <2>4. QED
    BY <2>2, <2>3 DEF WalletInv, BalanceOK
<1>6. CASE \E w \in Withdrawals : ApproveWithdrawal(r, w)
  <2>1. PICK w \in Withdrawals : ApproveWithdrawal(r, w)
    BY <1>6
  <2>2. QueueOK' /\ BalanceOK' /\ RequestTypes'
    BY <2>1, ReceiveKeeps, OpFacts DEF ApproveWithdrawal, Refs, money
  <2>3. TypeOK'
    BY <1>1, <2>1, <2>2
    DEF TypeOK, RequestTypes, ApproveWithdrawal, WithdrawalStatus, money, risk
  <2>4. QED
    BY <2>2, <2>3 DEF WalletInv, BalanceOK
<1>7. CASE \E w \in Withdrawals : RejectWithdrawal(r, w)
  <2>1. PICK w \in Withdrawals : RejectWithdrawal(r, w)
    BY <1>7
  <2>2. QueueOK' /\ BalanceOK' /\ RequestTypes'
    BY <2>1, ReceiveKeeps, OpFacts DEF RejectWithdrawal, Refs, money
  <2>3. TypeOK'
    BY <1>1, <2>1, <2>2 DEF TypeOK, RequestTypes, RejectWithdrawal, money, risk, status
  <2>4. QED
    BY <2>2, <2>3 DEF WalletInv, BalanceOK
<1>8. CASE \E s \in Stakes : StakeNgn(r, s)
  <2>1. PICK s \in Stakes : StakeNgn(r, s)
    BY <1>8
  <2>2. QueueOK' /\ BalanceOK' /\ RequestTypes'
    BY <2>1, ReceiveKeeps, OpFacts DEF StakeNgn, Refs, money
  <2>3. TypeOK'
    BY <1>1, <2>1, <2>2 DEF TypeOK, RequestTypes, StakeNgn, money, risk, status
  <2>4. QED
    BY <2>2, <2>3 DEF WalletInv, BalanceOK
<1>9. QED
  BY <1>2, <1>3, <1>4, <1>5, <1>6, <1>7, <1>8 DEF Arrive

\* Before the lock and after it, a request moves without the wallet.
LEMMA OutsideInv ==
  ASSUME WalletInv, NEW r \in Requests,
         MarkReversed(r) \/ MarkRecord(r) \/ RequireSolvent(r) \/ Convert(r) \/ SubmitStake(r)
  PROVE  WalletInv'
<1>1. TypeOK /\ QueueOK /\ BalanceOK
  BY InvParts
<1>2. \E l \in {"enter", "idle"} : Goto(r, l)
  BY DEF MarkReversed, MarkRecord, RequireSolvent, Convert, SubmitStake, Continue
<1>3. PICK l \in {"enter", "idle"} : Goto(r, l)
  BY <1>2
<1>4. /\ UNCHANGED <<ledger, posted, queue>> /\ pc[r] \notin Past
      /\ l \in PC /\ l \notin Past /\ l # "write"
  BY DEF MarkReversed, MarkRecord, RequireSolvent, Convert, SubmitStake, Past, Inside, PC, money
<1>5. \A q \in Requests \ {r} : op'[q] = op[q] /\ ref'[q] = ref[q]
  BY <1>1 DEF MarkReversed, MarkRecord, RequireSolvent, Convert, SubmitStake, Continue, TypeOK, job
<1>6. QueueOK' /\ BalanceOK'
  BY <1>1, <1>3, <1>4, <1>5, MoveKeepsQueue, BalanceKept
<1>7. RequestTypes'
  <2>1. pc' \in [Requests -> PC]
    BY <1>1, <1>3, <1>4 DEF TypeOK, Goto
  <2>2. op' \in [Requests -> Op] /\ UNCHANGED <<ref, calls, mishaps>>
    BY <1>1, OpFacts
    DEF MarkReversed, MarkRecord, RequireSolvent, Convert, SubmitStake, Continue, TypeOK, job
  <2>3. QED
    BY <1>1, <2>1, <2>2 DEF TypeOK, RequestTypes
<1>8. /\ deposit' \in [Deposits -> DepositStatus] /\ reversed' \subseteq Refs
      /\ withdrawal' \in [Withdrawals -> WithdrawalStatus] /\ staked' \subseteq Refs
      /\ freeze' \in FreezeReason \union {"none"} /\ adminHold' \in BOOLEAN
  <2>1. CASE MarkReversed(r)
    BY <1>1, <2>1 DEF MarkReversed, TypeOK, DepositStatus, risk
  <2>2. CASE MarkRecord(r)
    BY <1>1, <2>2 DEF MarkRecord, TypeOK, risk
  <2>3. CASE RequireSolvent(r) \/ Convert(r)
    BY <1>1, <2>3 DEF RequireSolvent, Convert, TypeOK, risk, status
  <2>4. CASE SubmitStake(r)
    BY <1>1, <2>4 DEF SubmitStake, TypeOK, risk
  <2>5. QED
    BY <2>1, <2>2, <2>3, <2>4
<1>9. TypeOK'
  BY <1>1, <1>4, <1>7, <1>8 DEF TypeOK, RequestTypes
<1>10. QED
  BY <1>6, <1>9 DEF WalletInv, BalanceOK

\* Under the lock.
LEMMA EnterInv ==
  ASSUME WalletInv, NEW r \in Requests, AcquireLock(r)
  PROVE  WalletInv'
<1>1. TypeOK /\ QueueOK /\ BalanceOK
  BY InvParts
<1>2. QueueOK' /\ queue' \in Seq(Requests)
  BY <1>1, EnterKeepsQueue
<1>3. /\ Goto(r, "queued") /\ UNCHANGED <<money, status, risk, job>>
  BY DEF AcquireLock
<1>4. BalanceOK'
  BY <1>1, <1>3, BalanceKept DEF money, job
<1>5. TypeOK'
  BY <1>1, <1>2, <1>3 DEF TypeOK, Goto, PC, money, status, risk, job
<1>6. QED
  BY <1>2, <1>4, <1>5 DEF WalletInv, BalanceOK

\* The check lets a request write only what the balance covers.
LEMMA CheckInv ==
  ASSUME WalletInv, NEW r \in Requests, Check(r)
  PROVE  WalletInv'
<1>1. TypeOK /\ QueueOK /\ BalanceOK
  BY InvParts
<1>2. PICK l \in {"abandon", "write"} : Goto(r, l) /\ (l = "write" => ~Refused(r))
  BY DEF Check
<1>3. UNCHANGED <<money, status, risk, queue, job>> /\ Holds(r) /\ pc[r] = "queued"
  BY DEF Check
<1>4. l \in Inside /\ l \in PC
  BY DEF Inside, PC
<1>5. QueueOK'
  BY <1>1, <1>2, <1>3, <1>4, MoveKeepsQueue
<1>6. BalanceOK'
  <2>1. CASE l = "abandon"
    BY <1>1, <1>2, <1>3, <2>1, BalanceKept DEF money, job
  <2>2. CASE l = "write"
    <3>1. op[r] \in {"withdraw", "reserve"} => AvailableNgn(ledger) >= Amount[ref[r]]
      <4>1. Amount[ref[r]] \in Nat /\ AvailableNgn(ledger) \in Int
        BY <1>1, WalletAssumption, AvailableIsInt DEF TypeOK, WalletAssumption
      <4>2. QED
        BY <1>2, <2>2, <4>1 DEF Refused, Insufficient
    <3>2. \A q \in Requests : pc'[q] = "write" => q = r \/ pc[q] = "write"
      BY <1>1, <1>2 DEF Goto, TypeOK
    <3>3. UNCHANGED <<ledger, op, ref>>
      BY <1>3 DEF money, job
    <3>4. CheckStillHolds'
      BY <1>1, <3>1, <3>2, <3>3 DEF CheckStillHolds, BalanceOK, AvailableNgn
    <3>5. QED
      BY <1>1, <3>3, <3>4 DEF BalanceOK, NeverOverdrawn, AvailableNgn
  <2>3. QED
    BY <1>2, <2>1, <2>2
<1>7. TypeOK'
  BY <1>1, <1>2, <1>3, <1>4 DEF TypeOK, Goto, money, status, risk, job
<1>8. QED
  BY <1>5, <1>6, <1>7 DEF WalletInv, BalanceOK

\* Whoever posts an entry is alone past the check.
LEMMA PostKeepsBalance ==
  ASSUME TypeOK, QueueOK, BalanceOK, NEW r \in Requests, pc[r] = "write",
         NEW l, l # "write", Goto(r, l), UNCHANGED <<op, ref>>, Post(r)
  PROVE  BalanceOK' /\ ledger' \in Ledger /\ posted' \in [Refs -> [EntryType -> Nat]]
<1>1. /\ ledger \in Ledger /\ op[r] \in Op /\ ref[r] \in Refs
      /\ posted \in [Refs -> [EntryType -> Nat]]
  BY DEF TypeOK
<1>2. \A q \in Requests : pc[q] = "write" => q = r
  BY DEF QueueOK, Inside, Holds
<1>3. \A q \in Requests : pc'[q] # "write"
  BY <1>2 DEF Goto, TypeOK
<1>4. /\ ledger' \in Ledger /\ AvailableNgn(ledger') >= ledger'["TOPUP_REVERSED"]
      /\ ledger'["TOPUP_REVERSED"] <= 0
  <2>1. op[r] \in {"withdraw", "reserve"} => AvailableNgn(ledger) >= Amount[ref[r]]
    BY DEF BalanceOK, CheckStillHolds
  <2>2. AvailableNgn(ledger) >= ledger["TOPUP_REVERSED"] /\ ledger["TOPUP_REVERSED"] <= 0
    BY DEF BalanceOK, NeverOverdrawn
  <2>3. ledger' = CreateLedgerEntry(ledger, EntryOf[op[r]], Signed(op[r], ref[r]))
    BY DEF Post
  <2>4. QED
    BY <1>1, <2>1, <2>2, <2>3, WalletAssumption, EntryCovered
<1>5. NeverOverdrawn' /\ CheckStillHolds'
  BY <1>3, <1>4 DEF NeverOverdrawn, CheckStillHolds, AvailableNgn
<1>6. posted' \in [Refs -> [EntryType -> Nat]]
  <2>1. EntryOf[op[r]] \in EntryType
    BY <1>1, OpFacts DEF EntryType
  <2>2. QED
    BY <1>1, <2>1 DEF Post
<1>7. QED
  BY <1>4, <1>5, <1>6 DEF BalanceOK

LEMMA WriteInv ==
  ASSUME WalletInv, NEW r \in Requests, Write(r) \/ WriteThrows(r)
  PROVE  WalletInv'
<1>1. TypeOK /\ QueueOK /\ BalanceOK
  BY InvParts
<1>2. PICK l \in {"settle", "abandon"} : Goto(r, l)
  BY DEF Write, WriteThrows
<1>3. /\ pc[r] = "write" /\ UNCHANGED <<status, risk, queue, op, ref, calls>>
      /\ mishaps' \in Nat /\ (Post(r) \/ UNCHANGED money)
  BY <1>1 DEF Write, WriteThrows, job, TypeOK
<1>4. l \in Inside /\ l \in PC /\ l # "write" /\ pc[r] \in Inside
  BY <1>3 DEF Inside, PC
<1>5. QueueOK'
  BY <1>1, <1>2, <1>3, <1>4, MoveKeepsQueue
<1>6. BalanceOK' /\ ledger' \in Ledger /\ posted' \in [Refs -> [EntryType -> Nat]]
  <2>1. CASE Post(r)
    BY <1>1, <1>2, <1>3, <1>4, <2>1, PostKeepsBalance
  <2>2. CASE UNCHANGED money
    BY <1>1, <1>2, <1>3, <1>4, <2>2, BalanceKept DEF TypeOK, money
  <2>3. QED
    BY <1>3, <2>1, <2>2
<1>7. TypeOK'
  BY <1>1, <1>2, <1>3, <1>4, <1>6 DEF TypeOK, Goto, status, risk
<1>8. QED
  BY <1>5, <1>6, <1>7 DEF WalletInv, BalanceOK

LEMMA SettleInv ==
  ASSUME WalletInv, NEW r \in Requests, Settle(r) \/ ChangeRisk(r)
  PROVE  WalletInv'
<1>1. TypeOK /\ QueueOK /\ BalanceOK
  BY InvParts
<1>2. \E l \in {"unfreeze", "freeze", "leave"} : Goto(r, l)
  BY DEF Settle, ChangeRisk, RiskChange
<1>3. PICK l \in {"unfreeze", "freeze", "leave"} : Goto(r, l)
  BY <1>2
<1>4. /\ pc[r] \in Inside /\ l \in Inside /\ l \in PC /\ l # "write"
      /\ UNCHANGED <<money, deposit, reversed, staked, adminHold, queue, job>>
  BY DEF Settle, ChangeRisk, Inside, PC, status, risk
<1>5. QueueOK'
  BY <1>1, <1>3, <1>4, MoveKeepsQueue
<1>6. BalanceOK'
  BY <1>1, <1>3, <1>4, BalanceKept DEF money, job
<1>7. withdrawal' \in [Withdrawals -> WithdrawalStatus]
  <2>1. CASE Settle(r)
    BY <1>1, <2>1, StatusFacts DEF Settle, TypeOK
  <2>2. CASE ChangeRisk(r)
    BY <1>1, <2>2 DEF ChangeRisk, TypeOK, status
  <2>3. QED
    BY <2>1, <2>2
<1>8. freeze' \in FreezeReason \union {"none"}
  BY <1>1 DEF Settle, ChangeRisk, TypeOK, risk, FreezeReason
<1>9. TypeOK'
  BY <1>1, <1>3, <1>4, <1>7, <1>8 DEF TypeOK, Goto, money, job
<1>10. QED
  BY <1>5, <1>6, <1>9 DEF WalletInv, BalanceOK

LEMMA LeaveInv ==
  ASSUME WalletInv, NEW r \in Requests, Leave(r)
  PROVE  WalletInv'
<1>1. TypeOK /\ QueueOK /\ BalanceOK
  BY InvParts
<1>2. PICK l \in {"enter", "convert", "stake", "idle"} : Goto(r, l)
  BY DEF Leave, Continue
<1>3. /\ l \notin Past /\ l \in PC /\ l # "write" /\ pc[r] \in Inside
      /\ queue' = Tail(queue) /\ UNCHANGED <<money, status, risk, ref, calls, mishaps>>
  BY DEF Leave, Continue, Unlock, Past, Inside, PC, job
<1>4. op' \in [Requests -> Op] /\ \A q \in Requests \ {r} : op'[q] = op[q]
  BY <1>1, OpFacts DEF Leave, Continue, TypeOK, job
<1>5. QueueOK' /\ queue' \in Seq(Requests)
  BY <1>1, <1>2, <1>3, LeaveKeepsQueue
<1>6. BalanceOK'
  BY <1>1, <1>2, <1>3, <1>4, BalanceKept DEF money
<1>7. TypeOK'
  BY <1>1, <1>2, <1>3, <1>4, <1>5 DEF TypeOK, Goto, money, status, risk
<1>8. QED
  BY <1>5, <1>6, <1>7 DEF WalletInv, BalanceOK

\* Failed payments and the admin touch neither the wallet nor its lock.
LEMMA AsideInv ==
  ASSUME WalletInv, (\E d \in Deposits : FailDeposit(d)) \/ AdminFreeze \/ AdminUnfreeze
  PROVE  WalletInv'
<1>1. UNCHANGED <<money, queue, pc, job, reversed, withdrawal, staked>>
  BY DEF FailDeposit, AdminFreeze, AdminUnfreeze, status
<1>2. /\ deposit' \in [Deposits -> DepositStatus] /\ adminHold' \in BOOLEAN
      /\ freeze' \in FreezeReason \union {"none"}
  <2>1. /\ deposit \in [Deposits -> DepositStatus] /\ adminHold \in BOOLEAN
        /\ freeze \in FreezeReason \union {"none"}
    BY DEF WalletInv, TypeOK
  <2>2. CASE \E d \in Deposits : FailDeposit(d)
    BY <2>1, <2>2 DEF FailDeposit, risk, DepositStatus
  <2>3. CASE AdminFreeze
    <3>1. adminHold' \in BOOLEAN
      <4>1. (freeze' \in AdminReason) \in BOOLEAN
        OBVIOUS
      <4>2. adminHold' = (freeze' \in AdminReason)
        BY <2>3, Zenon DEF AdminFreeze
      <4>3. QED
        BY <4>1, <4>2, Zenon
    <3>2. QED
      BY <2>1, <2>3, <3>1 DEF AdminFreeze, status
  <2>4. CASE AdminUnfreeze
    BY <2>1, <2>4 DEF AdminUnfreeze, status
  <2>5. QED
    BY <2>2, <2>3, <2>4
<1>3. TypeOK'
  BY <1>1, <1>2 DEF WalletInv, TypeOK, money, job
<1>4. QueueOK' /\ BalanceOK'
  BY <1>1, InvParts DEF QueueOK, Holds, BalanceOK, CheckStillHolds, NeverOverdrawn, AvailableNgn,
                        money, job
<1>5. QED
  BY <1>3, <1>4 DEF WalletInv, BalanceOK

-----------------------------------------------------------------------------

\* The lock is held by the head of the queue alone, and what its holder has
\* found of the balance is still there when it writes.
THEOREM WalletInvariant == Spec => []WalletInv
<1>1. Init => WalletInv
  BY InitInv, WalletAssumption
<1>2. WalletInv /\ [Next]_vars => WalletInv'
  <2>1. SUFFICES ASSUME WalletInv, [Next]_vars PROVE WalletInv'
    OBVIOUS
  <2>2. CASE \E r \in Requests : Arrive(r)
    BY <2>1, <2>2, ArriveInv
  <2>3. CASE \E r \in Requests : Proceed(r) \/ WriteThrows(r)
    BY <2>1, <2>3, OutsideInv, EnterInv, CheckInv, WriteInv, SettleInv, LeaveInv DEF Proceed
  <2>4. CASE (\E d \in Deposits : FailDeposit(d)) \/ AdminFreeze \/ AdminUnfreeze
    BY <2>1, <2>4, AsideInv
  <2>5. CASE UNCHANGED vars
    BY <2>1, <2>5
    DEF vars, WalletInv, TypeOK, QueueOK, Holds, CheckStillHolds, NeverOverdrawn, AvailableNgn
  <2>6. QED
    BY <2>1, <2>2, <2>3, <2>4, <2>5 DEF Next
<1>3. QED
  BY <1>1, <1>2, PTL DEF Spec

\* Withdrawals and reservations never spend more than there is: the available
\* balance is below zero by no more than what was reversed.
THEOREM NoOverdraft == Spec => []NeverOverdrawn
<1>1. WalletInv => NeverOverdrawn
  BY DEF WalletInv
<1>2. QED
  BY <1>1, WalletInvariant, PTL

-----------------------------------------------------------------------------
(* Entries are posted once.                                                *)

ToWrite(r, o, x) == pc[r] \in {"enter", "queued", "write"} /\ op[r] = o /\ ref[r] = x

\* What a request does where it is.
Place(r) ==
  /\ pc[r] \in {"mark", "markOnly"} => op[r] = "reverse" /\ ref[r] \in Deposits
  /\ pc[r] = "markRecord" => op[r] = "reverseRecord"
  /\ pc[r] = "solvent" => op[r] = "withdraw"
  /\ pc[r] \in {"freeze", "unfreeze"} => op[r] \in {"credit", "reverseRecord"}
  /\ pc[r] = "convert" => op[r] = "reserve"
  /\ pc[r] = "stake" => op[r] = "debit"
  /\ (pc[r] # "idle" /\ op[r] = "reverseRecord") => ref[r] \in Records

\* The status of the deposit still lets somebody ask for the entry.
Open(o, d) ==
  IF o = "credit" THEN deposit[d] \in {"pending", "failed"} ELSE deposit[d] # "reversed"

\* While the status is open nobody has the entry to write; then one request at
\* most, which has not written it.
OneEntry(o, d) ==
  /\ posted[d][EntryOf[o]] <= 1
  /\ Open(o, d) => posted[d][EntryOf[o]] = 0 /\ \A r \in Requests : ~ToWrite(r, o, d)
  /\ \A r \in Requests : ToWrite(r, o, d) => posted[d][EntryOf[o]] = 0
  /\ \A r, q \in Requests : ToWrite(r, o, d) /\ ToWrite(q, o, d) => q = r

\* The request has reserved for the stake and is the one to debit or release it.
Owns(r, s) ==
  /\ ref[r] = s
  /\ \/ op[r] = "reserve" /\ pc[r] \in {"settle", "leave", "convert"}
     \/ op[r] \in {"debit", "release"} /\ pc[r] # "idle"

\* What a request may rely on of the stake's entries.
Relies(r, s) ==
  /\ (pc[r] = "write" /\ op[r] = "reserve" /\ ref[r] = s) => posted[s]["STAKE_RESERVE"] = 0
  /\ Owns(r, s) =>
       /\ posted[s]["STAKE_RESERVE"] = 1
       /\ (op[r] = "reserve" \/ ToWrite(r, "debit", s)) => posted[s]["CONVERSION_DEBIT"] = 0
       /\ (op[r] # "release" \/ ToWrite(r, "release", s)) => posted[s]["STAKE_RELEASE"] = 0

StakeEntries(s) ==
  /\ posted[s]["STAKE_RESERVE"] <= 1
  /\ posted[s]["CONVERSION_DEBIT"] <= posted[s]["STAKE_RESERVE"]
  /\ posted[s]["STAKE_RELEASE"] <= posted[s]["STAKE_RESERVE"]

OneStake(s) ==
  /\ StakeEntries(s)
  /\ \A r \in Requests : Relies(r, s)
  /\ \A r, q \in Requests : Owns(r, s) /\ Owns(q, s) => q = r

OnceInv ==
  /\ \A r \in Requests : Place(r)
  /\ \A d \in Deposits : OneEntry("credit", d) /\ OneEntry("reverse", d)
  /\ \A s \in Stakes : OneStake(s)

-----------------------------------------------------------------------------

\* The other requests stay where they are.
OthersStay(r) ==
  \A q \in Requests \ {r} : pc'[q] = pc[q] /\ op'[q] = op[q] /\ ref'[q] = ref[q]

\* A step of a request moves no other request.
LEMMA OneMoves ==
  ASSUME TypeOK, NEW r \in Requests, Arrive(r) \/ Proceed(r) \/ WriteThrows(r)
  PROVE  OthersStay(r)
<1>1. /\ pc \in [Requests -> PC] /\ op \in [Requests -> Op] /\ ref \in [Requests -> Refs]
  BY DEF TypeOK
<1>2. CASE Arrive(r)
  BY <1>1, <1>2
  DEF Arrive, ConfirmDeposit, ReverseDeposit, ReverseRecord, InitiateWithdrawal,
      ApproveWithdrawal, RejectWithdrawal, StakeNgn, Receive, Goto, OthersStay
<1>3. CASE MarkReversed(r) \/ MarkRecord(r) \/ RequireSolvent(r) \/ AcquireLock(r)
  BY <1>1, <1>3 DEF MarkReversed, MarkRecord, RequireSolvent, AcquireLock, Goto, job, OthersStay
<1>4. CASE Check(r) \/ Write(r) \/ WriteThrows(r)
  BY <1>1, <1>4 DEF Check, Write, WriteThrows, Goto, job, OthersStay
<1>5. CASE Settle(r) \/ ChangeRisk(r)
  BY <1>1, <1>5 DEF Settle, ChangeRisk, Goto, job, OthersStay
<1>6. CASE Leave(r) \/ Convert(r) \/ SubmitStake(r)
  BY <1>1, <1>6 DEF Leave, Convert, SubmitStake, Continue, Goto, job, OthersStay
<1>7. QED
  BY <1>2, <1>3, <1>4, <1>5, <1>6 DEF Proceed

\* An entry stays single when nobody new gets it to write and its status does
\* not open again.
LEMMA EntryKept ==
  ASSUME NEW o \in {"credit", "reverse"}, NEW d \in Deposits, OneEntry(o, d),
         Open(o, d)' => Open(o, d), posted'[d][EntryOf[o]] = posted[d][EntryOf[o]],
         \A q \in Requests : ToWrite(q, o, d)' => ToWrite(q, o, d)
  PROVE  OneEntry(o, d)'
BY DEF OneEntry

\* Who closes the status is the only one to have the entry to write.
LEMMA EntryPlanned ==
  ASSUME NEW o \in {"credit", "reverse"}, NEW d \in Deposits, OneEntry(o, d),
         Open(o, d), ~Open(o, d)', posted'[d][EntryOf[o]] = posted[d][EntryOf[o]],
         NEW r \in Requests, \A q \in Requests : ToWrite(q, o, d)' => q = r \/ ToWrite(q, o, d)
  PROVE  OneEntry(o, d)'
BY DEF OneEntry

\* Who has written it leaves nobody to write it.
LEMMA EntryWritten ==
  ASSUME NEW o \in {"credit", "reverse"}, NEW d \in Deposits, OneEntry(o, d),
         NEW r \in Requests, ToWrite(r, o, d), ~ToWrite(r, o, d)',
         Open(o, d)' => Open(o, d), posted'[d][EntryOf[o]] = posted[d][EntryOf[o]] + 1,
         \A q \in Requests : ToWrite(q, o, d)' => ToWrite(q, o, d)
  PROVE  OneEntry(o, d)'
<1>1. posted[d][EntryOf[o]] = 0 /\ ~Open(o, d)
  BY DEF OneEntry
<1>2. \A q \in Requests : ~ToWrite(q, o, d)'
  BY DEF OneEntry
<1>3. posted'[d][EntryOf[o]] = 1
  BY <1>1
<1>4. QED
  BY <1>1, <1>2, <1>3 DEF OneEntry

\* A step that posts nothing leaves the stakes in order when the request gets
\* no stake it did not own.
LEMMA StakesKept ==
  ASSUME OnceInv, NEW r \in Requests, OthersStay(r), UNCHANGED posted,
         NEW s \in Stakes, Owns(r, s)' => Owns(r, s), Relies(r, s)'
  PROVE  OneStake(s)'
<1>1. OneStake(s)
  BY DEF OnceInv
<1>2. \A q \in Requests \ {r} : Owns(q, s)' <=> Owns(q, s)
  BY DEF OthersStay, Owns
<1>3. \A q \in Requests : Relies(q, s)'
  BY <1>1, <1>2 DEF OthersStay, OneStake, Relies, ToWrite
<1>4. \A q, t \in Requests : (Owns(q, s)' /\ Owns(t, s)') => t = q
  BY <1>1, <1>2 DEF OneStake
<1>5. StakeEntries(s)'
  BY <1>1 DEF OneStake, StakeEntries
<1>6. QED
  BY <1>3, <1>4, <1>5 DEF OneStake

\* Nobody but the request changes its place.
LEMMA PlacesKept ==
  ASSUME OnceInv, NEW r \in Requests, OthersStay(r), Place(r)'
  PROVE  \A q \in Requests : Place(q)'
BY DEF OnceInv, OthersStay, Place

\* A step inside a request that posts nothing and moves no deposit.
LEMMA QuietKeeps ==
  ASSUME OnceInv, NEW r \in Requests, OthersStay(r), UNCHANGED <<posted, deposit>>, Place(r)',
         \A o \in {"credit", "reverse"}, d \in Deposits : ToWrite(r, o, d)' => ToWrite(r, o, d),
         \A s \in Stakes : (Owns(r, s)' => Owns(r, s)) /\ Relies(r, s)'
  PROVE  OnceInv'
<1>1. ASSUME NEW o \in {"credit", "reverse"}, NEW d \in Deposits
      PROVE  OneEntry(o, d)'
  <2>1. OneEntry(o, d) /\ (Open(o, d)' => Open(o, d))
    BY <1>1 DEF OnceInv, Open
  <2>2. \A q \in Requests : ToWrite(q, o, d)' => ToWrite(q, o, d)
    BY <1>1 DEF OthersStay, ToWrite
  <2>3. QED
    BY <1>1, <2>1, <2>2, EntryKept
<1>2. \A s \in Stakes : OneStake(s)'
  BY StakesKept
<1>3. QED
  BY <1>1, <1>2, PlacesKept DEF OnceInv

\* What an arrival makes of its request: it owns no stake and relies on none.
LEMMA ArrivalOwnsNothing ==
  ASSUME TypeOK, NEW r \in Requests, NEW x \in Refs,
         NEW o \in {"credit", "reverse", "reverseRecord", "withdraw", "confirm", "reject",
                    "reserve"},
         NEW l \in {"enter", "mark", "markOnly", "markRecord", "solvent"}, Receive(r, o, x, l)
  PROVE  /\ pc'[r] = l /\ op'[r] = o /\ ref'[r] = x
         /\ \A s \in Stakes : ~Owns(r, s)' /\ Relies(r, s)'
<1>1. pc'[r] = l /\ op'[r] = o /\ ref'[r] = x
  BY DEF Receive, Goto, TypeOK
<1>2. QED
  BY <1>1 DEF Owns, Relies

LEMMA ArriveOnce ==
  ASSUME TypeOK, OnceInv, NEW r \in Requests, Arrive(r)
  PROVE  OnceInv'
<1>1. OthersStay(r)
  BY OneMoves
<1>2. CASE \E d \in Deposits : ConfirmDeposit(r, d)
  <2>1. PICK d \in Deposits : ConfirmDeposit(r, d)
    BY <1>2
  <2>2. /\ Receive(r, "credit", d, "enter") /\ UNCHANGED posted
        /\ deposit[d] \in {"pending", "failed"} /\ deposit'[d] = "confirmed"
        /\ \A e \in Deposits \ {d} : deposit'[e] = deposit[e]
    BY <2>1 DEF ConfirmDeposit, CanAdvance, Rank, TypeOK, DepositStatus, money
  <2>3. /\ pc'[r] = "enter" /\ op'[r] = "credit" /\ ref'[r] = d
        /\ \A s \in Stakes : ~Owns(r, s)' /\ Relies(r, s)'
    BY <2>2, ArrivalOwnsNothing DEF Refs
  <2>4. OneEntry("credit", d)'
    <3>1. OneEntry("credit", d) /\ Open("credit", d) /\ ~Open("credit", d)'
      BY <2>2 DEF OnceInv, Open
    <3>2. \A q \in Requests : ToWrite(q, "credit", d)' => q = r \/ ToWrite(q, "credit", d)
      BY <1>1 DEF OthersStay, ToWrite
    <3>3. QED
      BY <2>2, <3>1, <3>2, EntryPlanned
  <2>5. ASSUME NEW o \in {"credit", "reverse"}, NEW e \in Deposits, o # "credit" \/ e # d
        PROVE  OneEntry(o, e)'
    <3>1. OneEntry(o, e) /\ (Open(o, e)' => Open(o, e))
      BY <2>2, <2>5 DEF OnceInv, Open
    <3>2. \A q \in Requests : ToWrite(q, o, e)' => ToWrite(q, o, e)
      BY <1>1, <2>3, <2>5 DEF OthersStay, ToWrite
    <3>3. QED
      BY <2>2, <2>5, <3>1, <3>2, EntryKept
  <2>6. \A s \in Stakes : OneStake(s)'
    BY <1>1, <2>2, <2>3, StakesKept
  <2>7. \A q \in Requests : Place(q)'
    <3>1. Place(r)'
      BY <2>3 DEF Place
    <3>2. QED
      BY <1>1, <3>1, PlacesKept
  <2>8. QED
    BY <2>4, <2>5, <2>6, <2>7 DEF OnceInv
<1>3. ASSUME NEW x \in Refs, NEW l \in {"enter", "mark", "markOnly", "markRecord", "solvent"},
             NEW o \in {"reverse", "reverseRecord", "withdraw", "confirm", "reject", "reserve"},
             Receive(r, o, x, l), UNCHANGED <<posted, deposit>>,
             o = "reverse" <=> l \in {"mark", "markOnly"},
             o = "reverseRecord" <=> l = "markRecord", l = "solvent" => o = "withdraw",
             o = "reverse" => x \in Deposits, o = "reverseRecord" => x \in Records
      PROVE  OnceInv'
  <2>1. /\ pc'[r] = l /\ op'[r] = o /\ ref'[r] = x
        /\ \A s \in Stakes : ~Owns(r, s)' /\ Relies(r, s)'
    BY <1>3, ArrivalOwnsNothing
  <2>2. Place(r)'
    BY <1>3, <2>1 DEF Place
  <2>3. \A p \in {"credit", "reverse"}, d \in Deposits : ~ToWrite(r, p, d)'
    BY <1>3, <2>1 DEF ToWrite
  <2>4. QED
    BY <1>1, <1>3, <2>1, <2>2, <2>3, QuietKeeps
<1>4. CASE \E d \in Deposits : ReverseDeposit(r, d)
  <2>1. PICK d \in Deposits : ReverseDeposit(r, d)
    BY <1>4
  <2>2. PICK l \in {"mark", "markOnly"} : Receive(r, "reverse", d, l)
    BY <2>1 DEF ReverseDeposit
  <2>3. UNCHANGED <<posted, deposit>> /\ d \in Refs
    BY <2>1 DEF ReverseDeposit, money, status, Refs
  <2>4. QED
    BY <1>3, <2>2, <2>3
<1>5. CASE \E x \in Records : ReverseRecord(r, x)
  BY <1>3, <1>5 DEF ReverseRecord, money, status, Refs
<1>6. CASE \E w \in Withdrawals :
             InitiateWithdrawal(r, w) \/ ApproveWithdrawal(r, w) \/ RejectWithdrawal(r, w)
  BY <1>3, <1>6
  DEF InitiateWithdrawal, ApproveWithdrawal, RejectWithdrawal, money, status, Refs
<1>7. CASE \E s \in Stakes : StakeNgn(r, s)
  BY <1>3, <1>7 DEF StakeNgn, money, status, Refs
<1>8. QED
  BY <1>2, <1>4, <1>5, <1>6, <1>7 DEF Arrive

\* Who has advanced the deposit to reversed has the reversal to write.
LEMMA MarkReversedOnce ==
  ASSUME TypeOK, OnceInv, NEW r \in Requests, MarkReversed(r)
  PROVE  OnceInv'
<1> DEFINE d == ref[r]
<1>1. OthersStay(r)
  BY OneMoves DEF Proceed
<1>2. /\ op[r] = "reverse" /\ d \in Deposits /\ pc[r] \in {"mark", "markOnly"}
      /\ UNCHANGED <<posted, op, ref>>
  BY DEF MarkReversed, OnceInv, Place, money, job
<1>3. PICK l \in {"enter", "idle"} : Goto(r, l)
  BY DEF MarkReversed
<1>4. pc'[r] = l /\ op'[r] = "reverse" /\ ref'[r] = ref[r]
  BY <1>2, <1>3 DEF Goto, TypeOK
<1>5. \A s \in Stakes : ~Owns(r, s)' /\ Relies(r, s)'
  BY <1>4 DEF Owns, Relies
<1>6. Place(r)'
  BY <1>4 DEF Place
<1>7. \A s \in Stakes : OneStake(s)'
  BY <1>1, <1>2, <1>5, StakesKept
<1>8. \A q \in Requests : Place(q)'
  BY <1>1, <1>6, PlacesKept
<1>9. /\ \A e \in Deposits \ {d} : deposit'[e] = deposit[e]
      /\ deposit'[d] = deposit[d] \/ (deposit[d] # "reversed" /\ deposit'[d] = "reversed")
      /\ l = "enter" => deposit[d] # "reversed" /\ deposit'[d] = "reversed"
  BY <1>2, <1>3, <1>4 DEF MarkReversed, CanAdvance, Rank, TypeOK, DepositStatus, Goto
<1> HIDE DEF d
<1>10. ASSUME NEW o \in {"credit", "reverse"}, NEW e \in Deposits PROVE OneEntry(o, e)'
  <2>1. OneEntry(o, e) /\ (Open(o, e)' => Open(o, e))
    BY <1>9, <1>10 DEF OnceInv, Open
  <2>2. \A q \in Requests : ToWrite(q, o, e)' => q = r \/ ToWrite(q, o, e)
    BY <1>1 DEF OthersStay, ToWrite
  <2>3. CASE ToWrite(r, o, e)'
    <3>1. o = "reverse" /\ e = d /\ l = "enter"
      BY <1>4, <2>3 DEF ToWrite, d
    <3>2. Open(o, e) /\ ~Open(o, e)'
      BY <1>9, <3>1 DEF Open
    <3>3. QED
      BY <1>2, <1>10, <2>1, <2>2, <3>2, EntryPlanned
  <2>4. CASE ~ToWrite(r, o, e)'
    BY <1>2, <1>10, <2>1, <2>2, <2>4, EntryKept
  <2>5. QED
    BY <2>3, <2>4
<1>11. QED
  BY <1>7, <1>8, <1>10 DEF OnceInv

\* Before the lock: a record is marked, a withdrawal is found solvent, the lock
\* is asked for.
LEMMA BeforeOnce ==
  ASSUME TypeOK, OnceInv, NEW r \in Requests, MarkRecord(r) \/ RequireSolvent(r) \/ AcquireLock(r)
  PROVE  OnceInv'
<1>1. OthersStay(r)
  BY OneMoves DEF Proceed
<1>2. PICK l \in {"enter", "idle", "queued"} : Goto(r, l)
  BY DEF MarkRecord, RequireSolvent, AcquireLock
<1>3. /\ UNCHANGED <<posted, deposit, op, ref>>
      /\ \/ pc[r] = "enter" /\ l = "queued"
         \/ l \in {"enter", "idle"} /\ op[r] \in {"reverseRecord", "withdraw"} /\ pc[r] # "idle"
  BY <1>2 DEF MarkRecord, RequireSolvent, AcquireLock, OnceInv, Place, money, status, job, Goto,
              TypeOK
<1>4. pc'[r] = l /\ op'[r] = op[r] /\ ref'[r] = ref[r]
  BY <1>2, <1>3 DEF Goto, TypeOK
<1>5. \A o \in {"credit", "reverse"}, d \in Deposits : ToWrite(r, o, d)' => ToWrite(r, o, d)
  BY <1>3, <1>4 DEF ToWrite
<1>6. Place(r)'
  BY <1>3, <1>4 DEF OnceInv, Place
<1>7. ASSUME NEW s \in Stakes
      PROVE  (Owns(r, s)' => Owns(r, s)) /\ Relies(r, s)'
  <2>1. Relies(r, s)
    BY <1>7 DEF OnceInv, OneStake
  <2>2. Owns(r, s)' => Owns(r, s)
    BY <1>3, <1>4 DEF Owns
  <2>3. Relies(r, s)'
    BY <1>3, <1>4, <2>1, <2>2 DEF Relies, ToWrite, Owns
  <2>4. QED
    BY <2>2, <2>3
<1>8. QED
  BY <1>1, <1>3, <1>5, <1>6, <1>7, QuietKeeps

\* Who is let through to reserve has found no reservation.
LEMMA CheckOnce ==
  ASSUME TypeOK, OnceInv, NEW r \in Requests, Check(r)
  PROVE  OnceInv'
<1>1. OthersStay(r)
  BY OneMoves DEF Proceed
<1>2. PICK l \in {"abandon", "write"} : Goto(r, l) /\ (l = "write" => ~Refused(r))
  BY DEF Check
<1>3. UNCHANGED <<posted, deposit, op, ref>> /\ pc[r] = "queued"
  BY DEF Check, money, status, job
<1>4. pc'[r] = l /\ op'[r] = op[r] /\ ref'[r] = ref[r]
  BY <1>2, <1>3 DEF Goto, TypeOK
<1>5. \A o \in {"credit", "reverse"}, d \in Deposits : ToWrite(r, o, d)' => ToWrite(r, o, d)
  BY <1>3, <1>4 DEF ToWrite
<1>6. Place(r)'
  BY <1>3, <1>4 DEF OnceInv, Place
<1>7. ASSUME NEW s \in Stakes
      PROVE  (Owns(r, s)' => Owns(r, s)) /\ Relies(r, s)'
  <2>1. Relies(r, s)
    BY <1>7 DEF OnceInv, OneStake
  <2>2. Owns(r, s)' => Owns(r, s)
    BY <1>3, <1>4 DEF Owns
  <2>3. (l = "write" /\ op[r] = "reserve" /\ ref[r] = s) => posted[s]["STAKE_RESERVE"] = 0
    <3>1. posted[s]["STAKE_RESERVE"] \in Nat
      BY DEF TypeOK, Refs, EntryType
    <3>2. QED
      BY <1>2, <3>1, OpFacts DEF Refused, AlreadyPosted
  <2>4. Relies(r, s)'
    BY <1>3, <1>4, <2>1, <2>2, <2>3 DEF Relies, ToWrite, Owns
  <2>5. QED
    BY <2>2, <2>4
<1>8. QED
  BY <1>1, <1>3, <1>5, <1>6, <1>7, QuietKeeps

\* After the entry.
LEMMA AfterOnce ==
  ASSUME TypeOK, OnceInv, NEW r \in Requests, Settle(r) \/ ChangeRisk(r)
  PROVE  OnceInv'
<1>1. OthersStay(r)
  BY OneMoves DEF Proceed
<1>2. UNCHANGED <<posted, deposit, op, ref>> /\ pc[r] \in {"settle", "freeze", "unfreeze"}
  BY DEF Settle, ChangeRisk, money, status, job
<1>3. \E l \in {"unfreeze", "freeze", "leave"} :
        Goto(r, l) /\ (l # "leave" => op[r] \in {"credit", "reverseRecord"})
  BY DEF Settle, ChangeRisk, RiskChange
<1>4. PICK l \in {"unfreeze", "freeze", "leave"} :
        Goto(r, l) /\ (l # "leave" => op[r] \in {"credit", "reverseRecord"})
  BY <1>3
<1>5. pc'[r] = l /\ op'[r] = op[r] /\ ref'[r] = ref[r]
  BY <1>2, <1>4 DEF Goto, TypeOK
<1>6. \A o \in {"credit", "reverse"}, d \in Deposits : ~ToWrite(r, o, d)'
  BY <1>5 DEF ToWrite
<1>7. Place(r)'
  BY <1>2, <1>4, <1>5 DEF OnceInv, Place
<1>8. ASSUME NEW s \in Stakes
      PROVE  (Owns(r, s)' => Owns(r, s)) /\ Relies(r, s)'
  <2>1. Relies(r, s) /\ Place(r)
    BY <1>8 DEF OnceInv, OneStake
  <2>2. Owns(r, s)' => Owns(r, s)
    BY <1>2, <1>5, <2>1 DEF Owns, Place
  <2>3. Relies(r, s)'
    BY <1>2, <1>5, <2>1, <2>2 DEF Relies, ToWrite, Owns
  <2>4. QED
    BY <2>2, <2>3
<1>9. QED
  BY <1>1, <1>2, <1>6, <1>7, <1>8, QuietKeeps

\* The route goes on from the reservation to the debit or the release, and from
\* a debit that failed, or a row that was not created, to the release.
LEMMA RouteOnce ==
  ASSUME TypeOK, OnceInv, NEW r \in Requests, Leave(r) \/ Convert(r) \/ SubmitStake(r)
  PROVE  OnceInv'
<1>1. OthersStay(r)
  BY OneMoves DEF Proceed
<1>2. UNCHANGED <<posted, deposit, ref>>
  BY DEF Leave, Convert, SubmitStake, Continue, money, status, job
<1>3. Place(r) /\ pc \in [Requests -> PC] /\ op \in [Requests -> Op]
  BY DEF OnceInv, TypeOK
<1>4. \/ /\ op'[r] = op[r]
         /\ \/ pc'[r] = "idle"
            \/ pc'[r] = "convert" /\ pc[r] = "leave" /\ op[r] = "reserve"
            \/ pc'[r] = "stake" /\ pc[r] = "leave" /\ op[r] = "debit"
      \/ /\ pc'[r] = "enter" /\ op'[r] = "release"
         /\ pc[r] \in {"abandon", "stake"} /\ op[r] = "debit"
      \/ /\ pc'[r] = "enter" /\ op'[r] \in {"debit", "release"}
         /\ pc[r] = "convert" /\ op[r] = "reserve"
  <2>1. CASE Leave(r)
    BY <1>3, <2>1 DEF Leave, Continue, Goto, job
  <2>2. CASE Convert(r)
    BY <1>3, <2>2 DEF Convert, Continue, Goto, Place
  <2>3. CASE SubmitStake(r)
    BY <1>3, <2>3 DEF SubmitStake, Continue, Goto, Place, job
  <2>4. QED
    BY <2>1, <2>2, <2>3
<1>5. \A o \in {"credit", "reverse"}, d \in Deposits : ~ToWrite(r, o, d)'
  BY <1>4 DEF ToWrite
<1>6. Place(r)'
  BY <1>4 DEF Place
<1>7. ASSUME NEW s \in Stakes
      PROVE  (Owns(r, s)' => Owns(r, s)) /\ Relies(r, s)'
  <2>1. Relies(r, s)
    BY <1>7 DEF OnceInv, OneStake
  <2>2. Owns(r, s)' => Owns(r, s)
    BY <1>2, <1>4 DEF Owns
  <2>3. Relies(r, s)'
    BY <1>2, <1>4, <2>1, <2>2 DEF Relies, ToWrite, Owns
  <2>4. QED
    BY <2>2, <2>3
<1>8. QED
  BY <1>1, <1>2, <1>5, <1>6, <1>7, QuietKeeps

\* What a write adds, to the entries of which reference.
LEMMA PostFacts ==
  ASSUME TypeOK, NEW r \in Requests, Post(r)
  PROVE  /\ posted'[ref[r]][EntryOf[op[r]]] = posted[ref[r]][EntryOf[op[r]]] + 1
         /\ \A x \in Refs, type \in EntryType :
              (x # ref[r] \/ type # EntryOf[op[r]]) => posted'[x][type] = posted[x][type]
<1>1. /\ posted \in [Refs -> [EntryType -> Nat]] /\ op[r] \in Op /\ ref[r] \in Refs
  BY DEF TypeOK
<1>2. EntryOf[op[r]] \in EntryType
  BY <1>1, OpFacts DEF EntryType
<1>3. QED
  BY <1>1, <1>2 DEF Post

\* A write leaves every deposit with one entry: a reversal under a deposit's
\* reference is a webhook's, never a record's.
LEMMA WriteOnceDeposit ==
  ASSUME TypeOK, OnceInv, NEW r \in Requests, OthersStay(r), Post(r), pc[r] = "write",
         pc'[r] \notin {"enter", "queued", "write"}, UNCHANGED <<deposit, op, ref>>,
         NEW o \in {"credit", "reverse"}, NEW d \in Deposits
  PROVE  OneEntry(o, d)'
<1>1. OneEntry(o, d) /\ Place(r) /\ (Open(o, d)' => Open(o, d)) /\ d \in Refs
  BY DEF OnceInv, Open, Refs
<1>2. \A q \in Requests : ToWrite(q, o, d)' => ToWrite(q, o, d)
  BY DEF OthersStay, ToWrite
<1>3. CASE ToWrite(r, o, d)
  <2>1. posted'[d][EntryOf[o]] = posted[d][EntryOf[o]] + 1
    BY <1>3, PostFacts DEF ToWrite
  <2>2. ~ToWrite(r, o, d)'
    BY DEF ToWrite
  <2>3. QED
    BY <1>1, <1>2, <1>3, <2>1, <2>2, EntryWritten
<1>4. CASE ~ToWrite(r, o, d)
  <2>1. ref[r] # d \/ EntryOf[op[r]] # EntryOf[o]
    <3>1. SUFFICES ASSUME ref[r] = d, EntryOf[op[r]] = EntryOf[o] PROVE FALSE
      OBVIOUS
    <3>2. op[r] \in Op /\ op[r] # o
      BY <1>4, <3>1 DEF TypeOK, ToWrite
    <3>3. op[r] = "reverseRecord"
      BY <3>1, <3>2, OpFacts
    <3>4. d \in Records
      BY <1>1, <3>1, <3>3 DEF Place
    <3>5. QED
      BY <3>4, WalletAssumption DEF WalletAssumption
  <2>2. EntryOf[o] \in EntryType
    BY OpFacts DEF EntryType
  <2>3. posted'[d][EntryOf[o]] = posted[d][EntryOf[o]]
    BY <1>1, <2>1, <2>2, PostFacts
  <2>4. QED
    BY <1>1, <1>2, <2>3, EntryKept
<1>5. QED
  BY <1>3, <1>4

\* A write leaves every stake with what its owner relies on: the reservation
\* makes the owner, who alone debits and releases.
LEMMA WriteOnceStake ==
  ASSUME TypeOK, QueueOK, OnceInv, NEW r \in Requests, OthersStay(r), Post(r), pc[r] = "write",
         pc'[r] \in {"settle", "abandon"}, UNCHANGED <<op, ref>>, NEW s \in Stakes
  PROVE  OneStake(s)'
<1> DEFINE reserve == posted[s]["STAKE_RESERVE"]
           debit   == posted[s]["CONVERSION_DEBIT"]
           release == posted[s]["STAKE_RELEASE"]
<1>1. OneStake(s) /\ Relies(r, s) /\ op[r] \in Op /\ s \in Refs
  BY DEF OnceInv, OneStake, TypeOK, Refs
<1>2. /\ {"STAKE_RESERVE", "CONVERSION_DEBIT", "STAKE_RELEASE"} \subseteq EntryType
      /\ reserve \in Nat /\ debit \in Nat /\ release \in Nat
  BY <1>1 DEF EntryType, TypeOK
<1>3. \A q \in Requests \ {r} : pc'[q] # "write" /\ pc[q] # "write"
  BY DEF QueueOK, Inside, Holds, OthersStay
<1>4. /\ reserve <= 1 /\ debit <= reserve /\ release <= reserve
      /\ \A q \in Requests : Owns(q, s) => reserve = 1
  BY <1>1 DEF OneStake, StakeEntries, Relies
<1>5. \A q \in Requests \ {r} : Owns(q, s)' <=> Owns(q, s)
  BY DEF OthersStay, Owns
<1>6. CASE op[r] = "reserve" /\ ref[r] = s
  <2>1. reserve = 0
    BY <1>1, <1>6 DEF Relies
  <2>2. /\ posted'[s]["STAKE_RESERVE"] = 1
        /\ posted'[s]["CONVERSION_DEBIT"] = 0 /\ posted'[s]["STAKE_RELEASE"] = 0
    BY <1>1, <1>2, <1>4, <1>6, <2>1, PostFacts, OpFacts
  <2>3. \A q \in Requests : Owns(q, s)' => q = r
    BY <1>4, <1>5, <2>1
  <2>4. \A q \in Requests : Relies(q, s)'
    BY <1>3, <2>2, <2>3 DEF Relies
  <2>5. QED
    BY <2>2, <2>3, <2>4 DEF OneStake, StakeEntries
<1>7. CASE op[r] \in {"debit", "release"} /\ ref[r] = s
  <2>1. Owns(r, s) /\ reserve = 1 /\ \A q \in Requests : Owns(q, s) => q = r
    BY <1>1, <1>4, <1>7 DEF Owns, OneStake
  <2>2. \A q \in Requests : Owns(q, s)' => q = r
    BY <1>5, <2>1
  <2>3. CASE op[r] = "debit"
    <3>1. debit = 0 /\ release = 0
      BY <1>1, <1>7, <2>1, <2>3 DEF Relies, ToWrite
    <3>2. /\ posted'[s]["STAKE_RESERVE"] = 1
          /\ posted'[s]["CONVERSION_DEBIT"] = 1 /\ posted'[s]["STAKE_RELEASE"] = 0
      BY <1>1, <1>2, <1>7, <2>1, <2>3, <3>1, PostFacts, OpFacts
    <3>3. \A q \in Requests : Relies(q, s)'
      BY <1>3, <2>2, <2>3, <3>2 DEF Relies, ToWrite
    <3>4. QED
      BY <2>2, <3>2, <3>3 DEF OneStake, StakeEntries
  <2>4. CASE op[r] = "release"
    <3>1. release = 0
      BY <1>1, <1>7, <2>1, <2>4 DEF Relies, ToWrite
    <3>2. /\ posted'[s]["STAKE_RESERVE"] = 1
          /\ posted'[s]["CONVERSION_DEBIT"] = debit /\ posted'[s]["STAKE_RELEASE"] = 1
      BY <1>1, <1>2, <1>7, <2>1, <2>4, <3>1, PostFacts, OpFacts
    <3>3. \A q \in Requests : Relies(q, s)'
      BY <1>3, <2>2, <2>4, <3>2 DEF Relies, ToWrite
    <3>4. QED
      BY <1>4, <2>1, <2>2, <3>2, <3>3 DEF OneStake, StakeEntries
  <2>5. QED
    BY <1>7, <2>3, <2>4
<1>8. CASE op[r] \notin {"reserve", "debit", "release"} \/ ref[r] # s
  <2>1. /\ posted'[s]["STAKE_RESERVE"] = reserve
        /\ posted'[s]["CONVERSION_DEBIT"] = debit /\ posted'[s]["STAKE_RELEASE"] = release
    BY <1>1, <1>2, <1>8, PostFacts, OpFacts
  <2>2. ~Owns(r, s)'
    BY <1>8 DEF Owns
  <2>3. \A q \in Requests : Relies(q, s)'
    <3>1. \A q \in Requests : Relies(q, s)
      BY <1>1 DEF OneStake
    <3>2. \A q \in Requests \ {r} : Relies(q, s)'
      BY <1>3, <1>5, <2>1, <3>1 DEF Relies, ToWrite, OthersStay
    <3>3. Relies(r, s)'
      BY <2>2 DEF Relies
    <3>4. QED
      BY <3>2, <3>3
  <2>4. StakeEntries(s)'
    BY <1>4, <2>1 DEF StakeEntries
  <2>5. \A q, t \in Requests : (Owns(q, s)' /\ Owns(t, s)') => t = q
    BY <1>1, <1>5, <2>2 DEF OneStake
  <2>6. QED
    BY <2>3, <2>4, <2>5 DEF OneStake
<1>9. QED
  BY <1>6, <1>7, <1>8

LEMMA WriteOnce ==
  ASSUME WalletInv, OnceInv, NEW r \in Requests, Write(r) \/ WriteThrows(r)
  PROVE  OnceInv'
<1>1. TypeOK /\ QueueOK /\ OthersStay(r)
  BY OneMoves DEF Proceed, WalletInv
<1>2. PICK l \in {"settle", "abandon"} : Goto(r, l) /\ (~Post(r) => l = "abandon")
  BY DEF Write, WriteThrows
<1>3. /\ pc[r] = "write" /\ UNCHANGED <<deposit, op, ref>> /\ (Post(r) \/ UNCHANGED posted)
  BY DEF Write, WriteThrows, money, status, job
<1>4. pc'[r] = l /\ op'[r] = op[r] /\ ref'[r] = ref[r]
  BY <1>1, <1>2, <1>3 DEF Goto, TypeOK
<1>5. Place(r)'
  BY <1>3, <1>4 DEF OnceInv, Place
<1>6. CASE Post(r)
  <2>1. \A d \in Deposits : OneEntry("credit", d)' /\ OneEntry("reverse", d)'
    BY <1>1, <1>3, <1>4, <1>6, WriteOnceDeposit
  <2>2. \A s \in Stakes : OneStake(s)'
    BY <1>1, <1>3, <1>4, <1>6, WriteOnceStake
  <2>3. QED
    BY <1>1, <1>5, <2>1, <2>2, PlacesKept DEF OnceInv
<1>7. CASE ~Post(r)
  <2>1. \A o \in {"credit", "reverse"}, d \in Deposits : ~ToWrite(r, o, d)'
    BY <1>2, <1>4, <1>7 DEF ToWrite
  <2>2. ASSUME NEW s \in Stakes
        PROVE  (Owns(r, s)' => Owns(r, s)) /\ Relies(r, s)'
    <3>1. Relies(r, s)
      BY <2>2 DEF OnceInv, OneStake
    <3>2. Owns(r, s)' => Owns(r, s)
      BY <1>2, <1>3, <1>4, <1>7 DEF Owns
    <3>3. Relies(r, s)'
      BY <1>2, <1>3, <1>4, <1>7, <3>1, <3>2 DEF Relies, ToWrite, Owns
    <3>4. QED
      BY <3>2, <3>3
  <2>3. QED
    BY <1>1, <1>3, <1>5, <1>7, <2>1, <2>2, QuietKeeps
<1>8. QED
  BY <1>6, <1>7

\* A payment that fails, the admin, and a step of nobody.
LEMMA AsideOnce ==
  ASSUME TypeOK, OnceInv,
         (\E d \in Deposits : FailDeposit(d)) \/ AdminFreeze \/ AdminUnfreeze \/ UNCHANGED vars
  PROVE  OnceInv'
<1>1. UNCHANGED <<posted, pc, op, ref>>
  BY DEF FailDeposit, AdminFreeze, AdminUnfreeze, vars, money, job
<1>2. \A d \in Deposits :
        deposit'[d] = deposit[d] \/ (deposit[d] = "pending" /\ deposit'[d] = "failed")
  BY DEF FailDeposit, AdminFreeze, AdminUnfreeze, vars, status, TypeOK, DepositStatus,
         CanAdvance, Rank
<1>3. ASSUME NEW o \in {"credit", "reverse"}, NEW d \in Deposits PROVE OneEntry(o, d)'
  <2>1. OneEntry(o, d) /\ (Open(o, d)' => Open(o, d))
    BY <1>2, <1>3 DEF OnceInv, Open
  <2>2. \A q \in Requests : ToWrite(q, o, d)' => ToWrite(q, o, d)
    BY <1>1 DEF ToWrite
  <2>3. QED
    BY <1>1, <1>3, <2>1, <2>2, EntryKept
<1>4. \A s \in Stakes : OneStake(s)'
  BY <1>1 DEF OnceInv, OneStake, StakeEntries, Relies, Owns, ToWrite
<1>5. \A r \in Requests : Place(r)'
  BY <1>1 DEF OnceInv, Place
<1>6. QED
  BY <1>3, <1>4, <1>5 DEF OnceInv

LEMMA InitOnce == ASSUME WalletAssumption, Init PROVE OnceInv
<1>1. \A r \in Requests : pc[r] = "idle"
  BY DEF Init
<1>2. \A x \in Refs, type \in EntryType : posted[x][type] = 0
  BY DEF Init
<1>3. \A d \in Deposits : OneEntry("credit", d) /\ OneEntry("reverse", d)
  BY <1>1, <1>2, OpFacts DEF Refs, EntryType, OneEntry, ToWrite
<1>4. \A s \in Stakes : OneStake(s)
  BY <1>1, <1>2 DEF Refs, EntryType, OneStake, StakeEntries, Relies, Owns
<1>5. \A r \in Requests : Place(r)
  BY <1>1 DEF Place
<1>6. QED
  BY <1>3, <1>4, <1>5 DEF OnceInv

\* Events and retries that are repeated or out of order post their entry once:
\* a deposit is credited and reversed at most once, a stake reserved, debited
\* and released at most once, and no conversion is debited without a reserve.
THEOREM EntriesPostedOnce == Spec => []PostedOnce
<1>1. Init => OnceInv
  BY InitOnce, WalletAssumption
<1>2. WalletInv /\ OnceInv /\ [Next]_vars => OnceInv'
  <2>1. SUFFICES ASSUME WalletInv, OnceInv, [Next]_vars PROVE OnceInv'
    OBVIOUS
  <2>2. TypeOK
    BY <2>1 DEF WalletInv
  <2>3. CASE \E r \in Requests : Arrive(r) \/ Proceed(r) \/ WriteThrows(r)
    BY <2>1, <2>2, <2>3, ArriveOnce, MarkReversedOnce, BeforeOnce, CheckOnce, WriteOnce,
       AfterOnce, RouteOnce DEF Proceed
  <2>4. CASE \/ (\E d \in Deposits : FailDeposit(d)) \/ AdminFreeze \/ AdminUnfreeze
             \/ UNCHANGED vars
    BY <2>1, <2>2, <2>4, AsideOnce
  <2>5. QED
    BY <2>1, <2>3, <2>4 DEF Next
<1>3. OnceInv => PostedOnce
  BY OpFacts DEF OnceInv, OneEntry, OneStake, StakeEntries, PostedOnce
<1>4. QED
  BY <1>1, <1>2, <1>3, WalletInvariant, PTL DEF Spec

=============================================================================
