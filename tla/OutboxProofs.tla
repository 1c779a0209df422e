---------------------------- MODULE OutboxProofs ----------------------------
(***************************************************************************)
(* Proofs about the outbox, for any number of items and any value of the   *)
(* other constants, but for what a theorem assumes of them: the types and  *)
(* ReceiptInv; that claims exclude; for one run at a time, that nothing is *)
(* broadcast twice and that it implements ReceiptDelivery; and which rows  *)
(* no run ever takes further.                                              *)
(***************************************************************************)
EXTENDS OutboxProps, FiniteSetTheorems, TLAPS

\* Every store statement maps a row to a row.
LEMMA RowOps ==
  ASSUME NEW r \in Row, NEW n \in Hash, NEW s \in Status
  PROVE  /\ Create(r) \in Row /\ UpdateStatus(r, s) \in Row
         /\ MarkDead(r) \in Row /\ MoveToDeadLetter(r) \in Row
         /\ LockForProcessing(r) \in Row /\ PersistSubmittedTxHash(r, n) \in Row
         /\ MarkConfirming(r, n) \in Row /\ ReopenItem(r) \in Row
  <1> USE MaxTxAssumption DEF Row, Status, Claim, Hash
  <1>1. Create(r) \in Row
    BY DEF Create
  <1>2. UpdateStatus(r, s) \in Row
    BY DEF UpdateStatus
  <1>3. MarkDead(r) \in Row /\ MoveToDeadLetter(r) \in Row
    BY DEF MarkDead, MoveToDeadLetter
  <1>4. LockForProcessing(r) \in Row /\ PersistSubmittedTxHash(r, n) \in Row
    BY DEF LockForProcessing, PersistSubmittedTxHash
  <1>5. MarkConfirming(r, n) \in Row /\ ReopenItem(r) \in Row
    BY DEF MarkConfirming, ReopenItem
  <1>6. QED
    BY <1>1, <1>2, <1>3, <1>4, <1>5

\* A row read by a process is a snapshot of an item.
LEMMA SnapType ==
  ASSUME TypeOK, NEW i \in Items
  PROVE  Snap(i) \in Snapshot
  BY DEF TypeOK, Snap, Snapshot, Row

\* The part of the type invariant that the control flow of a process owns.
LocalOK ==
  /\ pc    \in [Procs -> PC]
  /\ phase \in [Procs -> Phase]
  /\ batch \in [Procs -> SUBSET Snapshot]
  /\ cur   \in [Procs -> Snapshot \cup {NoSnap}]
  /\ txno  \in [Procs -> Hash]
  /\ \A w \in Procs : /\ pc[w] \in Busy => cur[w] \in Snapshot
                      /\ pc[w] \in Sending => txno[w] \in TxNo

LEMMA NextItemType ==
  ASSUME LocalOK, NEW w \in Procs, NextItem(w)
  PROVE  LocalOK'
  BY MaxTxAssumption
  DEF LocalOK, NextItem, Goto, PC, Busy, Sending, Hash, TxNo

LEMMA GotoType ==
  ASSUME LocalOK, NEW w \in Procs, pc[w] \in Busy,
         NEW l \in Busy \ Sending, Goto(w, l), UNCHANGED local
  PROVE  LocalOK'
  BY DEF LocalOK, Goto, PC, Busy, Sending, local

LEMMA SendReturnsType ==
  ASSUME LocalOK, NEW w \in Procs, pc[w] \in Busy, SendReturnsFalse(w)
  PROVE  LocalOK'
  <1>1. "schedule" \in Busy \ Sending
    BY DEF Busy, PC, Sending
  <1>2. QED
    BY <1>1, NextItemType, GotoType DEF SendReturnsFalse

LEMMA StartLoopType ==
  ASSUME LocalOK, NEW w \in Procs, NEW ph \in Phase, NEW snaps \in SUBSET Snapshot,
         StartLoop(w, ph, snaps)
  PROVE  LocalOK'
  BY DEF LocalOK, StartLoop, Goto, PC, Busy, Sending

LEMMA SkipType ==
  ASSUME LocalOK, NEW w \in Procs, NEW s \in batch[w], Skip(w, s)
  PROVE  LocalOK'
  BY DEF LocalOK, Skip

LEMMA StartSendType ==
  ASSUME LocalOK, NEW w \in Procs, NEW s \in batch[w], StartSend(w, s)
  PROVE  LocalOK'
  <1>1. s \in Snapshot
    BY DEF LocalOK
  <1>2. SendEntry(w, s) \in Busy \ Sending
    BY DEF SendEntry, Busy, PC, Sending
  <1>3. QED
    BY <1>1, <1>2 DEF LocalOK, StartSend, Goto, PC, Busy, Sending

\* The part of the type invariant that the table, the chain and the admin
\* requests own.
RowsOK  == row \in [Items -> Row]
ChainOK == built \in [Items -> Hash] /\ tx \in [Items -> [TxNo -> TxState]]
EnvOK   == adm \in [Admins -> AdminRequest] /\ crashes \in Nat /\ adminOps \in Nat

LEMMA TypeParts == TypeOK <=> LocalOK /\ RowsOK /\ ChainOK /\ EnvOK
  BY DEF TypeOK, LocalOK, RowsOK, ChainOK, EnvOK

LEMMA TypePartsNext == LocalOK' /\ RowsOK' /\ ChainOK' /\ EnvOK' => TypeOK'
  BY DEF TypeOK, LocalOK, RowsOK, ChainOK, EnvOK

LEMMA Witnesses == 0 \in Hash /\ "dead" \in Status
  BY MaxTxAssumption DEF Hash, Status

LEMMA WriteRowType ==
  ASSUME LocalOK, RowsOK, NEW w \in Procs, cur[w] \in Snapshot,
         NEW r, WriteRow(w, r), r \in Row
  PROVE  RowsOK'
  BY DEF RowsOK, WriteRow, Snapshot

LEMMA MineType ==
  ASSUME LocalOK, RowsOK, NEW w \in Procs, pc[w] \in Busy
  PROVE  /\ cur[w] \in Snapshot /\ cur[w].id \in Items /\ cur[w].hash \in Hash
         /\ cur[w].retry \in Nat /\ Mine(w) \in Row
  BY DEF LocalOK, RowsOK, Mine, Snapshot

\* Every step of a run keeps the type invariant.
LEMMA RunType ==
  ASSUME TypeOK, NEW w \in Workers, Run(w)
  PROVE  TypeOK'
  <1> USE TypeParts, TypePartsNext
  <1>0. w \in Procs
    BY DEF Procs
  <1>1. CASE ClaimPending(w)
    <2>1. {Snap(i) : i \in {j \in Items : Claimable(row[j])}} \in SUBSET Snapshot
      BY SnapType
    <2>2. LocalOK'
      BY <1>0, <1>1, <2>1, StartLoopType DEF ClaimPending, Phase
    <2>3. \A i \in Items : LockForProcessing(row[i]) \in Row
      BY RowOps, Witnesses DEF RowsOK
    <2>4. RowsOK'
      BY <1>1, <2>3 DEF ClaimPending, RowsOK
    <2>5. QED
      BY <1>1, <2>2, <2>4 DEF ClaimPending, ChainOK, EnvOK, chain, env
  <1>2. CASE ListConfirming(w) \/ ListFailed(w)
    <2>1. \A s : ListByStatus(s) \in SUBSET Snapshot
      BY SnapType DEF ListByStatus
    <2>2. LocalOK'
      BY <1>0, <1>2, <2>1, StartLoopType DEF ListConfirming, ListFailed, Phase
    <2>3. QED
      BY <1>2, <2>2 DEF ListConfirming, ListFailed, RowsOK, ChainOK, EnvOK, chain, env
  <1>3. CASE SkipNotDue(w)
    <2>1. LocalOK'
      BY <1>0, <1>3, SkipType DEF SkipNotDue
    <2>2. QED
      BY <1>3, <2>1 DEF SkipNotDue, RowsOK, ChainOK, EnvOK, chain, env
  <1>4. CASE PromoteExhausted(w)
    <2>1. PICK s \in batch[w] :
            row' = [row EXCEPT ![s.id] = MoveToDeadLetter(@)] /\ Skip(w, s)
      BY <1>4 DEF PromoteExhausted
    <2>2. s.id \in Items
      BY <1>0 DEF LocalOK, Snapshot
    <2>3. MoveToDeadLetter(row[s.id]) \in Row
      BY <2>2, RowOps, Witnesses DEF RowsOK
    <2>4. RowsOK'
      BY <2>1, <2>2, <2>3 DEF RowsOK
    <2>5. LocalOK'
      BY <1>0, <2>1, SkipType
    <2>6. QED
      BY <1>4, <2>4, <2>5 DEF PromoteExhausted, ChainOK, EnvOK, chain, env
  <1>5. CASE PickToConfirm(w)
    <2>1. LocalOK'
      <3>1. PICK s \in batch[w] :
              \/ Skip(w, s)
              \/ /\ Goto(w, "check")
                 /\ cur'   = [cur EXCEPT ![w] = s]
                 /\ batch' = [batch EXCEPT ![w] = @ \ {s}]
                 /\ UNCHANGED <<phase, txno>>
        BY <1>5 DEF PickToConfirm
      <3>2. s \in Snapshot
        BY <1>0 DEF LocalOK
      <3>3. QED
        BY <1>0, <3>1, <3>2, SkipType DEF LocalOK, Goto, PC, Busy, Sending
    <2>2. QED
      BY <1>5, <2>1 DEF PickToConfirm, RowsOK, ChainOK, EnvOK, chain, env
  <1>6. CASE CheckConfirmation(w)
    <2>1. pc[w] \in Busy
      BY <1>6 DEF CheckConfirmation, Busy, PC
    <2>2. PICK next \in {"markSent", "markConfirming", "loop", "reopen"} :
            IF next = "loop" THEN NextItem(w) ELSE Goto(w, next) /\ UNCHANGED local
      BY <1>6 DEF CheckConfirmation, DepthTest
    <2>3. LocalOK'
      <3>1. {"markSent", "markConfirming", "reopen"} \subseteq Busy \ Sending
        BY DEF Busy, PC, Sending
      <3>2. QED
        BY <1>0, <2>1, <2>2, <3>1, NextItemType, GotoType
    <2>4. QED
      BY <1>6, <2>3 DEF CheckConfirmation, RowsOK, ChainOK, EnvOK, chain, env
  <1>7. QED
    BY <1>1, <1>2, <1>3, <1>4, <1>5, <1>6 DEF Run

\* Every step of the sender keeps the type invariant.
LEMMA SendType ==
  ASSUME TypeOK, NEW w \in Procs, Send(w)
  PROVE  TypeOK'
  <1> USE TypeParts, TypePartsNext
  <1>1. CASE EndOfRun(w)
    BY <1>1 DEF EndOfRun, EndOfBatch, LocalOK, Goto, PC, Busy, Sending, Phase,
                RowsOK, ChainOK, EnvOK, chain, env
  <1>2. CASE PickToSend(w)
    <2>1. LocalOK'
      BY <1>2, StartSendType DEF PickToSend
    <2>2. QED
      BY <1>2, <2>1 DEF PickToSend, RowsOK, ChainOK, EnvOK, chain, env
  <1>3. CASE Resolve(w) \/ GiveUp(w)
    <2>1. pc[w] \in Busy
      BY <1>3 DEF Resolve, GiveUp, Busy, PC
    <2>2. {"markConfirming", "reopen"} \subseteq Busy \ Sending
      BY DEF Busy, PC, Sending
    <2>3. LocalOK'
      BY <1>3, <2>1, <2>2, SendReturnsType, GotoType DEF Resolve, GiveUp
    <2>4. QED
      BY <1>3, <2>3 DEF Resolve, GiveUp, RowsOK, ChainOK, EnvOK, chain, env
  <1>4. CASE Build(w)
    <2>1. pc[w] \in Busy
      BY <1>4 DEF Build, Busy, PC
    <2> DEFINE n == built[cur[w].id] + 1
    <2>2. cur[w].id \in Items /\ cur[w] \in Snapshot /\ Mine(w) \in Row
      BY <2>1, MineType
    <2>3. n \in TxNo /\ n \in Hash
      BY <1>4, <2>2, MaxTxAssumption DEF Build, ChainOK, Hash, TxNo
    <2>4. ChainOK'
      BY <1>4, <2>2, <2>3 DEF Build, ChainOK, TxState
    <2>5. RowsOK'
      <3>1. PersistSubmittedTxHash(Mine(w), n) \in Row
        BY <2>2, <2>3, RowOps, Witnesses
      <3>2. QED
        BY <1>4, <2>2, <3>1, WriteRowType DEF Build, RowsOK
    <2>6. LocalOK'
      BY <1>4, <2>1, <2>2, <2>3 DEF Build, LocalOK, Goto, PC, Busy, Sending
    <2>7. QED
      BY <1>4, <2>4, <2>5, <2>6 DEF Build, EnvOK, env
  <1>5. CASE Broadcast(w) \/ BroadcastFails(w) \/ BroadcastReplyLost(w)
    <2>1. pc[w] \in Sending /\ pc[w] \in Busy
      BY <1>5 DEF Broadcast, BroadcastFails, BroadcastReplyLost, Sending, Busy, PC
    <2>2. cur[w].id \in Items /\ txno[w] \in TxNo
      BY <2>1, MineType DEF LocalOK
    <2>3. ChainOK'
      BY <1>5, <2>2 DEF Broadcast, BroadcastFails, BroadcastReplyLost, SetTx, ChainOK, TxState
    <2>4. LocalOK'
      BY <1>5, <2>1 DEF Broadcast, BroadcastFails, BroadcastReplyLost, LocalOK, Goto, PC,
                        Busy, Sending, local
    <2>5. QED
      BY <1>5, <2>3, <2>4 DEF Broadcast, BroadcastFails, BroadcastReplyLost, RowsOK, EnvOK, env
  <1>6. CASE BuildFails(w) \/ AwaitSuccess(w) \/ AwaitFailure(w)
    <2>1. pc[w] \in Busy
      BY <1>6 DEF BuildFails, AwaitSuccess, AwaitFailure, Busy, PC
    <2>2. {"markFailed", "markSent"} \subseteq Busy \ Sending
      BY DEF Busy, PC, Sending
    <2>3. LocalOK'
      BY <1>6, <2>1, <2>2, GotoType DEF BuildFails, AwaitSuccess, AwaitFailure
    <2>4. QED
      BY <1>6, <2>3 DEF BuildFails, AwaitSuccess, AwaitFailure, RowsOK, ChainOK, EnvOK,
                        chain, env
  <1>7. CASE \/ MarkSent(w) \/ MarkFailed(w) \/ MarkConfirmingStep(w) \/ ClearHash(w)
             \/ Reopen(w) \/ Requeue(w) \/ ScheduleRetry(w)
    <2>1. pc[w] \in Busy
      BY <1>7 DEF MarkSent, MarkFailed, MarkConfirmingStep, ClearHash, Reopen, Requeue,
                  ScheduleRetry, Busy, PC
    <2>2. cur[w] \in Snapshot /\ cur[w].hash \in Hash /\ Mine(w) \in Row
      BY <2>1, MineType
    <2>3. "requeue" \in Busy \ Sending
      BY DEF Busy, PC, Sending
    <2>4. LocalOK'
      BY <1>7, <2>1, <2>3, NextItemType, SendReturnsType, GotoType
         DEF MarkSent, MarkFailed, MarkConfirmingStep, ClearHash, Reopen, Requeue, ScheduleRetry
    <2>5. {"sent", "failed", "pending"} \subseteq Status
      BY DEF Status
    <2>6. PICK r \in Row : WriteRow(w, r)
      BY <1>7, <2>2, <2>5, RowOps, Witnesses
         DEF MarkSent, MarkFailed, MarkConfirmingStep, ClearHash, Reopen, Requeue, ScheduleRetry
    <2>7. RowsOK'
      BY <2>2, <2>6, WriteRowType
    <2>8. QED
      BY <1>7, <2>4, <2>7 DEF MarkSent, MarkFailed, MarkConfirmingStep, ClearHash, Reopen,
                               Requeue, ScheduleRetry, ChainOK, EnvOK, chain, env
  <1>8. QED
    BY <1>1, <1>2, <1>3, <1>4, <1>5, <1>6, <1>7 DEF Send

\* Every step of handlers, admin routes, time and the network keeps it.
LEMMA OtherType ==
  ASSUME TypeOK,
         \/ \E w \in Procs : Crash(w)
         \/ \E c \in Clients, i \in Items : SubmitRequest(c, i) \/ AdminRetry(c, i)
         \/ \E c \in Clients : AdminRetryAll(c)
         \/ \E a \in Admins : AdminRead(a) \/ AdminWrite(a)
         \/ \E i \in Items : Enqueue(i) \/ ClaimAges(i)
         \/ \E i \in Items, n \in TxNo : Decide(i, n)
  PROVE  TypeOK'
  <1> USE TypeParts, TypePartsNext
  <1>1. CASE \E w \in Procs : Crash(w)
    <2>1. PICK w \in Procs : Crash(w)
      BY <1>1
    <2>2. "idle" \in PC \ Busy /\ "idle" \notin Sending /\ "direct" \in Phase /\ 0 \in Hash
      BY MaxTxAssumption DEF PC, Busy, Sending, Phase, Hash
    <2>3. LocalOK'
      BY <2>1, <2>2 DEF Crash, LocalOK, Goto
    <2>4. EnvOK'
      BY <2>1 DEF Crash, EnvOK
    <2>5. QED
      BY <2>1, <2>3, <2>4 DEF Crash, RowsOK, ChainOK, chain
  <1>2. CASE \E c \in Clients, i \in Items : SubmitRequest(c, i)
    <2>1. PICK c \in Clients, i \in Items : SubmitRequest(c, i)
      BY <1>2
    <2>2. LocalOK'
      BY <2>1, SnapType, StartLoopType DEF SubmitRequest, Procs, Phase
    <2>3. Create(row[i]) \in Row
      BY <2>1, RowOps, Witnesses DEF RowsOK
    <2>4. RowsOK'
      BY <2>1, <2>3 DEF SubmitRequest, RowsOK
    <2>5. QED
      BY <2>1, <2>2, <2>4 DEF SubmitRequest, ChainOK, EnvOK, chain, env
  <1>3. CASE \E c \in Clients, i \in Items : AdminRetry(c, i)
    <2>1. LocalOK'
      BY <1>3, SnapType, StartLoopType DEF AdminRetry, Procs, Phase
    <2>2. QED
      BY <1>3, <2>1 DEF AdminRetry, RowsOK, ChainOK, EnvOK, chain
  <1>4. CASE \E c \in Clients : AdminRetryAll(c)
    <2>1. ListByStatus("failed") \in SUBSET Snapshot
      BY SnapType DEF ListByStatus
    <2>2. LocalOK'
      BY <1>4, <2>1, StartLoopType DEF AdminRetryAll, Procs, Phase
    <2>3. QED
      BY <1>4, <2>2 DEF AdminRetryAll, RowsOK, ChainOK, EnvOK, chain
  <1>5. CASE \E a \in Admins : AdminRead(a)
    BY <1>5 DEF AdminRead, AdminRequest, LocalOK, RowsOK, ChainOK, EnvOK, local, chain
  <1>6. CASE \E a \in Admins : AdminWrite(a)
    <2>1. PICK a \in Admins : AdminWrite(a)
      BY <1>6
    <2>2. PICK i \in adm[a].ids :
            /\ row' = [row EXCEPT ![i] = IF adm[a].op = "markDead"
                                           THEN MarkDead(@)
                                           ELSE UpdateStatus(@, "pending")]
            /\ adm' = [adm EXCEPT ![a].ids = @ \ {i}]
      BY <2>1 DEF AdminWrite
    <2>3. i \in Items /\ "pending" \in Status
      BY <2>1 DEF EnvOK, AdminRequest, Status
    <2>4. MarkDead(row[i]) \in Row /\ UpdateStatus(row[i], "pending") \in Row
      BY <2>3, RowOps, Witnesses DEF RowsOK
    <2>5. RowsOK'
      BY <2>2, <2>3, <2>4 DEF RowsOK
    <2>6. EnvOK'
      <3>1. adm[a] \in AdminRequest
        BY DEF EnvOK
      <3>2. [adm[a] EXCEPT !.ids = @ \ {i}] \in AdminRequest
        BY <3>1 DEF AdminRequest
      <3>3. QED
        BY <2>1, <2>2, <3>2 DEF AdminWrite, EnvOK
    <2>7. QED
      BY <2>1, <2>5, <2>6 DEF AdminWrite, LocalOK, ChainOK, local, chain
  <1>7. CASE \E i \in Items : Enqueue(i) \/ ClaimAges(i)
    <2>1. PICK i \in Items : Enqueue(i) \/ ClaimAges(i)
      BY <1>7
    <2>2. Create(row[i]) \in Row /\ [row[i] EXCEPT !.claim = "stale"] \in Row
      <3>1. row[i] \in Row
        BY <2>1 DEF RowsOK
      <3>2. Create(row[i]) \in Row
        BY <3>1, RowOps, Witnesses
      <3>3. [row[i] EXCEPT !.claim = "stale"] \in Row
        BY <3>1 DEF Row, Claim
      <3>4. QED
        BY <3>2, <3>3
    <2>3. RowsOK'
      BY <2>1, <2>2 DEF Enqueue, ClaimAges, RowsOK
    <2>4. QED
      BY <2>1, <2>3 DEF Enqueue, ClaimAges, LocalOK, ChainOK, EnvOK, local, chain, env
  <1>8. CASE \E i \in Items, n \in TxNo : Decide(i, n)
    BY <1>8 DEF Decide, LocalOK, RowsOK, ChainOK, EnvOK, TxState, local, env
  <1>9. QED
    BY <1>1, <1>2, <1>3, <1>4, <1>5, <1>6, <1>7, <1>8

LEMMA TypeInit == Init => TypeOK
  BY MaxTxAssumption, OutboxAssumption
  DEF Init, TypeOK, Row, NoRow, Status, Claim, Hash, TxNo, PC, Phase, Snapshot, NoSnap,
      TxState, AdminRequest, Busy, Sending

\* The variables keep their types in every behaviour.
THEOREM TypeCorrect == Spec => []TypeOK
  <1>1. Init => TypeOK
    BY TypeInit
  <1>2. TypeOK /\ [Next]_vars => TypeOK'
    <2>1. TypeOK /\ Next => TypeOK'
      BY RunType, SendType, OtherType DEF Next
    <2>2. TypeOK /\ UNCHANGED vars => TypeOK'
      BY DEF vars, TypeOK
    <2>3. QED
      BY <2>1, <2>2
  <1>3. QED
    BY <1>1, <1>2, PTL DEF Spec

-----------------------------------------------------------------------------
(* A SENT row has a receipt, when no reply to sendTransaction is lost.     *)

\* A step that neither touches the chain nor brings a process to a broadcast.
Quiet ==
  /\ UNCHANGED chain
  /\ \A w \in Procs : pc'[w] = "broadcast" =>
       pc[w] = "broadcast" /\ cur'[w] = cur[w] /\ txno'[w] = txno[w]

ChainStep ==
  \/ \E w \in Procs : Build(w) \/ Broadcast(w) \/ BroadcastFails(w)
  \/ \E i \in Items, n \in TxNo : Decide(i, n)

\* Every other step is quiet.
LEMMA QuietSteps ==
  ASSUME TypeOK, LostReplies = FALSE, Next
  PROVE  Quiet \/ ChainStep
  <1> USE DEF Quiet
  <1> USE TypeParts DEF LocalOK
  <1>1. ASSUME NEW w \in Workers, Run(w)  PROVE Quiet
    <2>1. w \in Procs
      BY DEF Procs
    <2>2. CASE ClaimPending(w) \/ ListConfirming(w) \/ ListFailed(w)
      BY <2>1, <2>2 DEF ClaimPending, ListConfirming, ListFailed, StartLoop, Goto, chain
    <2>3. CASE SkipNotDue(w) \/ PromoteExhausted(w)
      BY <2>1, <2>3 DEF SkipNotDue, PromoteExhausted, Skip, chain
    <2>4. CASE PickToConfirm(w)
      BY <2>1, <2>4 DEF PickToConfirm, Skip, Goto, chain
    <2>5. CASE CheckConfirmation(w)
      BY <2>1, <2>5 DEF CheckConfirmation, DepthTest, NextItem, Goto, local, chain
    <2>6. QED
      BY <1>1, <2>2, <2>3, <2>4, <2>5 DEF Run
  <1>2. ASSUME NEW w \in Procs, Send(w)  PROVE Quiet \/ ChainStep
    <2>1. CASE EndOfRun(w) \/ PickToSend(w)
      BY <2>1 DEF EndOfRun, PickToSend, StartSend, SendEntry, Goto, chain
    <2>2. CASE Build(w) \/ Broadcast(w) \/ BroadcastFails(w) \/ BroadcastReplyLost(w)
      BY <2>2 DEF ChainStep, BroadcastReplyLost
    <2>3. CASE BuildFails(w) \/ AwaitSuccess(w) \/ AwaitFailure(w) \/ Reopen(w)
      BY <2>3 DEF BuildFails, AwaitSuccess, AwaitFailure, Reopen, Goto, local, chain
    <2>4. CASE Resolve(w) \/ MarkSent(w) \/ MarkFailed(w) \/ GiveUp(w)
               \/ MarkConfirmingStep(w) \/ ClearHash(w) \/ Requeue(w) \/ ScheduleRetry(w)
      BY <2>4 DEF Resolve, MarkSent, MarkFailed, GiveUp, MarkConfirmingStep, ClearHash,
                  Requeue, ScheduleRetry, SendReturnsFalse, NextItem, Goto, local, chain
    <2>5. QED
      BY <1>2, <2>1, <2>2, <2>3, <2>4 DEF Send
  <1>3. ASSUME NEW w \in Procs, Crash(w)  PROVE Quiet
    BY <1>3 DEF Crash, Goto, chain
  <1>4. ASSUME NEW c \in Clients, NEW i \in Items, SubmitRequest(c, i) \/ AdminRetry(c, i)
        PROVE  Quiet
    BY <1>4 DEF SubmitRequest, AdminRetry, StartLoop, Goto, Procs, chain
  <1>5. ASSUME NEW c \in Clients, AdminRetryAll(c)  PROVE Quiet
    BY <1>5 DEF AdminRetryAll, StartLoop, Goto, Procs, chain
  <1>6. ASSUME NEW a \in Admins, AdminRead(a) \/ AdminWrite(a)  PROVE Quiet
    BY <1>6 DEF AdminRead, AdminWrite, local, chain
  <1>7. ASSUME NEW i \in Items, Enqueue(i) \/ ClaimAges(i)  PROVE Quiet
    BY <1>7 DEF Enqueue, ClaimAges, local, chain
  <1>8. QED
    BY <1>1, <1>2, <1>3, <1>4, <1>5, <1>6, <1>7 DEF Next, ChainStep

RecordedStays == \A i \in Items : Recorded(i) => Recorded(i)'

\* Transactions stay owned by their builders, and no step undoes a receipt.
LEMMA ChainInductive ==
  ASSUME TypeOK, TxFresh, OwnTx, LostReplies = FALSE, [Next]_vars
  PROVE  TxFresh' /\ OwnTx' /\ RecordedStays
  <1> USE TypeParts, MaxTxAssumption DEF ChainOK, LocalOK
  <1>1. CASE Quiet
    BY <1>1 DEF Quiet, TxFresh, OwnTx, OwnsTx, RecordedStays, Recorded, chain
  <1>2. ASSUME NEW w \in Procs, Build(w)
        PROVE  TxFresh' /\ OwnTx' /\ RecordedStays
    <2> DEFINE i == cur[w].id
               n == built[i] + 1
    <2>1. i \in Items
      BY <1>2, MineType DEF Build, Busy, PC
    <2>2. /\ built[i] \in Nat /\ n \in TxNo /\ tx[i][n] = "none"
          /\ built' = [built EXCEPT ![i] = n]
          /\ tx' = [tx EXCEPT ![i][n] = "built"]
      BY <1>2, <2>1 DEF Build, Hash, TxNo, TxFresh
    <2>3. /\ pc' = [pc EXCEPT ![w] = "broadcast"]
          /\ cur' = cur /\ txno' = [txno EXCEPT ![w] = n]
      BY <1>2 DEF Build, Goto
    <2>4. TxFresh'
      BY <2>1, <2>2 DEF TxFresh, Hash, TxNo
    <2>5. RecordedStays
      BY <2>1, <2>2 DEF RecordedStays, Recorded
    <2>6. ASSUME NEW v \in Procs, pc'[v] = "broadcast"  PROVE OwnsTx(v)'
      <3>1. CASE v = w
        BY <2>1, <2>2, <2>3, <3>1 DEF OwnsTx
      <3>2. CASE v # w
        <4>1. OwnsTx(v) /\ cur[v].id \in Items /\ txno[v] \in TxNo
          BY <2>3, <2>6, <3>2, MineType DEF OwnTx, Busy, PC, Sending
        <4>2. QED
          BY <2>1, <2>2, <2>3, <3>2, <4>1 DEF OwnsTx, Hash, TxNo
      <3>3. QED
        BY <3>1, <3>2
    <2>7. ASSUME NEW v \in Procs, v # w, pc[v] = "broadcast", cur[v].id = i
          PROVE  txno[v] # n
      BY <2>1, <2>2, <2>7 DEF OwnTx, OwnsTx, Hash, TxNo
    <2>8. OwnTx'
      BY <2>3, <2>6, <2>7 DEF OwnTx
    <2>9. QED
      BY <2>4, <2>5, <2>8
  <1>3. ASSUME NEW w \in Procs, Broadcast(w) \/ BroadcastFails(w)
        PROVE  TxFresh' /\ OwnTx' /\ RecordedStays
    <2> DEFINE i == cur[w].id
               n == txno[w]
    <2>1. /\ i \in Items /\ n \in TxNo /\ pc[w] = "broadcast"
          /\ built[i] \in Nat /\ n <= built[i] /\ tx[i][n] = "built"
      BY <1>3, MineType DEF Broadcast, BroadcastFails, OwnTx, OwnsTx, Busy, Sending, PC, Hash
    <2>2. PICK st \in {"pending", "dropped"} : tx' = [tx EXCEPT ![i][n] = st]
      BY <1>3 DEF Broadcast, BroadcastFails, SetTx
    <2>3. /\ built' = built /\ cur' = cur /\ txno' = txno
          /\ pc'[w] # "broadcast" /\ \A v \in Procs : v # w => pc'[v] = pc[v]
      BY <1>3 DEF Broadcast, BroadcastFails, Goto, local
    <2>4. TxFresh'
      BY <2>1, <2>2, <2>3 DEF TxFresh, TxNo
    <2>5. RecordedStays
      BY <2>1, <2>2 DEF RecordedStays, Recorded
    <2>6. ASSUME NEW v \in Procs, pc'[v] = "broadcast"  PROVE OwnsTx(v)'
      <3>1. v # w /\ OwnsTx(v) /\ (cur[v].id = i => txno[v] # n)
        BY <2>1, <2>3, <2>6 DEF OwnTx
      <3>2. cur[v].id \in Items /\ txno[v] \in TxNo
        BY <2>3, <2>6, <3>1, MineType DEF Busy, Sending, PC
      <3>3. QED
        BY <2>1, <2>2, <2>3, <3>1, <3>2 DEF OwnsTx
    <2>7. OwnTx'
      BY <2>3, <2>6 DEF OwnTx
    <2>8. QED
      BY <2>4, <2>5, <2>7
  <1>4. ASSUME NEW i \in Items, NEW n \in TxNo, Decide(i, n)
        PROVE  TxFresh' /\ OwnTx' /\ RecordedStays
    <2>1. PICK st \in {"success", "dup", "failed", "dropped"} :
            tx' = [tx EXCEPT ![i][n] = st]
      BY <1>4 DEF Decide
    <2>2. tx[i][n] = "pending" /\ built' = built /\ pc' = pc /\ cur' = cur /\ txno' = txno
      BY <1>4 DEF Decide, local
    <2>3. TxFresh'
      BY <2>1, <2>2 DEF TxFresh
    <2>4. RecordedStays
      BY <2>1, <2>2 DEF RecordedStays, Recorded
    <2>5. \A v \in Procs : pc[v] = "broadcast" => OwnsTx(v)'
      <3>1. SUFFICES ASSUME NEW v \in Procs, pc[v] = "broadcast"  PROVE OwnsTx(v)'
        OBVIOUS
      <3>2. OwnsTx(v) /\ cur[v].id \in Items /\ txno[v] \in TxNo
        BY <3>1, MineType DEF OwnTx, Busy, Sending, PC
      <3>3. QED
        BY <2>1, <2>2, <3>2 DEF OwnsTx
    <2>6. OwnTx'
      BY <2>2, <2>5 DEF OwnTx
    <2>7. QED
      BY <2>3, <2>4, <2>6
  <1>5. CASE UNCHANGED vars
    BY <1>5 DEF vars, TxFresh, OwnTx, OwnsTx, RecordedStays, Recorded
  <1>6. QED
    BY <1>1, <1>2, <1>3, <1>4, <1>5, QuietSteps DEF ChainStep

\* What the invariants ask of one row, given whether its receipt is recorded.
RowGood(r, recorded) ==
  /\ r.status = "sent" => recorded
  /\ r.status = "confirming" => r.ledger # 0
  /\ r.claim # "none" => r.status \in {"pending", "dead"}

LEMMA RowGoodAll ==
  SentHasReceipt /\ ConfirmingKnowsLedger /\ ClaimOnlyOnOpenRow
    <=> \A i \in Items : RowGood(row[i], Recorded(i))
  BY DEF SentHasReceipt, ConfirmingKnowsLedger, ClaimOnlyOnOpenRow, RowGood

\* The store statements keep it, SENT written for a recorded item and
\* CONFIRMING with a hash.
LEMMA RowGoodOps ==
  ASSUME NEW r \in Row, NEW recorded \in BOOLEAN, RowGood(r, recorded), NEW n \in Hash
  PROVE  /\ RowGood(Create(r), recorded)
         /\ \A s \in {"failed", "pending"} : RowGood(UpdateStatus(r, s), recorded)
         /\ recorded => RowGood(UpdateStatus(r, "sent"), recorded)
         /\ RowGood(MarkDead(r), recorded) /\ RowGood(MoveToDeadLetter(r), recorded)
         /\ Claimable(r) => RowGood(LockForProcessing(r), recorded)
         /\ RowGood(PersistSubmittedTxHash(r, n), recorded)
         /\ n # 0 => RowGood(MarkConfirming(r, n), recorded)
         /\ RowGood(ReopenItem(r), recorded)
         /\ r.claim = "fresh" => RowGood([r EXCEPT !.claim = "stale"], recorded)
  <1> USE DEF RowGood, Row
  <1>1. RowGood(Create(r), recorded)
    BY DEF Create
  <1>2. /\ \A s \in {"failed", "pending"} : RowGood(UpdateStatus(r, s), recorded)
        /\ recorded => RowGood(UpdateStatus(r, "sent"), recorded)
    BY DEF UpdateStatus
  <1>3. RowGood(MarkDead(r), recorded) /\ RowGood(MoveToDeadLetter(r), recorded)
    BY DEF MarkDead, MoveToDeadLetter
  <1>4. /\ Claimable(r) => RowGood(LockForProcessing(r), recorded)
        /\ RowGood(PersistSubmittedTxHash(r, n), recorded)
    BY DEF Claimable, LockForProcessing, PersistSubmittedTxHash
  <1>5. /\ n # 0 => RowGood(MarkConfirming(r, n), recorded)
        /\ RowGood(ReopenItem(r), recorded)
    BY DEF MarkConfirming, ReopenItem
  <1>6. r.claim = "fresh" => RowGood([r EXCEPT !.claim = "stale"], recorded)
    OBVIOUS
  <1>7. QED
    BY <1>1, <1>2, <1>3, <1>4, <1>5, <1>6

\* A step that leaves the table alone, or rewrites rows of one item into good
\* ones, keeps all rows good.
LEMMA RowGoodStep ==
  ASSUME TypeOK, \A i \in Items : RowGood(row[i], Recorded(i)), RecordedStays,
         \/ row' = row
         \/ \E i \in Items : \E r : row' = [row EXCEPT ![i] = r] /\ RowGood(r, Recorded(i))
  PROVE  \A i \in Items : RowGood(row'[i], Recorded(i)')
  BY DEF TypeOK, RowGood, RecordedStays

\* A process queries the chain for a hash, and writes SENT of an item with a
\* receipt; the steps of w leave the other processes alone.
ControlGood(w) ==
  /\ pc[w] \in {"resolve", "check", "markConfirming"} => cur[w].hash # 0
  /\ pc[w] = "markSent" => Recorded(cur[w].id)

LEMMA ControlGoodAll == QueriesHash /\ SentIsJustified <=> \A w \in Procs : ControlGood(w)
  BY DEF QueriesHash, SentIsJustified, ControlGood

LEMMA ControlGoodStep ==
  ASSUME TypeOK, \A v \in Procs : ControlGood(v), RecordedStays,
         NEW w \in Procs, ControlGood(w)',
         \A v \in Procs : v # w => pc'[v] = pc[v] /\ cur'[v] = cur[v]
  PROVE  \A v \in Procs : ControlGood(v)'
  <1>1. ASSUME NEW v \in Procs, v # w  PROVE ControlGood(v)'
    <2>1. ControlGood(v) /\ pc'[v] = pc[v] /\ cur'[v] = cur[v]
      BY <1>1
    <2>2. pc[v] = "markSent" => cur[v].id \in Items
      BY <1>1, MineType, TypeParts DEF Busy, PC
    <2>3. QED
      BY <2>1, <2>2 DEF ControlGood, RecordedStays, Recorded
  <1>2. QED
    BY <1>1

AllRowsGood == \A i \in Items : RowGood(row[i], Recorded(i))
AllControlGood == \A w \in Procs : ControlGood(w)

\* A step of a run keeps rows and processes good.
LEMMA RunGood ==
  ASSUME TypeOK, AllRowsGood, AllControlGood, RecordedStays, NEW w \in Workers, Run(w)
  PROVE  AllRowsGood' /\ AllControlGood'
  <1> USE TypeParts DEF AllRowsGood, AllControlGood
  <1>0. w \in Procs
    BY DEF Procs
  <1>1. CASE ClaimPending(w)
    <2>1. \A i \in Items : Claimable(row[i]) =>
            RowGood(LockForProcessing(row[i]), Recorded(i))
      BY RowGoodOps, Witnesses DEF RowsOK, Recorded
    <2>2. AllRowsGood'
      BY <1>1, <2>1 DEF ClaimPending, RowsOK, RowGood, RecordedStays
    <2>3. AllControlGood'
      BY <1>0, <1>1, ControlGoodStep DEF ClaimPending, StartLoop, Goto, ControlGood, LocalOK
    <2>4. QED
      BY <2>2, <2>3
  <1>2. CASE ListConfirming(w) \/ ListFailed(w) \/ SkipNotDue(w)
    <2>1. AllControlGood'
      BY <1>0, <1>2, ControlGoodStep
         DEF ListConfirming, ListFailed, SkipNotDue, StartLoop, Skip, Goto, ControlGood, LocalOK
    <2>2. QED
      BY <1>2, <2>1, RowGoodStep DEF ListConfirming, ListFailed, SkipNotDue
  <1>3. CASE PromoteExhausted(w)
    <2>1. PICK s \in batch[w] :
            row' = [row EXCEPT ![s.id] = MoveToDeadLetter(@)] /\ Skip(w, s)
      BY <1>3 DEF PromoteExhausted
    <2>2. s.id \in Items
      BY <1>0 DEF LocalOK, Snapshot
    <2>3. RowGood(MoveToDeadLetter(row[s.id]), Recorded(s.id))
      BY <2>2, RowGoodOps, Witnesses DEF RowsOK, Recorded
    <2>4. AllRowsGood'
      BY <2>1, <2>2, <2>3, RowGoodStep
    <2>5. AllControlGood'
      BY <1>0, <1>3, <2>1, ControlGoodStep DEF PromoteExhausted, Skip, ControlGood
    <2>6. QED
      BY <2>4, <2>5
  <1>4. CASE PickToConfirm(w)
    <2>1. ControlGood(w)'
      <3>1. PICK s \in batch[w] :
              \/ Skip(w, s)
              \/ s.hash # 0 /\ Goto(w, "check") /\ cur' = [cur EXCEPT ![w] = s]
        BY <1>4 DEF PickToConfirm
      <3>2. pc[w] = "loop"
        BY <1>4 DEF PickToConfirm
      <3>3. QED
        BY <1>0, <3>1, <3>2 DEF Skip, Goto, ControlGood, LocalOK
    <2>2. AllControlGood'
      BY <1>0, <1>4, <2>1, ControlGoodStep DEF PickToConfirm, Skip, Goto, LocalOK
    <2>3. QED
      BY <1>4, <2>2, RowGoodStep DEF PickToConfirm
  <1>5. CASE CheckConfirmation(w)
    <2> DEFINE s == cur[w]
    <2>1. pc[w] = "check" /\ s.id \in Items /\ s.hash \in TxNo
      BY <1>0, <1>5, MineType DEF CheckConfirmation, Busy, PC, ControlGood, Hash, TxNo
    <2>2. PICK answer \in Lookup(s.id, s.hash), next \in {"markSent", "markConfirming", "loop", "reopen"} :
            /\ next = "markSent" => answer = "success"
            /\ IF next = "loop" THEN NextItem(w) ELSE Goto(w, next) /\ UNCHANGED local
      BY <1>5 DEF CheckConfirmation, DepthTest
    <2>3. next = "markSent" => Recorded(s.id)
      <3>1. answer = "success" => tx[s.id][s.hash] = "success"
        BY <2>2 DEF Lookup
      <3>2. QED
        BY <2>1, <2>2, <3>1 DEF Recorded
    <2>4. ControlGood(w)'
      BY <1>0, <2>1, <2>2, <2>3
         DEF NextItem, Goto, local, ControlGood, LocalOK, RecordedStays
    <2>5. AllControlGood'
      BY <1>0, <2>2, <2>4, ControlGoodStep DEF NextItem, Goto, local, LocalOK
    <2>6. QED
      BY <1>5, <2>5, RowGoodStep DEF CheckConfirmation
  <1>6. QED
    BY <1>1, <1>2, <1>3, <1>4, <1>5 DEF Run

\* A step of the sender keeps rows and processes good.
LEMMA SendGood ==
  ASSUME TypeOK, AllRowsGood, AllControlGood, RecordedStays, LostReplies = FALSE,
         NEW w \in Procs, Send(w)
  PROVE  AllRowsGood' /\ AllControlGood'
  <1> USE TypeParts DEF AllRowsGood, AllControlGood
  <1>1. CASE EndOfRun(w)
    <2>1. AllControlGood'
      BY <1>1, ControlGoodStep DEF EndOfRun, Goto, ControlGood, LocalOK
    <2>2. QED
      BY <1>1, <2>1, RowGoodStep DEF EndOfRun
  <1>2. CASE PickToSend(w)
    <2>1. PICK s \in batch[w] : StartSend(w, s)
      BY <1>2 DEF PickToSend
    <2>2. ControlGood(w)'
      BY <2>1 DEF StartSend, SendEntry, Goto, ControlGood, LocalOK
    <2>3. AllControlGood'
      BY <2>1, <2>2, ControlGoodStep DEF StartSend, Goto, LocalOK
    <2>4. QED
      BY <1>2, <2>3, RowGoodStep DEF PickToSend
  <1>3. CASE Resolve(w) \/ GiveUp(w)
    <2>1. pc[w] = "resolve" => cur[w].hash # 0
      BY DEF ControlGood
    <2>2. ControlGood(w)'
      BY <1>3, <2>1 DEF Resolve, GiveUp, SendReturnsFalse, NextItem, Goto, local,
                        ControlGood, LocalOK
    <2>3. AllControlGood'
      BY <1>3, <2>2, ControlGoodStep DEF Resolve, GiveUp, SendReturnsFalse, NextItem, Goto,
                                         local, LocalOK
    <2>4. QED
      BY <1>3, <2>3, RowGoodStep DEF Resolve, GiveUp
  <1>4. CASE Build(w)
    <2> DEFINE n == built[cur[w].id] + 1
    <2>1. cur[w].id \in Items /\ Mine(w) \in Row
      BY <1>4, MineType DEF Build, Busy, PC
    <2>2. n \in Hash
      BY <1>4, <2>1, MaxTxAssumption DEF Build, ChainOK, Hash
    <2>3. RowGood(PersistSubmittedTxHash(Mine(w), n), Recorded(cur[w].id))
      BY <2>1, <2>2, RowGoodOps DEF Mine, Recorded
    <2>4. AllRowsGood'
      BY <1>4, <2>1, <2>3, RowGoodStep DEF Build, WriteRow
    <2>5. AllControlGood'
      BY <1>4, ControlGoodStep DEF Build, Goto, ControlGood, LocalOK
    <2>6. QED
      BY <2>4, <2>5
  <1>5. CASE BuildFails(w) \/ Broadcast(w) \/ BroadcastFails(w) \/ AwaitFailure(w)
    <2>1. AllControlGood'
      BY <1>5, ControlGoodStep DEF BuildFails, Broadcast, BroadcastFails, AwaitFailure, Goto,
                                   local, ControlGood, LocalOK
    <2>2. QED
      BY <1>5, <2>1, RowGoodStep DEF BuildFails, Broadcast, BroadcastFails, AwaitFailure
  <1>6. CASE AwaitSuccess(w)
    <2>1. cur[w].id \in Items /\ txno[w] \in TxNo /\ tx[cur[w].id][txno[w]] = "success"
      BY <1>6, MineType DEF AwaitSuccess, LocalOK, Busy, Sending, PC
    <2>2. Recorded(cur[w].id)
      BY <2>1 DEF Recorded
    <2>3. ControlGood(w)'
      BY <1>6, <2>1, <2>2 DEF AwaitSuccess, Goto, local, ControlGood, LocalOK, RecordedStays
    <2>4. AllControlGood'
      BY <1>6, <2>3, ControlGoodStep DEF AwaitSuccess, Goto, local, LocalOK
    <2>5. QED
      BY <1>6, <2>4, RowGoodStep DEF AwaitSuccess
  <1>7. CASE \/ MarkSent(w) \/ MarkFailed(w) \/ MarkConfirmingStep(w) \/ ClearHash(w)
             \/ Reopen(w) \/ Requeue(w) \/ ScheduleRetry(w)
    <2>1. cur[w].id \in Items /\ cur[w].hash \in Hash /\ Mine(w) \in Row
      BY <1>7, MineType DEF MarkSent, MarkFailed, MarkConfirmingStep, ClearHash, Reopen,
                            Requeue, ScheduleRetry, Busy, PC
    <2> DEFINE recorded == Recorded(cur[w].id)
    <2>2. recorded \in BOOLEAN /\ RowGood(Mine(w), recorded)
      BY <2>1 DEF Mine, Recorded
    <2>3. PICK r : row' = [row EXCEPT ![cur[w].id] = r] /\ RowGood(r, recorded)
      <3>1. /\ pc[w] = "markSent" => recorded
            /\ pc[w] = "markConfirming" => cur[w].hash # 0
        BY DEF ControlGood
      <3>2. /\ \A s \in {"failed", "pending"} : RowGood(UpdateStatus(Mine(w), s), recorded)
            /\ recorded => RowGood(UpdateStatus(Mine(w), "sent"), recorded)
            /\ RowGood(MoveToDeadLetter(Mine(w)), recorded)
            /\ RowGood(PersistSubmittedTxHash(Mine(w), 0), recorded)
            /\ cur[w].hash # 0 => RowGood(MarkConfirming(Mine(w), cur[w].hash), recorded)
            /\ RowGood(ReopenItem(Mine(w)), recorded)
        <4>1. ASSUME NEW n \in Hash
              PROVE  /\ \A s \in {"failed", "pending"} : RowGood(UpdateStatus(Mine(w), s), recorded)
                     /\ recorded => RowGood(UpdateStatus(Mine(w), "sent"), recorded)
                     /\ RowGood(MoveToDeadLetter(Mine(w)), recorded)
                     /\ RowGood(PersistSubmittedTxHash(Mine(w), n), recorded)
                     /\ n # 0 => RowGood(MarkConfirming(Mine(w), n), recorded)
                     /\ RowGood(ReopenItem(Mine(w)), recorded)
          BY <2>1, <2>2, RowGoodOps
        <4>2. QED
          BY <2>1, <4>1, Witnesses
      <3>3. CASE MarkSent(w) \/ MarkFailed(w) \/ ClearHash(w) \/ Requeue(w)
        BY <3>1, <3>2, <3>3 DEF MarkSent, MarkFailed, ClearHash, Requeue, WriteRow
      <3>4. CASE MarkConfirmingStep(w) \/ Reopen(w)
        BY <3>1, <3>2, <3>4 DEF MarkConfirmingStep, Reopen, WriteRow
      <3>5. CASE ScheduleRetry(w)
        BY <3>2, <3>5 DEF ScheduleRetry, WriteRow
      <3>6. QED
        BY <1>7, <3>3, <3>4, <3>5
    <2>4. AllRowsGood'
      BY <2>1, <2>3, RowGoodStep
    <2>5. AllControlGood'
      BY <1>7, ControlGoodStep
         DEF MarkSent, MarkFailed, MarkConfirmingStep, ClearHash, Reopen, Requeue,
             ScheduleRetry, SendReturnsFalse, NextItem, Goto, local, ControlGood, LocalOK
    <2>6. QED
      BY <2>4, <2>5
  <1>8. QED
    BY <1>1, <1>2, <1>3, <1>4, <1>5, <1>6, <1>7 DEF Send, BroadcastReplyLost

\* A step of handlers, admin routes, time and the network keeps rows and
\* processes good.
LEMMA OtherGood ==
  ASSUME TypeOK, AllRowsGood, AllControlGood, RecordedStays,
         \/ \E w \in Procs : Crash(w)
         \/ \E c \in Clients, i \in Items : SubmitRequest(c, i) \/ AdminRetry(c, i)
         \/ \E c \in Clients : AdminRetryAll(c)
         \/ \E a \in Admins : AdminRead(a) \/ AdminWrite(a)
         \/ \E i \in Items : Enqueue(i) \/ ClaimAges(i)
         \/ \E i \in Items, n \in TxNo : Decide(i, n)
  PROVE  AllRowsGood' /\ AllControlGood'
  <1> USE TypeParts DEF AllRowsGood, AllControlGood
  <1>1. ASSUME NEW w \in Procs, Crash(w)
        PROVE  AllRowsGood' /\ AllControlGood'
    <2>1. AllControlGood'
      BY <1>1, ControlGoodStep DEF Crash, Goto, ControlGood, LocalOK
    <2>2. QED
      BY <1>1, <2>1, RowGoodStep DEF Crash
  <1>2. ASSUME NEW c \in Clients,
               \/ \E i \in Items : SubmitRequest(c, i) \/ AdminRetry(c, i)
               \/ AdminRetryAll(c)
        PROVE  AllRowsGood' /\ AllControlGood'
    <2>1. c \in Procs
      BY DEF Procs
    <2>2. ASSUME NEW i \in Items  PROVE RowGood(Create(row[i]), Recorded(i))
      BY RowGoodOps, Witnesses DEF RowsOK, Recorded
    <2>3. AllRowsGood'
      BY <1>2, <2>2, RowGoodStep DEF SubmitRequest, AdminRetry, AdminRetryAll
    <2>4. AllControlGood'
      BY <1>2, <2>1, ControlGoodStep
         DEF SubmitRequest, AdminRetry, AdminRetryAll, StartLoop, Goto, ControlGood, LocalOK
    <2>5. QED
      BY <2>3, <2>4
  <1>3. ASSUME NEW a \in Admins, AdminRead(a)
        PROVE  AllRowsGood' /\ AllControlGood'
    BY <1>3, RowGoodStep DEF AdminRead, ControlGood, Recorded, local, chain
  <1>4. ASSUME NEW a \in Admins, AdminWrite(a)
        PROVE  AllRowsGood' /\ AllControlGood'
    <2>1. PICK i \in adm[a].ids :
            row' = [row EXCEPT ![i] = IF adm[a].op = "markDead"
                                        THEN MarkDead(@)
                                        ELSE UpdateStatus(@, "pending")]
      BY <1>4 DEF AdminWrite
    <2>2. i \in Items
      BY DEF EnvOK, AdminRequest
    <2>3. /\ RowGood(MarkDead(row[i]), Recorded(i))
          /\ RowGood(UpdateStatus(row[i], "pending"), Recorded(i))
      BY <2>2, RowGoodOps, Witnesses DEF RowsOK, Recorded
    <2>4. AllRowsGood'
      BY <2>1, <2>2, <2>3, RowGoodStep
    <2>5. QED
      BY <1>4, <2>4 DEF AdminWrite, ControlGood, Recorded, local, chain
  <1>5. ASSUME NEW i \in Items, Enqueue(i) \/ ClaimAges(i)
        PROVE  AllRowsGood' /\ AllControlGood'
    <2>1. /\ RowGood(Create(row[i]), Recorded(i))
          /\ row[i].claim = "fresh" =>
               RowGood([row[i] EXCEPT !.claim = "stale"], Recorded(i))
      BY RowGoodOps, Witnesses DEF RowsOK, Recorded
    <2>2. AllRowsGood'
      BY <1>5, <2>1, RowGoodStep DEF Enqueue, ClaimAges
    <2>3. QED
      BY <1>5, <2>2 DEF Enqueue, ClaimAges, ControlGood, Recorded, local, chain
  <1>6. ASSUME NEW i \in Items, NEW n \in TxNo, Decide(i, n)
        PROVE  AllRowsGood' /\ AllControlGood'
    <2>1. AllRowsGood'
      BY <1>6, RowGoodStep DEF Decide
    <2>2. ASSUME NEW v \in Procs  PROVE ControlGood(v)'
      <3>1. ControlGood(v) /\ (pc[v] = "markSent" => cur[v].id \in Items)
        BY MineType DEF Busy, PC
      <3>2. QED
        BY <1>6, <3>1 DEF Decide, local, ControlGood, RecordedStays, Recorded
    <2>3. QED
      BY <2>1, <2>2
  <1>7. QED
    BY <1>1, <1>2, <1>3, <1>4, <1>5, <1>6

\* ReceiptInv is inductive when no reply to sendTransaction is lost.
LEMMA ReceiptInductive ==
  ASSUME LostReplies = FALSE, ReceiptInv, [Next]_vars
  PROVE  ReceiptInv'
  <1>1. TypeOK /\ TxFresh /\ OwnTx /\ AllRowsGood /\ AllControlGood
    BY RowGoodAll, ControlGoodAll DEF ReceiptInv, AllRowsGood, AllControlGood
  <1>2. TypeOK'
    <2>1. CASE Next
      BY <1>1, <2>1, RunType, SendType, OtherType DEF Next
    <2>2. CASE UNCHANGED vars
      BY <1>1, <2>2 DEF vars, TypeOK
    <2>3. QED
      BY <2>1, <2>2
  <1>3. TxFresh' /\ OwnTx' /\ RecordedStays
    BY <1>1, ChainInductive
  <1>4. AllRowsGood' /\ AllControlGood'
    <2>1. CASE Next
      BY <1>1, <1>3, <2>1, RunGood, SendGood, OtherGood DEF Next
    <2>2. CASE UNCHANGED vars
      BY <1>1, <2>2 DEF vars, AllRowsGood, AllControlGood, ControlGood, Recorded
    <2>3. QED
      BY <2>1, <2>2
  <1>5. QED
    BY <1>2, <1>3, <1>4, RowGoodAll, ControlGoodAll
       DEF ReceiptInv, AllRowsGood, AllControlGood, RowGood, ControlGood,
           SentHasReceipt, ConfirmingKnowsLedger, ClaimOnlyOnOpenRow, QueriesHash,
           SentIsJustified

LEMMA ReceiptInit == Init => ReceiptInv
  <1>1. Init => TypeOK
    BY TypeInit
  <1>2. Init => TxFresh /\ OwnTx /\ QueriesHash /\ SentIsJustified
    BY DEF Init, TxFresh, OwnTx, QueriesHash, SentIsJustified
  <1>3. Init => SentHasReceipt /\ ConfirmingKnowsLedger /\ ClaimOnlyOnOpenRow
    BY DEF Init, NoRow, SentHasReceipt, ConfirmingKnowsLedger, ClaimOnlyOnOpenRow
  <1>4. QED
    BY <1>1, <1>2, <1>3 DEF ReceiptInv

\* With an RPC whose replies are not lost, every run, handler and admin keeps
\* what the rows, the transactions and the places of the control know of each
\* other: a hash belongs to its item, a place that writes SENT has seen the
\* transaction applied.
THEOREM ReceiptsAreJustified ==
  ASSUME LostReplies = FALSE
  PROVE  Spec => []ReceiptInv
  <1>1. ReceiptInv /\ [Next]_vars => ReceiptInv'
    BY ReceiptInductive
  <1>2. QED
    BY ReceiptInit, <1>1, PTL DEF Spec

\* With an RPC whose replies are not lost, in every behaviour a SENT row has a
\* receipt on the chain, a CONFIRMING row has a ledger to count from and a
\* claim is left only on a pending or dead row.
THEOREM ReceiptsAreRecorded ==
  ASSUME LostReplies = FALSE
  PROVE  Spec => [](SentHasReceipt /\ ConfirmingKnowsLedger /\ ClaimOnlyOnOpenRow)
  <1>1. ReceiptInv => SentHasReceipt /\ ConfirmingKnowsLedger /\ ClaimOnlyOnOpenRow
    BY DEF ReceiptInv
  <1>2. QED
    BY <1>1, ReceiptsAreJustified, PTL

-----------------------------------------------------------------------------
(* Claims exclude overlapping runs, when no run outlasts a claim and nobody *)
(* puts a row back to PENDING: the adapter is in a circuit breaker, so      *)
(* nothing is asked about a hash, and no admin request re-queues.           *)

ClaimAssumption == Timely /\ Bare = {} /\ Confirmers = {} /\ Admins = {}

\* A row that lockForProcessing does not select, and that exists.
Locked(r) == r.status # "absent" /\ (r.status = "pending" => r.claim = "fresh")

Querying == {"resolve", "check", "reopen", "requeue"}

\* Where a process is, and what it has under way there.
InLoop(w) ==
  /\ pc[w] \notin Querying
  /\ pc[w] \in {"idle", "loop"} => cur[w] = NoSnap

HeldIsLocked == \A w \in Workers, i \in Items : Holds(w, i) => Locked(row[i])

ClaimInv == (\A w \in Procs : InLoop(w)) /\ HeldIsLocked /\ Phase1Exclusive

\* A step of one process that takes up no row in phase 1.
Tame(w) ==
  /\ \A v \in Procs : v # w =>
       pc'[v] = pc[v] /\ phase'[v] = phase[v] /\ batch'[v] = batch[v] /\ cur'[v] = cur[v]
  /\ phase'[w] = "pending" =>
       /\ phase[w] = "pending" /\ batch'[w] \subseteq batch[w]
       /\ cur'[w] \in batch[w] \cup {cur[w], NoSnap}
  /\ InLoop(w)'

\* A step that opens no row.
RowsTame == \A i \in Items : Locked(row[i]) => Locked(row'[i])

LEMMA TameKeeps ==
  ASSUME ClaimInv, NEW w \in Procs, Tame(w), RowsTame
  PROVE  ClaimInv'
  <1>1. \A v \in Procs : InLoop(v)'
    BY DEF ClaimInv, Tame, InLoop
  <1>2. ASSUME NEW v \in Workers, NEW i \in Items, Holds(v, i)'  PROVE Holds(v, i)
    <2>1. v \in Procs /\ NoSnap.id # i
      BY OutboxAssumption DEF Procs, NoSnap
    <2>2. CASE v = w
      BY <1>2, <2>1, <2>2 DEF Tame, Holds
    <2>3. CASE v # w
      BY <1>2, <2>1, <2>3 DEF Tame, Holds
    <2>4. QED
      BY <2>2, <2>3
  <1>3. HeldIsLocked'
    BY <1>2 DEF ClaimInv, HeldIsLocked, RowsTame
  <1>4. Phase1Exclusive'
    BY <1>2 DEF ClaimInv, Phase1Exclusive
  <1>5. QED
    BY <1>1, <1>3, <1>4 DEF ClaimInv

\* What the store statements make of a locked row.
LEMMA LockedOps ==
  ASSUME NEW r \in Row, NEW n \in Hash
  PROVE  /\ Locked(LockForProcessing(r)) <=> r.status # "absent"
         /\ Locked(UpdateStatus(r, "sent")) /\ Locked(UpdateStatus(r, "failed"))
         /\ Locked(MoveToDeadLetter(r)) /\ Locked(MarkConfirming(r, n))
         /\ Locked(r) => Locked(Create(r)) /\ Locked(PersistSubmittedTxHash(r, n))
  <1> USE DEF Row, Locked
  <1>1. Locked(LockForProcessing(r)) <=> r.status # "absent"
    BY DEF LockForProcessing
  <1>2. Locked(UpdateStatus(r, "sent")) /\ Locked(UpdateStatus(r, "failed"))
    BY DEF UpdateStatus
  <1>3. Locked(MoveToDeadLetter(r)) /\ Locked(MarkConfirming(r, n))
    BY DEF MoveToDeadLetter, MarkConfirming
  <1>4. Locked(r) => Locked(Create(r)) /\ Locked(PersistSubmittedTxHash(r, n))
    BY DEF Create, PersistSubmittedTxHash
  <1>5. QED
    BY <1>1, <1>2, <1>3, <1>4

LEMMA WriteTame ==
  ASSUME TypeOK, NEW w \in Procs, pc[w] \in Busy, NEW r, WriteRow(w, r),
         Locked(Mine(w)) => Locked(r)
  PROVE  RowsTame
  BY DEF TypeOK, RowsTame, WriteRow, Mine, Snapshot

\* The steps within a process.
LEMMA GotoTame ==
  ASSUME TypeOK, NEW w \in Procs, NEW l \in Busy \ Querying, Goto(w, l), UNCHANGED local
  PROVE  Tame(w)
  BY DEF TypeOK, Goto, local, Tame, InLoop, Busy

LEMMA NextItemTame ==
  ASSUME TypeOK, NEW w \in Procs, NextItem(w)
  PROVE  Tame(w)
  BY DEF TypeOK, NextItem, Goto, Tame, InLoop, Querying

LEMMA SendReturnsTame ==
  ASSUME TypeOK, NEW w \in Procs, SendReturnsFalse(w)
  PROVE  Tame(w)
  <1>1. "schedule" \in Busy \ Querying
    BY DEF Busy, PC, Querying
  <1>2. QED
    BY <1>1, GotoTame, NextItemTame DEF SendReturnsFalse

LEMMA StartLoopTame ==
  ASSUME TypeOK, ClaimInv, NEW w \in Procs, pc[w] \in {"idle", "loop"},
         NEW ph \in Phase \ {"pending"}, NEW snaps, StartLoop(w, ph, snaps)
  PROVE  Tame(w)
  BY DEF TypeOK, ClaimInv, StartLoop, Goto, Tame, InLoop, Querying

LEMMA SkipTame ==
  ASSUME TypeOK, ClaimInv, NEW w \in Procs, NEW s, Skip(w, s)
  PROVE  Tame(w)
  BY DEF TypeOK, ClaimInv, Skip, Tame, InLoop

\* A run claims rows nobody holds: those that are held are locked.
LEMMA ClaimExcludes ==
  ASSUME TypeOK, ClaimInv, NEW w \in Workers, ClaimPending(w)
  PROVE  ClaimInv'
  <1> DEFINE claimed == {i \in Items : Claimable(row[i])}
  <1>1. /\ w \in Procs /\ cur[w] = NoSnap /\ pc[w] = "idle"
        /\ \A i \in Items : NoSnap.id # i
    BY OutboxAssumption DEF Procs, ClaimPending, ClaimInv, InLoop, NoSnap
  <1>2. /\ \A v \in Procs : v # w =>
             phase'[v] = phase[v] /\ batch'[v] = batch[v] /\ pc'[v] = pc[v]
        /\ batch'[w] = {Snap(i) : i \in claimed} /\ cur' = cur /\ pc'[w] = "loop"
    BY <1>1 DEF TypeOK, ClaimPending, StartLoop, Goto
  <1>3. \A v \in Procs : InLoop(v)'
    BY <1>1, <1>2 DEF ClaimInv, InLoop, Querying
  <1>4. ASSUME NEW i \in Items, Holds(w, i)'  PROVE Claimable(row[i])
    BY <1>1, <1>2, <1>4 DEF Holds, Snap
  <1>5. ASSUME NEW v \in Workers, v # w, NEW i \in Items, Holds(v, i)'
        PROVE  Holds(v, i) /\ Locked(row[i]) /\ ~Claimable(row[i])
    <2>1. v \in Procs
      BY DEF Procs
    <2>2. Holds(v, i)
      BY <1>2, <1>5, <2>1 DEF Holds
    <2>3. QED
      BY <2>2 DEF ClaimInv, HeldIsLocked, Locked, Claimable
  <1>6. Phase1Exclusive'
    BY <1>4, <1>5 DEF ClaimInv, Phase1Exclusive
  <1>7. HeldIsLocked'
    <2>1. SUFFICES ASSUME NEW v \in Workers, NEW i \in Items, Holds(v, i)'
                   PROVE  Locked(row[i])'
      BY DEF HeldIsLocked
    <2>2. row[i] \in Row /\ 0 \in Hash
      BY Witnesses DEF TypeOK
    <2>3. row'[i] = IF Claimable(row[i]) THEN LockForProcessing(row[i]) ELSE row[i]
      BY DEF ClaimPending
    <2>4. Claimable(row[i]) => row[i].status # "absent"
      BY DEF Claimable
    <2>5. Claimable(row[i]) \/ Locked(row[i])
      BY <1>4, <1>5, <2>1
    <2>6. Locked(row'[i])
      BY <2>2, <2>3, <2>4, <2>5, LockedOps
    <2>7. QED
      BY <2>6 DEF Locked
  <1>8. QED
    BY <1>3, <1>6, <1>7 DEF ClaimInv

\* The other steps of a run.
LEMMA RunTame ==
  ASSUME ClaimAssumption, TypeOK, ClaimInv, NEW w \in Workers, Run(w), ~ClaimPending(w)
  PROVE  Tame(w) /\ RowsTame
  <1>0. w \in Procs /\ pc[w] # "check"
    BY DEF Procs, ClaimInv, InLoop, Querying
  <1>1. CASE ListConfirming(w) \/ ListFailed(w)
    <2>1. PICK ph \in {"confirming", "failed"} : StartLoop(w, ph, ListByStatus(ph))
      BY <1>1 DEF ListConfirming, ListFailed
    <2>2. row' = row /\ pc[w] = "loop"
      BY <1>1 DEF ListConfirming, ListFailed, EndOfBatch
    <2>3. Tame(w)
      BY <1>0, <2>1, <2>2, StartLoopTame DEF Phase
    <2>4. QED
      BY <2>2, <2>3 DEF RowsTame
  <1>2. CASE SkipNotDue(w)
    BY <1>0, <1>2, SkipTame DEF SkipNotDue, RowsTame
  <1>3. CASE PromoteExhausted(w)
    <2>1. PICK s \in batch[w] : row' = [row EXCEPT ![s.id] = MoveToDeadLetter(@)] /\ Skip(w, s)
      BY <1>3 DEF PromoteExhausted
    <2>2. s.id \in Items /\ row[s.id] \in Row /\ 0 \in Hash
      BY <1>0, Witnesses DEF TypeOK, Snapshot
    <2>3. RowsTame
      BY <2>1, <2>2, LockedOps DEF TypeOK, RowsTame
    <2>4. QED
      BY <1>0, <2>1, <2>3, SkipTame
  <1>4. CASE PickToConfirm(w)
    <2>1. \E s \in batch[w] : Skip(w, s)
      BY <1>4 DEF PickToConfirm, ClaimAssumption
    <2>2. QED
      BY <1>0, <1>4, <2>1, SkipTame DEF PickToConfirm, RowsTame
  <1>5. QED
    BY <1>0, <1>1, <1>2, <1>3, <1>4 DEF Run, CheckConfirmation

\* The steps of send() and of the writes that end an attempt.
LEMMA SendTame ==
  ASSUME ClaimAssumption, TypeOK, ClaimInv, NEW w \in Procs, Send(w)
  PROVE  Tame(w) /\ RowsTame
  <1> DEFINE Local == {"giveUp", "build", "broadcast", "await", "markSent", "markFailed",
                       "schedule", "clearHash"}
  <1>0. pc[w] \notin Querying /\ Local \subseteq Busy \ Querying
    BY DEF ClaimInv, InLoop, Busy, PC, Querying
  <1>q. row' = row => RowsTame
    BY DEF RowsTame
  <1>m. pc[w] \in Busy => Mine(w) \in Row /\ cur[w].hash \in Hash /\ 0 \in Hash
    BY TypeParts, MineType, Witnesses
  <1>1. CASE EndOfRun(w)
    <2>1. pc[w] = "loop" /\ pc'[w] = "idle" /\ cur[w] = NoSnap
      BY <1>1 DEF EndOfRun, EndOfBatch, Goto, TypeOK, ClaimInv, InLoop
    <2>2. QED
      BY <1>1, <1>q, <2>1 DEF EndOfRun, Goto, TypeOK, Tame, InLoop, Querying
  <1>2. CASE PickToSend(w)
    <2>1. PICK s \in batch[w] : StartSend(w, s)
      BY <1>2 DEF PickToSend
    <2>2. SendEntry(w, s) \in {"clearHash", "giveUp", "build"}
      BY DEF SendEntry, ClaimAssumption
    <2>3. Tame(w)
      BY <2>1, <2>2 DEF StartSend, Goto, TypeOK, Tame, InLoop, Querying
    <2>4. QED
      BY <1>2, <1>q, <2>3 DEF PickToSend
  <1>3. CASE Build(w)
    <2>1. row' = row
      BY <1>3 DEF Build, ClaimAssumption
    <2>2. Tame(w)
      BY <1>3 DEF Build, Goto, TypeOK, Tame, InLoop, Querying
    <2>3. QED
      BY <1>q, <2>1, <2>2
  <1>4. CASE BuildFails(w) \/ AwaitSuccess(w) \/ AwaitFailure(w)
    BY <1>0, <1>4, <1>q, GotoTame DEF BuildFails, AwaitSuccess, AwaitFailure
  <1>5. CASE Broadcast(w) \/ BroadcastFails(w) \/ BroadcastReplyLost(w)
    BY <1>0, <1>5, <1>q, GotoTame DEF Broadcast, BroadcastFails, BroadcastReplyLost
  <1>6. CASE MarkSent(w)
    <2>1. RowsTame
      BY <1>6, <1>m, WriteTame, LockedOps DEF MarkSent, Busy, PC
    <2>2. QED
      BY <1>6, <2>1, NextItemTame DEF MarkSent
  <1>7. CASE MarkFailed(w)
    <2>1. RowsTame
      BY <1>7, <1>m, WriteTame, LockedOps DEF MarkFailed, Busy, PC
    <2>2. QED
      BY <1>7, <2>1, SendReturnsTame DEF MarkFailed
  <1>8. CASE GiveUp(w)
    BY <1>8, <1>q, SendReturnsTame DEF GiveUp
  <1>9. CASE MarkConfirmingStep(w)
    <2>1. RowsTame
      BY <1>9, <1>m, WriteTame, LockedOps DEF MarkConfirmingStep, Busy, PC
    <2>2. QED
      BY <1>9, <2>1, NextItemTame DEF MarkConfirmingStep
  <1>10. CASE ClearHash(w)
    <2>1. RowsTame
      BY <1>10, <1>m, WriteTame, LockedOps DEF ClearHash, Busy, PC
    <2>2. QED
      BY <1>10, <2>1, SendReturnsTame DEF ClearHash
  <1>11. CASE ScheduleRetry(w)
    <2>1. PICK r \in {MoveToDeadLetter(Mine(w)), UpdateStatus(Mine(w), "failed")} :
            WriteRow(w, r)
      BY <1>11 DEF ScheduleRetry
    <2>2. pc[w] \in Busy
      BY <1>11 DEF ScheduleRetry, Busy, PC
    <2>3. Locked(r)
      BY <1>m, <2>1, <2>2, LockedOps
    <2>4. QED
      BY <1>11, <2>1, <2>2, <2>3, WriteTame, NextItemTame DEF ScheduleRetry
  <1>12. QED
    BY <1>0, <1>1, <1>2, <1>3, <1>4, <1>5, <1>6, <1>7, <1>8, <1>9, <1>10, <1>11
       DEF Send, Resolve, Reopen, Requeue, Querying

\* Requests and crashes.
LEMMA OtherTame ==
  ASSUME TypeOK, ClaimInv
  PROVE  /\ \A w \in Procs : Crash(w) => Tame(w) /\ RowsTame
         /\ \A c \in Clients : \A i \in Items :
              SubmitRequest(c, i) \/ AdminRetry(c, i) => Tame(c) /\ RowsTame
         /\ \A c \in Clients : AdminRetryAll(c) => Tame(c) /\ RowsTame
  <1>1. ASSUME NEW w \in Procs, Crash(w)  PROVE Tame(w) /\ RowsTame
    BY <1>1 DEF TypeOK, Crash, Goto, Tame, InLoop, Querying, RowsTame
  <1>c. Clients \subseteq Procs /\ "direct" \in Phase \ {"pending"} /\ 0 \in Hash
    BY Witnesses DEF Procs, Phase
  <1>2. ASSUME NEW c \in Clients, NEW i \in Items, SubmitRequest(c, i) \/ AdminRetry(c, i)
        PROVE  Tame(c) /\ RowsTame
    <2>1. pc[c] = "idle" /\ \E snaps : StartLoop(c, "direct", snaps)
      BY <1>2 DEF SubmitRequest, AdminRetry
    <2>2. row' \in {row, [row EXCEPT ![i] = Create(@)]}
      BY <1>2 DEF SubmitRequest, AdminRetry
    <2>3. RowsTame
      BY <1>c, <2>2, LockedOps DEF TypeOK, RowsTame
    <2>4. QED
      BY <1>c, <2>1, <2>3, StartLoopTame
  <1>3. ASSUME NEW c \in Clients, AdminRetryAll(c)  PROVE Tame(c) /\ RowsTame
    BY <1>3, <1>c, StartLoopTame DEF AdminRetryAll, RowsTame
  <1>4. QED
    BY <1>1, <1>2, <1>3

LEMMA ClaimInductive ==
  ASSUME ClaimAssumption, TypeOK, ClaimInv, [Next]_vars
  PROVE  ClaimInv'
  <1>1. ASSUME NEW w \in Workers, Run(w)  PROVE ClaimInv'
    <2>1. w \in Procs
      BY DEF Procs
    <2>2. QED
      BY <1>1, <2>1, ClaimExcludes, RunTame, TameKeeps
  <1>2. ASSUME NEW w \in Procs, Send(w) \/ Crash(w)  PROVE ClaimInv'
    BY <1>2, SendTame, OtherTame, TameKeeps
  <1>3. ASSUME NEW c \in Clients, NEW i \in Items,
               SubmitRequest(c, i) \/ AdminRetry(c, i) \/ AdminRetryAll(c)
        PROVE  ClaimInv'
    BY <1>3, OtherTame, TameKeeps DEF Procs
  <1>u. UNCHANGED <<pc, local>> =>
          /\ \A v \in Procs : InLoop(v) => InLoop(v)'
          /\ \A v \in Workers, i \in Items : Holds(v, i)' = Holds(v, i)
    BY DEF local, InLoop, Holds
  <1>4. ASSUME NEW i \in Items, Enqueue(i) \/ ClaimAges(i)  PROVE ClaimInv'
    <2>1. UNCHANGED <<pc, local>>
      BY <1>4 DEF Enqueue, ClaimAges
    <2>2. \A k \in Items \ {i} : row'[k] = row[k]
      BY <1>4 DEF TypeOK, Enqueue, ClaimAges
    <2>3. ASSUME NEW v \in Workers, Holds(v, i)  PROVE FALSE
      <3>1. Locked(row[i])
        BY <2>3 DEF ClaimInv, HeldIsLocked
      <3>2. QED
        BY <1>4, <2>3, <3>1 DEF Enqueue, ClaimAges, ClaimAssumption, Locked
    <2>4. HeldIsLocked'
      BY <1>u, <2>1, <2>2, <2>3 DEF ClaimInv, HeldIsLocked, Locked
    <2>5. QED
      BY <1>u, <2>1, <2>4 DEF ClaimInv, Phase1Exclusive
  <1>5. ASSUME UNCHANGED <<row, pc, local>>  PROVE ClaimInv'
    <2>1. HeldIsLocked'
      BY <1>u, <1>5 DEF ClaimInv, HeldIsLocked, Locked
    <2>2. QED
      BY <1>u, <1>5, <2>1 DEF ClaimInv, Phase1Exclusive
  <1>6. QED
    <2>1. CASE \E i \in Items, n \in TxNo : Decide(i, n)
      BY <1>5, <2>1 DEF Decide
    <2>2. CASE UNCHANGED vars
      BY <1>5, <2>2 DEF vars, local
    <2>3. CASE \E c \in Clients : AdminRetryAll(c)
      BY <2>3, OtherTame, TameKeeps DEF Procs
    <2>4. QED
      BY <1>1, <1>2, <1>3, <1>4, <2>1, <2>2, <2>3 DEF Next, ClaimAssumption

\* When a run finishes what it has claimed within five minutes, nothing is
\* asked about hashes and no admin re-queues, no two runs have the same row
\* in their phase-1 work, through crashes, lost replies and direct requests.
THEOREM RunsExclude ==
  ASSUME ClaimAssumption PROVE Spec => []Phase1Exclusive
  <1>1. Init => ClaimInv
    <2>1. SUFFICES ASSUME Init PROVE ClaimInv
      OBVIOUS
    <2>2. \A w \in Workers, i \in Items : ~Holds(w, i)
      BY <2>1 DEF Init, Holds, Procs
    <2>3. \A w \in Procs : InLoop(w)
      BY <2>1 DEF Init, InLoop, Querying
    <2>4. QED
      BY <2>2, <2>3 DEF ClaimInv, HeldIsLocked, Phase1Exclusive
  <1>2. ClaimInv /\ TypeOK /\ [Next]_vars => ClaimInv'
    BY ClaimInductive
  <1>3. ClaimInv => Phase1Exclusive
    BY DEF ClaimInv
  <1>4. QED
    BY <1>1, <1>2, <1>3, TypeCorrect, PTL DEF Spec

-----------------------------------------------------------------------------
(* One run at a time, of a worker whose adapter keeps the hash of what it   *)
(* builds: no transaction that may take effect is forgotten or repeated,    *)
(* and the outbox implements ReceiptDelivery.                               *)

SingleAssumption ==
  /\ Clients = {} /\ Admins = {} /\ Bare = Workers
  /\ \A v, w \in Workers : v = w
  /\ LostReplies = FALSE /\ FlakyUntil = 0

Live(i, n) == tx[i][n] \in {"pending", "success"}

NothingLive(i) == \A n \in TxNo : ~Live(i, n)

\* The row has the hash of what may take effect; it exists before it has one.
TableInv ==
  /\ \A i \in Items, n \in TxNo : Live(i, n) => row[i].hash = n
  /\ \A i \in Items : row[i].status = "absent" => row[i].hash = 0

Open(i) == Reported(row[i].status) = "open"

\* What the run has listed is still in the table as it was read.
ListInv(w) ==
  /\ \A s \in batch[w] : row[s.id].hash = s.hash /\ Open(s.id) /\ s.id # cur[w].id
  /\ \A r, s \in batch[w] : r.id = s.id => r = s

\* And so is what it works on; it builds, broadcasts and reopens only when
\* nothing of the item may take effect.
WorkInv(w) ==
  /\ pc[w] \in {"idle", "loop"} => cur[w] = NoSnap
  /\ pc[w] \in Busy => Open(cur[w].id)
  /\ pc[w] \in {"resolve", "check", "markConfirming"} => row[cur[w].id].hash = cur[w].hash
  /\ pc[w] \in {"build", "broadcast", "reopen", "requeue"} => NothingLive(cur[w].id)
  /\ pc[w] = "broadcast" => row[cur[w].id].hash = txno[w]
  /\ pc[w] # "clearHash"

SingleInv == TableInv /\ \A w \in Procs : ListInv(w) /\ WorkInv(w)

\* A write of the row a process works on, which keeps the hash or forgets one
\* that has no effect.
LEMMA WriteKeeps ==
  ASSUME TypeOK, TableInv, NEW w \in Procs, ListInv(w), pc[w] \in Busy,
         NEW r \in Row, WriteRow(w, r), r.status # "absent",
         r.hash = Mine(w).hash \/ NothingLive(cur[w].id),
         tx' = tx, batch' = batch, cur'[w] \in {cur[w], NoSnap}
  PROVE  TableInv' /\ ListInv(w)'
  <1>1. /\ cur[w].id \in Items /\ row' = [row EXCEPT ![cur[w].id] = r]
        /\ \A s \in batch[w] : s.id \in Items
    BY DEF TypeOK, WriteRow, Snapshot
  <1>2. TableInv'
    BY <1>1 DEF TypeOK, TableInv, Live, NothingLive, Mine
  <1>3. \A s \in batch[w] : row'[s.id] = row[s.id] /\ s.id # NoSnap.id
    BY <1>1, OutboxAssumption DEF TypeOK, ListInv, NoSnap
  <1>4. ListInv(w)'
    BY <1>3 DEF ListInv, Open
  <1>5. QED
    BY <1>2, <1>4

LEMMA NextItemWork ==
  ASSUME TypeOK, NEW w \in Procs, NextItem(w)
  PROVE  WorkInv(w)' /\ batch' = batch /\ cur'[w] = NoSnap
  BY DEF TypeOK, NextItem, Goto, WorkInv, Busy, PC

LEMMA SendReturnsWork ==
  ASSUME TypeOK, NEW w \in Procs, SendReturnsFalse(w),
         Reported(row'[cur[w].id].status) = "open"
  PROVE  WorkInv(w)' /\ batch' = batch /\ cur'[w] \in {cur[w], NoSnap}
  <1>1. CASE NextItem(w)
    BY <1>1, NextItemWork
  <1>2. CASE Goto(w, "schedule") /\ UNCHANGED local
    BY <1>2 DEF TypeOK, Goto, local, WorkInv, Busy, PC, Open
  <1>3. QED
    BY <1>1, <1>2 DEF SendReturnsFalse

\* A list that has just been read is faithful.
LEMMA ListReads ==
  ASSUME TypeOK, NEW w \in Procs, NEW ph, NEW S \in SUBSET Items,
         StartLoop(w, ph, {Snap(i) : i \in S}), cur[w] = NoSnap,
         \A i \in S : Open(i),
         \A i \in Items : row'[i].hash = row[i].hash /\ row'[i].status = row[i].status
  PROVE  ListInv(w)' /\ WorkInv(w)'
  <1>1. batch'[w] = {Snap(i) : i \in S} /\ pc'[w] = "loop" /\ cur' = cur
    BY DEF TypeOK, StartLoop, Goto
  <1>2. \A i \in S : i # NoSnap.id
    BY OutboxAssumption DEF NoSnap
  <1>3. ListInv(w)'
    BY <1>1, <1>2 DEF ListInv, Snap, Open
  <1>4. WorkInv(w)'
    BY <1>1 DEF WorkInv, Busy, PC
  <1>5. QED
    BY <1>3, <1>4

\* A step that changes no hash and no status.
LEMMA TableKeeps ==
  ASSUME TableInv,
         \A i \in Items : row'[i].hash = row[i].hash /\ row'[i].status = row[i].status,
         \A i \in Items, n \in TxNo : Live(i, n)' => Live(i, n)
  PROVE  TableInv'
  BY DEF TableInv

\* What the store statements keep of a row in the hands of a run.
LEMMA OpenOps ==
  ASSUME NEW r \in Row, NEW n \in Hash
  PROVE  /\ \A t \in {"sent", "failed", "pending"} :
              UpdateStatus(r, t).hash = r.hash /\ UpdateStatus(r, t).status = t
         /\ MoveToDeadLetter(r).hash = r.hash /\ MoveToDeadLetter(r).status = "dead"
         /\ LockForProcessing(r).hash = r.hash /\ LockForProcessing(r).status = r.status
         /\ MarkConfirming(r, n).hash = n /\ MarkConfirming(r, n).status = "confirming"
         /\ ReopenItem(r).hash = 0 /\ ReopenItem(r).status = "reopened"
         /\ PersistSubmittedTxHash(r, n).hash = n
         /\ PersistSubmittedTxHash(r, n).status = r.status
         /\ Create(r).hash = r.hash
         /\ Create(r).status = IF r.status = "absent" THEN "pending" ELSE r.status
  <1> USE DEF Row
  <1>1. \A t \in {"sent", "failed", "pending"} :
          UpdateStatus(r, t).hash = r.hash /\ UpdateStatus(r, t).status = t
    BY DEF UpdateStatus
  <1>2. /\ MoveToDeadLetter(r).hash = r.hash /\ MoveToDeadLetter(r).status = "dead"
        /\ LockForProcessing(r).hash = r.hash /\ LockForProcessing(r).status = r.status
    BY DEF MoveToDeadLetter, LockForProcessing
  <1>3. /\ MarkConfirming(r, n).hash = n /\ MarkConfirming(r, n).status = "confirming"
        /\ ReopenItem(r).hash = 0 /\ ReopenItem(r).status = "reopened"
    BY DEF MarkConfirming, ReopenItem
  <1>4. /\ PersistSubmittedTxHash(r, n).hash = n
        /\ PersistSubmittedTxHash(r, n).status = r.status
    BY DEF PersistSubmittedTxHash
  <1>5. /\ Create(r).hash = r.hash
        /\ Create(r).status = IF r.status = "absent" THEN "pending" ELSE r.status
    BY DEF Create
  <1>6. QED
    BY <1>1, <1>2, <1>3, <1>4, <1>5

\* Which answers free a process to reopen a row.
LEMMA NoLiveAnswer ==
  ASSUME SingleAssumption, TypeOK, TableInv, NEW w \in Procs, pc[w] \in Busy,
         row[cur[w].id].hash = cur[w].hash, cur[w].hash # 0,
         NEW answer \in Lookup(cur[w].id, cur[w].hash),
         answer \notin {"success", "pending"}
  PROVE  NothingLive(cur[w].id)
  <1>1. cur[w].id \in Items /\ row[cur[w].id].retry \in Nat
    BY DEF TypeOK, Snapshot, Row
  <1>2. cur[w].hash \in TxNo
    BY MaxTxAssumption DEF TypeOK, Snapshot, Hash, TxNo
  <1>3. ~(row[cur[w].id].retry < FlakyUntil)
    BY <1>1 DEF SingleAssumption
  <1>4. ~Live(cur[w].id, cur[w].hash)
    BY <1>3 DEF Lookup, Live
  <1>5. QED
    BY <1>1, <1>2, <1>4 DEF TableInv, NothingLive

\* The steps of a run that start and end its loops.
LEMMA SingleLoop ==
  ASSUME SingleAssumption, TypeOK, TableInv, NEW w \in Procs, ListInv(w), WorkInv(w),
         ClaimPending(w) \/ ListConfirming(w) \/ ListFailed(w) \/ EndOfRun(w)
  PROVE  TableInv' /\ ListInv(w)' /\ WorkInv(w)'
  <1>1. CASE ClaimPending(w)
    <2> DEFINE S == {i \in Items : Claimable(row[i])}
    <2>1. cur[w] = NoSnap /\ \A i \in S : Open(i)
      BY <1>1 DEF ClaimPending, WorkInv, Claimable, Open, Reported
    <2>2. \A i \in Items : row'[i].hash = row[i].hash /\ row'[i].status = row[i].status
      <3>1. \A i \in Items : row[i] \in Row /\ 0 \in Hash
        BY Witnesses DEF TypeOK
      <3>2. QED
        BY <1>1, <3>1, OpenOps DEF ClaimPending
    <2>3. StartLoop(w, "pending", {Snap(i) : i \in S})
      BY <1>1 DEF ClaimPending
    <2>4. TableInv'
      BY <1>1, <2>2, TableKeeps DEF ClaimPending, Live, chain
    <2>5. S \in SUBSET Items
      OBVIOUS
    <2> HIDE DEF S
    <2>6. QED
      BY <2>1, <2>2, <2>3, <2>4, <2>5, ListReads
  <1>2. ASSUME NEW ph \in {"confirming", "failed"}, pc[w] = "loop",
               StartLoop(w, ph, ListByStatus(ph)), UNCHANGED <<row, chain>>
        PROVE  TableInv' /\ ListInv(w)' /\ WorkInv(w)'
    <2> DEFINE S == {i \in Items : row[i].status = ph}
    <2>1. cur[w] = NoSnap /\ \A i \in S : Open(i)
      BY <1>2 DEF WorkInv, Open, Reported
    <2>2. StartLoop(w, ph, {Snap(i) : i \in S})
      BY <1>2 DEF ListByStatus
    <2>3. TableInv'
      BY <1>2 DEF TableInv, Live, chain
    <2>4. S \in SUBSET Items
      OBVIOUS
    <2> HIDE DEF S
    <2>5. QED
      BY <1>2, <2>1, <2>2, <2>3, <2>4, ListReads
  <1>3. CASE ListConfirming(w) \/ ListFailed(w)
    BY <1>2, <1>3 DEF ListConfirming, ListFailed, EndOfBatch
  <1>4. CASE EndOfRun(w)
    <2>1. TableInv'
      BY <1>4 DEF EndOfRun, TableInv, Live, chain
    <2>2. pc[w] = "loop" /\ pc'[w] = "idle" /\ UNCHANGED <<row, batch, cur>>
      BY <1>4 DEF TypeOK, EndOfRun, EndOfBatch, Goto
    <2>3. QED
      BY <2>1, <2>2 DEF ListInv, WorkInv, Open, Busy, PC
  <1>5. QED
    BY <1>1, <1>3, <1>4

\* The steps that take an item from the list.
LEMMA SinglePick ==
  ASSUME SingleAssumption, TypeOK, TableInv, NEW w \in Procs, ListInv(w), WorkInv(w),
         SkipNotDue(w) \/ PromoteExhausted(w) \/ PickToConfirm(w) \/ PickToSend(w)
  PROVE  TableInv' /\ ListInv(w)' /\ WorkInv(w)'
  <1>0. pc[w] = "loop" /\ cur[w] = NoSnap /\ \A s \in batch[w] : s \in Snapshot /\ s.id \in Items
    BY DEF TypeOK, SkipNotDue, PromoteExhausted, PickToConfirm, PickToSend, WorkInv, Snapshot
  <1>1. ASSUME NEW s \in batch[w], Skip(w, s), UNCHANGED <<row, chain>>
        PROVE  TableInv' /\ ListInv(w)' /\ WorkInv(w)'
    <2>1. UNCHANGED <<pc, cur, txno>> /\ batch'[w] \subseteq batch[w]
      BY <1>1 DEF TypeOK, Skip
    <2>2. QED
      BY <1>0, <1>1, <2>1 DEF TableInv, Live, ListInv, WorkInv, Open, Busy, PC, chain
  <1>2. CASE SkipNotDue(w)
    BY <1>1, <1>2 DEF SkipNotDue
  <1>3. CASE PromoteExhausted(w)
    <2>1. PICK s \in batch[w] :
            row' = [row EXCEPT ![s.id] = MoveToDeadLetter(@)] /\ Skip(w, s)
      BY <1>3 DEF PromoteExhausted
    <2>2. /\ UNCHANGED <<pc, cur, tx>> /\ batch'[w] = batch[w] \ {s}
          /\ row[s.id] \in Row /\ 0 \in Hash
      BY <1>0, <1>3, <2>1, Witnesses DEF TypeOK, PromoteExhausted, Skip, chain
    <2>3. \A i \in Items :
            row'[i].hash = row[i].hash /\ (row'[i].status = row[i].status \/ i = s.id)
      BY <1>0, <2>1, <2>2, OpenOps DEF TypeOK
    <2>4. row'[s.id].status = "dead"
      BY <1>0, <2>1, <2>2, OpenOps DEF TypeOK
    <2>5. TableInv'
      BY <2>2, <2>3, <2>4 DEF TableInv, Live
    <2>6. ListInv(w)'
      BY <1>0, <2>2, <2>3 DEF ListInv, Open
    <2>7. QED
      BY <1>0, <2>2, <2>5, <2>6 DEF WorkInv, Busy, PC
  <1>4. ASSUME NEW s \in batch[w], NEW l \in {"resolve", "check", "giveUp", "build"}, Goto(w, l),
               cur' = [cur EXCEPT ![w] = s], batch' = [batch EXCEPT ![w] = @ \ {s}],
               UNCHANGED <<row, chain>>, l = "build" => s.hash = 0
        PROVE  TableInv' /\ ListInv(w)' /\ WorkInv(w)'
    <2>1. pc'[w] = l /\ cur'[w] = s /\ batch'[w] = batch[w] \ {s}
      BY <1>4 DEF TypeOK, Goto
    <2>2. TableInv'
      BY <1>4 DEF TableInv, Live, chain
    <2>3. ListInv(w)'
      BY <1>4, <2>1 DEF ListInv, Open
    <2>4. Open(s.id) /\ row[s.id].hash = s.hash
      BY DEF ListInv
    <2>5. l = "build" => NothingLive(s.id)'
      BY <1>0, <1>4, <2>4 DEF TableInv, NothingLive, Live, TxNo, chain
    <2>6. WorkInv(w)'
      BY <1>4, <2>1, <2>4, <2>5 DEF WorkInv, Open
    <2>7. QED
      BY <2>2, <2>3, <2>6
  <1>5. CASE PickToConfirm(w)
    <2>1. PICK s \in batch[w] :
            \/ Skip(w, s)
            \/ Goto(w, "check") /\ cur' = [cur EXCEPT ![w] = s]
                                /\ batch' = [batch EXCEPT ![w] = @ \ {s}]
      BY <1>5 DEF PickToConfirm
    <2>2. QED
      BY <1>1, <1>4, <1>5, <2>1 DEF PickToConfirm
  <1>6. CASE PickToSend(w)
    <2>1. PICK s \in batch[w] : StartSend(w, s)
      BY <1>6 DEF PickToSend
    <2>2. w \in Bare
      BY DEF SingleAssumption, Procs
    <2>3. /\ SendEntry(w, s) \in {"resolve", "giveUp", "build"}
          /\ SendEntry(w, s) = "build" => s.hash = 0
      BY <2>2 DEF SendEntry
    <2>4. QED
      BY <1>4, <1>6, <2>1, <2>3 DEF PickToSend, StartSend
  <1>7. QED
    BY <1>2, <1>3, <1>5, <1>6

\* The queries, and the steps of a submission.
LEMMA SingleSubmit ==
  ASSUME SingleAssumption, TypeOK, QueriesHash, TableInv, TxFresh, OwnTx,
         NEW w \in Procs, ListInv(w), WorkInv(w),
         \/ Resolve(w) \/ CheckConfirmation(w) \/ Build(w) \/ BuildFails(w) \/ Broadcast(w)
         \/ BroadcastFails(w) \/ BroadcastReplyLost(w) \/ AwaitSuccess(w) \/ AwaitFailure(w)
  PROVE  TableInv' /\ ListInv(w)' /\ WorkInv(w)'
  <1>0. pc[w] \in Busy /\ cur[w].id \in Items /\ cur[w] \in Snapshot
    BY DEF TypeOK, Resolve, CheckConfirmation, Build, BuildFails, Broadcast, BroadcastFails,
           BroadcastReplyLost, AwaitSuccess, AwaitFailure, Busy, PC, Snapshot
  <1>1. ASSUME NEW l \in {"markConfirming", "reopen", "markSent", "markFailed"},
               Goto(w, l), UNCHANGED <<row, local, chain>>,
               l = "reopen" => NothingLive(cur[w].id),
               l = "markConfirming" => row[cur[w].id].hash = cur[w].hash
        PROVE  TableInv' /\ ListInv(w)' /\ WorkInv(w)'
    <2>1. pc'[w] = l /\ UNCHANGED <<row, tx, cur, batch, txno>>
      BY <1>1 DEF TypeOK, Goto, local, chain
    <2>2. QED
      BY <1>0, <1>1, <2>1 DEF TableInv, Live, NothingLive, ListInv, WorkInv, Open
  <1>2. ASSUME SendReturnsFalse(w) \/ NextItem(w), UNCHANGED <<row, chain>>
        PROVE  TableInv' /\ ListInv(w)' /\ WorkInv(w)'
    <2>1. Reported(row'[cur[w].id].status) = "open"
      BY <1>0, <1>2 DEF WorkInv, Open
    <2>2. WorkInv(w)' /\ batch' = batch /\ cur'[w] \in {cur[w], NoSnap}
      BY <1>2, <2>1, SendReturnsWork, NextItemWork
    <2>3. \A s \in batch[w] : s.id # NoSnap.id
      BY OutboxAssumption DEF TypeOK, Snapshot, NoSnap
    <2>4. QED
      BY <1>2, <2>2, <2>3 DEF TableInv, Live, ListInv, Open, chain
  <1>3. CASE Resolve(w)
    <2>1. cur[w].hash # 0 /\ row[cur[w].id].hash = cur[w].hash
      BY <1>3 DEF Resolve, QueriesHash, WorkInv
    <2>2. PICK answer \in Lookup(cur[w].id, cur[w].hash) :
            \/ answer = "success" /\ Goto(w, "markConfirming") /\ UNCHANGED local
            \/ answer = "pending" /\ SendReturnsFalse(w)
            \/ answer \in {"failed", "not_found"} /\ Goto(w, "reopen") /\ UNCHANGED local
      BY <1>3 DEF Resolve
    <2>3. answer \notin {"success", "pending"} => NothingLive(cur[w].id)
      BY <1>0, <2>1, NoLiveAnswer
    <2>4. UNCHANGED <<row, chain>>
      BY <1>3 DEF Resolve
    <2>5. QED
      BY <1>1, <1>2, <2>1, <2>2, <2>3, <2>4
  <1>4. CASE CheckConfirmation(w)
    <2>1. cur[w].hash # 0 /\ row[cur[w].id].hash = cur[w].hash
      BY <1>4 DEF CheckConfirmation, QueriesHash, WorkInv
    <2>2. PICK answer \in Lookup(cur[w].id, cur[w].hash),
               next \in {"markSent", "markConfirming", "loop", "reopen"} :
            /\ next = "reopen" => answer \notin {"success", "pending"}
            /\ IF next = "loop" THEN NextItem(w) ELSE Goto(w, next) /\ UNCHANGED local
      <3>1. PICK answer \in Lookup(cur[w].id, cur[w].hash) :
              \E next \in CASE answer = "success" -> DepthTest(cur[w])
                            [] answer = "pending" -> {"loop"}
                            [] OTHER              -> {"reopen"} :
                IF next = "loop" THEN NextItem(w) ELSE Goto(w, next) /\ UNCHANGED local
        BY <1>4 DEF CheckConfirmation
      <3>2. DepthTest(cur[w]) \subseteq {"markSent", "markConfirming", "loop"}
        BY DEF DepthTest
      <3>3. QED
        BY <3>1, <3>2
    <2>3. next = "reopen" => NothingLive(cur[w].id)
      BY <1>0, <2>1, <2>2, NoLiveAnswer
    <2>4. UNCHANGED <<row, chain>>
      BY <1>4 DEF CheckConfirmation
    <2>5. QED
      BY <1>1, <1>2, <2>1, <2>2, <2>3, <2>4
  <1>5. CASE BuildFails(w) \/ AwaitSuccess(w) \/ AwaitFailure(w)
    BY <1>1, <1>5 DEF BuildFails, AwaitSuccess, AwaitFailure
  <1>6. CASE Build(w)
    <2> DEFINE n == built[cur[w].id] + 1
    <2>1. NothingLive(cur[w].id) /\ Open(cur[w].id) /\ w \in Bare
      BY <1>0, <1>6 DEF Build, WorkInv, SingleAssumption, Procs
    <2>2. n \in TxNo /\ n \in Hash /\ Mine(w) \in Row
      BY <1>0, <1>6, MaxTxAssumption DEF Build, TypeOK, Hash, TxNo, Mine
    <2>3. /\ tx' = [tx EXCEPT ![cur[w].id][n] = "built"]
          /\ txno' = [txno EXCEPT ![w] = n] /\ pc' = [pc EXCEPT ![w] = "broadcast"]
          /\ row' = [row EXCEPT ![cur[w].id] = PersistSubmittedTxHash(Mine(w), n)]
          /\ UNCHANGED <<batch, cur>>
      BY <1>6, <2>1 DEF Build, Goto, WriteRow
    <2> HIDE DEF n
    <2>4. /\ row'[cur[w].id].hash = n /\ row'[cur[w].id].status = row[cur[w].id].status
          /\ \A k \in Items : k # cur[w].id => row'[k] = row[k]
      BY <1>0, <2>2, <2>3, OpenOps DEF TypeOK, Mine
    <2>5. \A k \in Items, m \in TxNo : Live(k, m)' => Live(k, m) /\ k # cur[w].id
      BY <1>0, <2>1, <2>2, <2>3 DEF TypeOK, Live, NothingLive
    <2>6. TableInv'
      BY <1>0, <2>1, <2>4, <2>5 DEF TableInv, Open, Reported
    <2>7. \A s \in batch[w] : s.id \in Items /\ s.id # cur[w].id
      BY DEF TypeOK, Snapshot, ListInv
    <2>8. ListInv(w)'
      BY <2>3, <2>4, <2>7 DEF ListInv, Open
    <2>9. WorkInv(w)'
      BY <1>0, <2>1, <2>3, <2>4, <2>5 DEF TypeOK, WorkInv, Open, NothingLive
    <2>10. QED
      BY <2>6, <2>8, <2>9
  <1>7. CASE Broadcast(w)
    <2>1. /\ NothingLive(cur[w].id) /\ Open(cur[w].id)
          /\ row[cur[w].id].hash = txno[w] /\ txno[w] \in TxNo
      BY <1>0, <1>7 DEF TypeOK, Broadcast, WorkInv, Sending
    <2>2. /\ tx' = [tx EXCEPT ![cur[w].id][txno[w]] = "pending"]
          /\ pc'[w] = "await" /\ UNCHANGED <<row, batch, cur, txno>>
      BY <1>7 DEF TypeOK, Broadcast, SetTx, Goto, local
    <2>3. \A k \in Items, m \in TxNo :
            Live(k, m)' => Live(k, m) \/ (k = cur[w].id /\ m = txno[w])
      BY <1>0, <2>1, <2>2 DEF TypeOK, Live
    <2>4. TableInv'
      BY <2>1, <2>2, <2>3 DEF TableInv
    <2>5. QED
      BY <2>1, <2>2, <2>4 DEF ListInv, WorkInv, Open
  <1>8. CASE BroadcastFails(w)
    <2>1. /\ tx' = [tx EXCEPT ![cur[w].id][txno[w]] = "dropped"]
          /\ pc'[w] = "markFailed" /\ UNCHANGED <<row, batch, cur, txno>>
          /\ txno[w] \in TxNo
      BY <1>0, <1>8 DEF TypeOK, BroadcastFails, SetTx, Goto, local, Sending
    <2>2. \A k \in Items, m \in TxNo : Live(k, m)' => Live(k, m)
      BY <1>0, <2>1 DEF TypeOK, Live
    <2>3. TableInv'
      BY <2>1, <2>2 DEF TableInv
    <2>4. QED
      BY <1>0, <2>1, <2>3 DEF ListInv, WorkInv, Open
  <1>9. QED
    BY <1>3, <1>4, <1>5, <1>6, <1>7, <1>8 DEF BroadcastReplyLost, SingleAssumption

\* The writes that end an attempt.
LEMMA SingleWrite ==
  ASSUME SingleAssumption, TypeOK, TableInv, NEW w \in Procs, ListInv(w), WorkInv(w),
         \/ MarkSent(w) \/ MarkFailed(w) \/ GiveUp(w) \/ MarkConfirmingStep(w)
         \/ ClearHash(w) \/ Reopen(w) \/ Requeue(w) \/ ScheduleRetry(w)
  PROVE  TableInv' /\ ListInv(w)' /\ WorkInv(w)'
  <1>0. pc[w] \in Busy
    BY DEF MarkSent, MarkFailed, GiveUp, MarkConfirmingStep, ClearHash, Reopen, Requeue,
           ScheduleRetry, Busy, PC
  <1>1. /\ cur[w].id \in Items /\ cur[w].hash \in Hash /\ Mine(w) \in Row
        /\ Mine(w).hash = row[cur[w].id].hash /\ 0 \in Hash
    BY <1>0, TypeParts, MineType, Witnesses DEF Mine
  <1>2. ASSUME NEW r \in Row, WriteRow(w, r), NextItem(w), UNCHANGED chain,
               r.status # "absent", r.hash = Mine(w).hash
        PROVE  TableInv' /\ ListInv(w)' /\ WorkInv(w)'
    BY <1>0, <1>2, NextItemWork, WriteKeeps DEF chain
  <1>3. ASSUME NEW r \in Row, WriteRow(w, r), SendReturnsFalse(w), UNCHANGED chain,
               Reported(r.status) = "open", r.hash = Mine(w).hash
        PROVE  TableInv' /\ ListInv(w)' /\ WorkInv(w)'
    <2>1. row'[cur[w].id] = r /\ r.status # "absent"
      BY <1>1, <1>3 DEF TypeOK, WriteRow, Reported
    <2>2. WorkInv(w)' /\ batch' = batch /\ cur'[w] \in {cur[w], NoSnap}
      BY <1>3, <2>1, SendReturnsWork
    <2>3. QED
      BY <1>0, <1>3, <2>1, <2>2, WriteKeeps DEF chain
  <1>o. /\ \A t \in {"failed", "pending", "confirming", "reopened"} : Reported(t) = "open"
        /\ {"sent", "failed", "pending"} \subseteq Status
    BY DEF Reported, Status
  <1>4. CASE MarkSent(w)
    <2>1. UpdateStatus(Mine(w), "sent") \in Row
      BY <1>1, <1>o, RowOps
    <2>2. QED
      BY <1>1, <1>2, <1>4, <2>1, OpenOps DEF MarkSent
  <1>5. CASE MarkFailed(w)
    <2>1. UpdateStatus(Mine(w), "failed") \in Row
      BY <1>1, <1>o, RowOps
    <2>2. QED
      BY <1>1, <1>3, <1>5, <1>o, <2>1, OpenOps DEF MarkFailed
  <1>6. CASE GiveUp(w)
    <2>1. WriteRow(w, Mine(w)) /\ Reported(Mine(w).status) = "open"
      BY <1>0, <1>1, <1>6 DEF TypeOK, GiveUp, WriteRow, Mine, WorkInv, Open
    <2>2. QED
      BY <1>1, <1>3, <1>6, <2>1 DEF GiveUp
  <1>7. CASE MarkConfirmingStep(w)
    <2>1. MarkConfirming(Mine(w), cur[w].hash) \in Row
      BY <1>1, <1>o, RowOps
    <2>2. row[cur[w].id].hash = cur[w].hash
      BY <1>7 DEF MarkConfirmingStep, WorkInv
    <2>3. QED
      BY <1>1, <1>2, <1>7, <2>1, <2>2, OpenOps DEF MarkConfirmingStep
  <1>8. CASE Reopen(w)
    <2>1. ReopenItem(Mine(w)) \in Row /\ ReopenItem(Mine(w)).status = "reopened"
      BY <1>1, <1>o, RowOps, OpenOps
    <2>2. /\ NothingLive(cur[w].id) /\ UNCHANGED <<batch, cur, tx>> /\ pc'[w] = "requeue"
          /\ row'[cur[w].id] = ReopenItem(Mine(w))
      BY <1>1, <1>8 DEF TypeOK, Reopen, WorkInv, Goto, WriteRow, local, chain
    <2>3. TableInv' /\ ListInv(w)'
      BY <1>0, <1>8, <2>1, <2>2, WriteKeeps DEF Reopen
    <2>4. WorkInv(w)'
      BY <1>o, <2>1, <2>2 DEF WorkInv, Open, NothingLive, Live
    <2>5. QED
      BY <2>3, <2>4
  <1>9. CASE Requeue(w)
    <2>1. UpdateStatus(Mine(w), "pending") \in Row
      BY <1>1, <1>o, RowOps
    <2>2. QED
      BY <1>1, <1>2, <1>3, <1>9, <1>o, <2>1, OpenOps DEF Requeue
  <1>10. CASE ScheduleRetry(w)
    <2>1. PICK r \in {MoveToDeadLetter(Mine(w)), UpdateStatus(Mine(w), "failed")} :
            WriteRow(w, r)
      BY <1>10 DEF ScheduleRetry
    <2>2. r \in Row /\ r.hash = Mine(w).hash /\ r.status # "absent"
      BY <1>1, <1>o, <2>1, RowOps, OpenOps
    <2>3. QED
      BY <1>2, <1>10, <2>1, <2>2 DEF ScheduleRetry
  <1>11. QED
    BY <1>4, <1>5, <1>6, <1>7, <1>8, <1>9, <1>10 DEF ClearHash, WorkInv

\* New rows, ageing claims and decisions of the chain keep what a run knows.
LEMMA OtherFrame ==
  ASSUME TypeOK, TableInv,
         \/ \E i \in Items : Enqueue(i) \/ ClaimAges(i)
         \/ \E i \in Items, n \in TxNo : Decide(i, n)
  PROVE  /\ UNCHANGED <<pc, batch, cur, txno>>
         /\ \A k \in Items : row'[k].hash = row[k].hash
         /\ \A k \in Items : row'[k].status # row[k].status =>
                               row[k].status = "absent" /\ row'[k].status = "pending"
         /\ \A k \in Items, m \in TxNo : Live(k, m)' => Live(k, m)
         /\ TableInv'
  <1>1. ASSUME NEW i \in Items, Enqueue(i) \/ ClaimAges(i)
        PROVE  /\ row'[i].hash = row[i].hash
               /\ row'[i].status # row[i].status =>
                    row[i].status = "absent" /\ row'[i].status = "pending"
               /\ \A k \in Items \ {i} : row'[k] = row[k]
               /\ UNCHANGED <<pc, batch, cur, txno, tx>>
    <2>1. row[i] \in Row /\ 0 \in Hash
      BY Witnesses DEF TypeOK
    <2>2. PICK r : /\ row' = [row EXCEPT ![i] = r]
                   /\ r \in {Create(row[i]), [row[i] EXCEPT !.claim = "stale"]}
      BY <1>1 DEF TypeOK, Enqueue, ClaimAges
    <2>3. row'[i] = r /\ \A k \in Items \ {i} : row'[k] = row[k]
      BY <2>2 DEF TypeOK
    <2>4. /\ r.hash = row[i].hash
          /\ r.status # row[i].status => row[i].status = "absent" /\ r.status = "pending"
      <3>1. CASE r = Create(row[i])
        BY <2>1, <3>1, OpenOps
      <3>2. CASE r = [row[i] EXCEPT !.claim = "stale"]
        BY <2>1, <3>2 DEF Row
      <3>3. QED
        BY <2>2, <3>1, <3>2
    <2>5. UNCHANGED <<pc, batch, cur, txno, tx>>
      BY <1>1 DEF Enqueue, ClaimAges, local, chain
    <2>6. QED
      BY <2>3, <2>4, <2>5
  <1>2. ASSUME NEW i \in Items, NEW n \in TxNo, Decide(i, n)
        PROVE  /\ UNCHANGED <<row, pc, batch, cur, txno>>
               /\ \A k \in Items, m \in TxNo : Live(k, m)' => Live(k, m)
    <2>1. PICK st : tx' = [tx EXCEPT ![i][n] = st]
      BY <1>2 DEF Decide
    <2>2. UNCHANGED <<row, pc, batch, cur, txno>> /\ Live(i, n)
      BY <1>2 DEF Decide, local, Live
    <2>3. QED
      BY <2>1, <2>2 DEF TypeOK, Live
  <1>3. /\ UNCHANGED <<pc, batch, cur, txno>>
        /\ \A k \in Items : row'[k].hash = row[k].hash
        /\ \A k \in Items : row'[k].status # row[k].status =>
                              row[k].status = "absent" /\ row'[k].status = "pending"
        /\ \A k \in Items, m \in TxNo : Live(k, m)' => Live(k, m)
    <2>1. CASE \E i \in Items : Enqueue(i) \/ ClaimAges(i)
      <3>1. PICK i \in Items : Enqueue(i) \/ ClaimAges(i)
        BY <2>1
      <3>2. \A k \in Items : k = i \/ row'[k] = row[k]
        BY <1>1, <3>1
      <3>3. QED
        BY <1>1, <3>1, <3>2 DEF Live
    <2>2. CASE \E i \in Items, n \in TxNo : Decide(i, n)
      <3>1. PICK i \in Items, n \in TxNo : Decide(i, n)
        BY <2>2
      <3>2. QED
        BY <1>2, <3>1
    <2>3. QED
      BY <2>1, <2>2
  <1>4. QED
    BY <1>3 DEF TableInv

LEMMA SingleOther ==
  ASSUME TypeOK, TableInv, NEW w \in Procs, ListInv(w), WorkInv(w),
         \/ \E i \in Items : Enqueue(i) \/ ClaimAges(i)
         \/ \E i \in Items, n \in TxNo : Decide(i, n)
  PROVE  ListInv(w)' /\ WorkInv(w)'
  <1>1. /\ \A s \in batch[w] : s.id \in Items
        /\ pc[w] \in Busy => cur[w].id \in Items
    BY DEF TypeOK, Snapshot
  <1>2. {"resolve", "check", "markConfirming", "build", "broadcast", "reopen", "requeue"}
          \subseteq Busy
    BY DEF Busy, PC
  <1>3. \A k \in Items : Open(k) => Open(k)'
    BY OtherFrame DEF Open, Reported
  <1>4. ListInv(w)'
    BY <1>1, <1>3, OtherFrame DEF ListInv, Open
  <1>5. WorkInv(w)'
    BY <1>1, <1>2, <1>3, OtherFrame DEF WorkInv, Open, NothingLive
  <1>6. QED
    BY <1>4, <1>5

LEMMA CrashKeeps ==
  ASSUME TypeOK, TableInv, NEW w \in Procs, Crash(w)
  PROVE  TableInv' /\ ListInv(w)' /\ WorkInv(w)'
  <1>1. pc'[w] = "idle" /\ batch'[w] = {} /\ cur'[w] = NoSnap /\ UNCHANGED <<row, tx>>
    BY DEF TypeOK, Crash, Goto, chain
  <1>2. QED
    BY <1>1 DEF TableInv, Live, ListInv, WorkInv, Busy, PC

LEMMA SingleInductive ==
  ASSUME SingleAssumption, ReceiptInv, SingleInv, [Next]_vars
  PROVE  SingleInv'
  <1> USE DEF ReceiptInv
  <1>1. Procs = Workers /\ \A v, w \in Procs : v = w
    BY DEF Procs, SingleAssumption
  <1>2. ASSUME NEW w \in Procs, Run(w) \/ Send(w) \/ Crash(w)
        PROVE  TableInv' /\ ListInv(w)' /\ WorkInv(w)'
    BY <1>2, SingleLoop, SinglePick, SingleSubmit, SingleWrite, CrashKeeps
       DEF SingleInv, Run, Send
  <1>3. CASE \/ \E i \in Items : Enqueue(i) \/ ClaimAges(i)
             \/ \E i \in Items, n \in TxNo : Decide(i, n)
    BY <1>3, OtherFrame, SingleOther DEF SingleInv
  <1>4. CASE UNCHANGED vars
    BY <1>4 DEF vars, SingleInv, TableInv, Live, NothingLive, ListInv, WorkInv, Open
  <1>5. QED
    BY <1>1, <1>2, <1>3, <1>4 DEF Next, SingleAssumption, SingleInv, Procs

LEMMA SingleInit == Init => SingleInv
  <1>1. SUFFICES ASSUME Init  PROVE SingleInv
    OBVIOUS
  <1>2. TableInv
    BY <1>1 DEF Init, NoRow, TableInv, Live
  <1>3. ASSUME NEW w \in Procs  PROVE ListInv(w) /\ WorkInv(w)
    BY <1>1 DEF Init, ListInv, WorkInv, Busy, PC
  <1>4. QED
    BY <1>2, <1>3 DEF SingleInv

LEMMA SingleSpec ==
  ASSUME SingleAssumption  PROVE Spec => [](ReceiptInv /\ SingleInv)
  <1>1. ReceiptInv /\ SingleInv /\ [Next]_vars => ReceiptInv' /\ SingleInv'
    BY ReceiptInductive, SingleInductive DEF SingleAssumption
  <1>2. QED
    BY <1>1, ReceiptInit, SingleInit, PTL DEF Spec

\* One run at a time of a worker that keeps its hashes never has two
\* transactions of an item that may both take effect, through crashes and
\* submissions that time out.
THEOREM NothingBroadcastTwice ==
  ASSUME SingleAssumption  PROVE Spec => []NoDoubleBroadcast
  <1>1. TableInv => NoDoubleBroadcast
    <2>1. SUFFICES ASSUME TableInv, NEW i \in Items
                   PROVE  Cardinality({n \in TxNo : tx[i][n] \in {"pending", "success"}}) <= 1
      BY DEF NoDoubleBroadcast
    <2> DEFINE S == {n \in TxNo : tx[i][n] \in {"pending", "success"}}
    <2>2. S \subseteq {row[i].hash}
      BY <2>1 DEF TableInv, Live
    <2>3. S = {} \/ S = {row[i].hash}
      BY <2>2
    <2>4. Cardinality(S) = 0 \/ Cardinality(S) = 1
      BY <2>3, FS_EmptySet, FS_Singleton
    <2>5. QED
      BY <2>4
  <1>2. QED
    BY <1>1, SingleSpec, PTL DEF SingleInv

\* And the hash of one that may take effect is in its row.
THEOREM IntentIsDurable ==
  ASSUME SingleAssumption  PROVE Spec => []DurableIntent
  <1>1. TableInv => DurableIntent
    BY DEF TableInv, Live, DurableIntent
  <1>2. QED
    BY <1>1, SingleSpec, PTL DEF SingleInv

\* What a step may do to the way one row is reported, and the others not at
\* all: accept it, park it, or report it delivered once it is.
ShowsStep ==
  /\ \A i \in Items : Recorded(i)' = Recorded(i)
  /\ \E i \in Items :
       /\ \A k \in Items \ {i} : Reported(row'[k].status) = Reported(row[k].status)
       /\ \/ Reported(row'[i].status) = Reported(row[i].status)
          \/ Reported(row[i].status) = "none" /\ Reported(row'[i].status) = "open"
          \/ Reported(row[i].status) = "open" /\ Reported(row'[i].status) = "parked"
          \/ /\ Reported(row[i].status) = "open" /\ Reported(row'[i].status) = "delivered"
             /\ Recorded(i)

ShowsNothing ==
  \A i \in Items : /\ Recorded(i)' = Recorded(i)
                   /\ Reported(row'[i].status) = Reported(row[i].status)

\* Such a step is one of ReceiptDelivery, or shows nothing.
LEMMA ShowsDelivery ==
  ASSUME ShowsStep  PROVE [Delivery!Next]_(Delivery!rdVars)
  <1> DEFINE st == [i \in Items |-> Reported(row[i].status)]
             rec == {i \in Items : Recorded(i)}
  <1>1. PICK i \in Items :
          /\ \A k \in Items \ {i} : Reported(row'[k].status) = Reported(row[k].status)
          /\ \/ Reported(row'[i].status) = Reported(row[i].status)
             \/ Reported(row[i].status) = "none" /\ Reported(row'[i].status) = "open"
             \/ Reported(row[i].status) = "open" /\ Reported(row'[i].status) = "parked"
             \/ /\ Reported(row[i].status) = "open" /\ Reported(row'[i].status) = "delivered"
                /\ Recorded(i)
    BY DEF ShowsStep
  <1>2. rec' = rec
    BY DEF ShowsStep
  <1>3. st' = [st EXCEPT ![i] = Reported(row'[i].status)] /\ st[i] = Reported(row[i].status)
    BY <1>1
  <1>4. CASE Reported(row'[i].status) = Reported(row[i].status)
    <2>1. st' = st
      BY <1>3, <1>4
    <2>2. QED
      BY <1>2, <2>1 DEF Delivery!rdVars
  <1>5. CASE Reported(row[i].status) = "none" /\ Reported(row'[i].status) = "open"
    BY <1>2, <1>3, <1>5 DEF Delivery!Next, Delivery!Accept
  <1>6. CASE Reported(row[i].status) = "open" /\ Reported(row'[i].status) = "parked"
    BY <1>2, <1>3, <1>6 DEF Delivery!Next, Delivery!Park
  <1>7. CASE /\ Reported(row[i].status) = "open" /\ Reported(row'[i].status) = "delivered"
             /\ Recorded(i)
    BY <1>2, <1>3, <1>7 DEF Delivery!Next, Delivery!Deliver
  <1>8. QED
    BY <1>1, <1>4, <1>5, <1>6, <1>7

LEMMA NothingDelivery ==
  ASSUME ShowsNothing  PROVE [Delivery!Next]_(Delivery!rdVars)
  BY DEF ShowsNothing, Delivery!rdVars

\* The chain records a receipt that was accepted.
LEMMA DecideDelivery ==
  ASSUME TypeOK, TableInv, NEW i \in Items, NEW n \in TxNo, Decide(i, n)
  PROVE  [Delivery!Next]_(Delivery!rdVars)
  <1> DEFINE st == [k \in Items |-> Reported(row[k].status)]
             rec == {k \in Items : Recorded(k)}
  <1>1. row' = row /\ tx[i][n] = "pending"
    BY DEF Decide
  <1>2. PICK s : tx' = [tx EXCEPT ![i][n] = s]
    BY DEF Decide
  <1>3. \A k \in Items : k # i => Recorded(k)' = Recorded(k)
    BY <1>2 DEF TypeOK, Recorded
  <1>4. Recorded(i) => Recorded(i)'
    BY <1>1, <1>2 DEF TypeOK, Recorded
  <1>5. st[i] # "none"
    <2>1. row[i].hash = n /\ n # 0
      BY <1>1 DEF TableInv, Live, TxNo
    <2>2. QED
      BY <2>1 DEF TableInv, Reported
  <1>6. st' = st
    BY <1>1
  <1>7. rec' = rec \/ rec' = rec \cup {i}
    BY <1>3, <1>4
  <1>8. CASE rec' = rec
    BY <1>6, <1>8 DEF Delivery!rdVars
  <1>9. CASE rec' = rec \cup {i}
    BY <1>5, <1>6, <1>9 DEF Delivery!Next, Delivery!Record
  <1>10. QED
    BY <1>7, <1>8, <1>9

LEMMA WriteShows ==
  ASSUME TypeOK, NEW w \in Procs, WorkInv(w), pc[w] \in Busy, NEW r, WriteRow(w, r),
         tx' = tx,
         Reported(r.status) \in {"open", "parked"}
           \/ (Reported(r.status) = "delivered" /\ Recorded(cur[w].id))
  PROVE  ShowsStep
  <1>1. cur[w].id \in Items /\ Open(cur[w].id) /\ row' = [row EXCEPT ![cur[w].id] = r]
    BY DEF TypeOK, Snapshot, WorkInv, WriteRow
  <1>2. row'[cur[w].id] = r /\ \A k \in Items \ {cur[w].id} : row'[k] = row[k]
    BY <1>1 DEF TypeOK
  <1>3. \A i \in Items : Recorded(i)' = Recorded(i)
    BY DEF Recorded
  <1>4. QED
    BY <1>1, <1>2, <1>3 DEF ShowsStep, Open

\* The steps of a run, and of what is outside of it.
LEMMA RunShows ==
  ASSUME TypeOK, TableInv, NEW w \in Procs, ListInv(w), Run(w)
  PROVE  ShowsStep \/ ShowsNothing
  <1>1. UNCHANGED <<row, tx>> => ShowsNothing
    BY DEF ShowsNothing, Recorded
  <1>2. CASE ClaimPending(w)
    <2>1. \A i \in Items : row'[i].status = row[i].status
      <3>1. \A i \in Items : row[i] \in Row /\ 0 \in Hash
        BY Witnesses DEF TypeOK
      <3>2. QED
        BY <1>2, <3>1, OpenOps DEF ClaimPending
    <2>2. QED
      BY <1>2, <2>1 DEF ClaimPending, ShowsNothing, Recorded, chain
  <1>3. CASE PromoteExhausted(w)
    <2>1. PICK s \in batch[w] : row' = [row EXCEPT ![s.id] = MoveToDeadLetter(@)]
      BY <1>3 DEF PromoteExhausted
    <2>2. s.id \in Items /\ Open(s.id) /\ row[s.id] \in Row /\ 0 \in Hash
      BY Witnesses DEF TypeOK, Snapshot, ListInv
    <2>3. /\ row'[s.id].status = "dead"
          /\ \A k \in Items \ {s.id} : row'[k] = row[k]
      BY <2>1, <2>2, OpenOps DEF TypeOK
    <2>4. \A i \in Items : Recorded(i)' = Recorded(i)
      BY <1>3 DEF PromoteExhausted, Recorded, chain
    <2>5. QED
      BY <2>2, <2>3, <2>4 DEF ShowsStep, Open, Reported
  <1>4. CASE \/ ListConfirming(w) \/ ListFailed(w) \/ SkipNotDue(w)
             \/ PickToConfirm(w) \/ CheckConfirmation(w)
    BY <1>1, <1>4 DEF ListConfirming, ListFailed, SkipNotDue, PickToConfirm,
                      CheckConfirmation, chain
  <1>5. QED
    BY <1>2, <1>3, <1>4 DEF Run

LEMMA SendShows ==
  ASSUME SingleAssumption, ReceiptInv, NEW w \in Procs, WorkInv(w), Send(w)
  PROVE  ShowsStep \/ ShowsNothing
  <1> USE DEF ReceiptInv
  <1>1. UNCHANGED <<row, tx>> => ShowsNothing
    BY DEF ShowsNothing, Recorded
  <1>2. CASE \/ EndOfRun(w) \/ PickToSend(w) \/ Resolve(w) \/ BuildFails(w)
             \/ AwaitSuccess(w) \/ AwaitFailure(w) \/ GiveUp(w)
    BY <1>1, <1>2 DEF EndOfRun, PickToSend, Resolve, BuildFails, AwaitSuccess, AwaitFailure,
                      GiveUp, chain
  <1>b. pc[w] \in Busy => cur[w].id \in Items /\ Mine(w) \in Row /\ cur[w].hash \in Hash
    BY TypeParts, MineType
  <1>3. CASE Build(w)
    <2> DEFINE n == built[cur[w].id] + 1
    <2>1. /\ cur[w].id \in Items /\ n \in TxNo /\ n \in Hash /\ Mine(w) \in Row
          /\ n > built[cur[w].id] /\ w \in Bare
      BY <1>3, <1>b, MaxTxAssumption
         DEF Build, TypeOK, Hash, TxNo, Busy, PC, SingleAssumption, Procs
    <2>2. /\ tx[cur[w].id][n] = "none"
          /\ tx' = [tx EXCEPT ![cur[w].id][n] = "built"]
          /\ row' = [row EXCEPT ![cur[w].id] = PersistSubmittedTxHash(Mine(w), n)]
      BY <1>3, <2>1 DEF Build, WriteRow, TxFresh
    <2> HIDE DEF n
    <2>3. \A i \in Items : Recorded(i)' = Recorded(i)
      BY <2>1, <2>2 DEF TypeOK, Recorded
    <2>4. \A i \in Items : row'[i].status = row[i].status
      BY <2>1, <2>2, OpenOps DEF TypeOK, Mine
    <2>5. QED
      BY <2>3, <2>4 DEF ShowsNothing
  <1>4. CASE Broadcast(w) \/ BroadcastFails(w)
    <2>1. cur[w].id \in Items /\ txno[w] \in TxNo /\ tx[cur[w].id][txno[w]] = "built"
      BY <1>4, <1>b DEF Broadcast, BroadcastFails, TypeOK, OwnTx, OwnsTx, Busy, PC, Sending
    <2>2. PICK st \in {"pending", "dropped"} : tx' = [tx EXCEPT ![cur[w].id][txno[w]] = st]
      BY <1>4 DEF Broadcast, BroadcastFails, SetTx
    <2>3. \A i \in Items : Recorded(i)' = Recorded(i)
      BY <2>1, <2>2 DEF TypeOK, Recorded
    <2>4. QED
      BY <1>4, <2>3 DEF Broadcast, BroadcastFails, ShowsNothing
  <1>w. /\ \A t \in {"failed", "pending", "confirming", "reopened"} : Reported(t) = "open"
        /\ Reported("sent") = "delivered" /\ Reported("dead") = "parked"
    BY DEF Reported
  <1>5. CASE MarkSent(w)
    <2>1. Recorded(cur[w].id) /\ WriteRow(w, UpdateStatus(Mine(w), "sent")) /\ tx' = tx
      BY <1>5 DEF MarkSent, SentIsJustified, chain
    <2>2. pc[w] \in Busy
      BY <1>5 DEF MarkSent, Busy, PC
    <2>3. QED
      BY <1>b, <1>w, <2>1, <2>2, WriteShows, OpenOps
  <1>6. CASE \/ MarkFailed(w) \/ MarkConfirmingStep(w) \/ Reopen(w)
             \/ Requeue(w) \/ ScheduleRetry(w)
    <2>1. pc[w] \in Busy /\ tx' = tx
      BY <1>6 DEF MarkFailed, MarkConfirmingStep, Reopen, Requeue, ScheduleRetry, Busy, PC,
                  chain
    <2>2. PICK r \in {UpdateStatus(Mine(w), "failed"), UpdateStatus(Mine(w), "pending"),
                      MarkConfirming(Mine(w), cur[w].hash), ReopenItem(Mine(w)),
                      MoveToDeadLetter(Mine(w))} : WriteRow(w, r)
      BY <1>6 DEF MarkFailed, MarkConfirmingStep, Reopen, Requeue, ScheduleRetry
    <2>3. Reported(r.status) \in {"open", "parked"}
      BY <1>b, <1>w, <2>1, <2>2, OpenOps
    <2>4. QED
      BY <2>1, <2>2, <2>3, WriteShows
  <1>7. QED
    BY <1>2, <1>3, <1>4, <1>5, <1>6
       DEF Send, BroadcastReplyLost, SingleAssumption, ClearHash, WorkInv

LEMMA EnqueueShows ==
  ASSUME TypeOK, NEW i \in Items, Enqueue(i) \/ ClaimAges(i)
  PROVE  ShowsStep \/ ShowsNothing
  <1>1. \A k \in Items : Recorded(k)' = Recorded(k)
    BY DEF Enqueue, ClaimAges, Recorded, chain
  <1>2. row[i] \in Row /\ 0 \in Hash
    BY Witnesses DEF TypeOK
  <1>3. CASE Enqueue(i)
    <2>1. row' = [row EXCEPT ![i] = Create(row[i])] /\ row[i].status = "absent"
      BY <1>3 DEF Enqueue
    <2>2. row'[i].status = "pending" /\ \A k \in Items \ {i} : row'[k] = row[k]
      BY <1>2, <2>1, OpenOps DEF TypeOK
    <2>3. Reported(row[i].status) = "none" /\ Reported(row'[i].status) = "open"
      BY <2>1, <2>2 DEF Reported
    <2>4. QED
      BY <1>1, <2>2, <2>3 DEF ShowsStep
  <1>4. CASE ClaimAges(i)
    <2>1. row' = [row EXCEPT ![i].claim = "stale"]
      BY <1>4 DEF ClaimAges
    <2>2. \A k \in Items : row'[k].status = row[k].status
      BY <1>2, <2>1 DEF TypeOK, Row
    <2>3. QED
      BY <1>1, <2>2 DEF ShowsNothing
  <1>5. QED
    BY <1>3, <1>4

\* One run at a time of a worker that keeps its hashes implements
\* ReceiptDelivery: SENT is delivered, DEAD is parked, and a row of any other
\* status is open; what is delivered is on the chain and stays delivered.
THEOREM OutboxDelivers ==
  ASSUME SingleAssumption  PROVE Spec => DeliversReceipts
  <1>1. Init => Delivery!Init
    BY DEF Init, NoRow, Recorded, Reported, Delivery!Init
  <1>2. ASSUME ReceiptInv, SingleInv, [Next]_vars
        PROVE  [Delivery!Next]_(Delivery!rdVars)
    <2> USE DEF ReceiptInv
    <2>1. ASSUME NEW w \in Procs, Run(w) \/ Send(w)  PROVE ShowsStep \/ ShowsNothing
      <3>1. TypeOK /\ TableInv /\ ListInv(w) /\ WorkInv(w)
        BY <1>2 DEF SingleInv
      <3>2. CASE Run(w)
        BY <3>1, <3>2, RunShows
      <3>3. CASE Send(w)
        BY <1>2, <3>1, <3>3, SendShows
      <3>4. QED
        BY <2>1, <3>2, <3>3
    <2>2. ASSUME NEW w \in Procs, Crash(w)  PROVE ShowsNothing
      BY <2>2 DEF Crash, ShowsNothing, Recorded, chain
    <2>3. CASE UNCHANGED vars
      <3>1. ShowsNothing
        BY <2>3 DEF vars, ShowsNothing, Recorded
      <3>2. QED
        BY <3>1, NothingDelivery
    <2>4. CASE \E i \in Items, n \in TxNo : Decide(i, n)
      <3>1. PICK i \in Items, n \in TxNo : Decide(i, n)
        BY <2>4
      <3>2. QED
        BY <1>2, <3>1, DecideDelivery DEF SingleInv
    <2>5. CASE ShowsStep \/ ShowsNothing
      BY <2>5, ShowsDelivery, NothingDelivery
    <2>6. CASE Next
      <3>1. CASE \E w \in Procs : Run(w) \/ Send(w) \/ Crash(w)
        BY <2>1, <2>2, <2>5, <3>1
      <3>2. CASE \E i \in Items : Enqueue(i) \/ ClaimAges(i)
        BY <1>2, <2>5, <3>2, EnqueueShows
      <3>3. QED
        BY <2>4, <2>6, <3>1, <3>2 DEF Next, Procs, SingleAssumption
    <2>7. QED
      BY <1>2, <2>3, <2>6
  <1>3. QED
    BY <1>1, <1>2, SingleSpec, PTL DEF Spec, DeliversReceipts, Delivery!Spec

-----------------------------------------------------------------------------
(* The rows that no run takes further.                                     *)

\* What a step of one process does to an item it does not have in hand, but for
\* a listing of rows to confirm: the row and its transactions stay, and it is
\* not taken in hand.  The others keep what they have.
Passes(w, i) ==
  /\ row'[i] = row[i] /\ tx'[i] = tx[i]
  /\ cur'[w].id # i
  /\ \A s \in batch'[w] : s.id = i => s \in batch[w] /\ phase'[w] = phase[w]
  /\ \A v \in Procs \ {w} :
       pc'[v] = pc[v] /\ phase'[v] = phase[v] /\ batch'[v] = batch[v] /\ cur'[v] = cur[v]
  /\ UNCHANGED env

\* The ends of an attempt, and the moves within one.
LEMMA MovesPass ==
  ASSUME TypeOK, NEW w \in Procs, NEW i \in Items, cur[w].id # i,
         \/ NextItem(w) \/ SendReturnsFalse(w)
         \/ (\E l \in PC : Goto(w, l)) /\ UNCHANGED local
  PROVE  /\ cur'[w].id # i /\ phase'[w] = phase[w] /\ batch' = batch
         /\ \A v \in Procs \ {w} : pc'[v] = pc[v] /\ phase'[v] = phase[v] /\ cur'[v] = cur[v]
  BY OutboxAssumption DEF TypeOK, NextItem, SendReturnsFalse, Goto, local, NoSnap

LEMMA SendPasses ==
  ASSUME TypeOK, NEW w \in Procs, NEW i \in Items, Send(w), cur[w].id # i,
         \A s \in batch[w] : s.id = i => phase[w] = "confirming"
  PROVE  Passes(w, i)
  <1>1. ASSUME UNCHANGED env, tx'[i] = tx[i], row'[i] = row[i],
               \/ NextItem(w) \/ SendReturnsFalse(w)
               \/ (\E l \in PC : Goto(w, l)) /\ UNCHANGED local
        PROVE  Passes(w, i)
    BY <1>1, MovesPass DEF Passes
  <1>2. CASE EndOfRun(w)
    BY <1>2 DEF EndOfRun, EndOfBatch, Passes, Goto, TypeOK, chain
  <1>3. CASE PickToSend(w)
    <2>1. PICK s \in batch[w] : phase[w] # "confirming" /\ StartSend(w, s)
      BY <1>3 DEF PickToSend
    <2>2. s.id # i
      BY <2>1
    <2>3. UNCHANGED <<row, tx, env>>
      BY <1>3 DEF PickToSend, chain
    <2>4. QED
      BY <2>1, <2>2, <2>3 DEF StartSend, Goto, Passes, TypeOK
  <1>4. CASE Build(w)
    <2>1. /\ row' = row \/ WriteRow(w, PersistSubmittedTxHash(Mine(w), built[cur[w].id] + 1))
          /\ tx' = [tx EXCEPT ![cur[w].id][built[cur[w].id] + 1] = "built"]
          /\ Goto(w, "broadcast") /\ UNCHANGED <<phase, batch, cur, env>>
      BY <1>4 DEF Build
    <2>2. row'[i] = row[i] /\ tx'[i] = tx[i]
      BY <2>1 DEF WriteRow, TypeOK
    <2>3. QED
      BY <2>1, <2>2 DEF Goto, Passes, TypeOK
  <1>5. CASE BuildFails(w) \/ AwaitSuccess(w) \/ AwaitFailure(w) \/ Resolve(w) \/ GiveUp(w)
    <2>1. UNCHANGED <<row, tx, env>>
      BY <1>5 DEF BuildFails, AwaitSuccess, AwaitFailure, Resolve, GiveUp, chain
    <2>2. SendReturnsFalse(w) \/ ((\E l \in PC : Goto(w, l)) /\ UNCHANGED local)
      BY <1>5 DEF BuildFails, AwaitSuccess, AwaitFailure, Resolve, GiveUp, PC
    <2>3. QED
      BY <1>1, <2>1, <2>2
  <1>6. CASE Broadcast(w) \/ BroadcastFails(w) \/ BroadcastReplyLost(w)
    <2>1. PICK st : SetTx(w, st)
      BY <1>6 DEF Broadcast, BroadcastFails, BroadcastReplyLost
    <2>2. tx'[i] = tx[i]
      BY <2>1 DEF SetTx, TypeOK
    <2>3. row' = row /\ UNCHANGED env /\ (\E l \in PC : Goto(w, l)) /\ UNCHANGED local
      BY <1>6 DEF Broadcast, BroadcastFails, BroadcastReplyLost, PC
    <2>4. QED
      BY <1>1, <2>2, <2>3
  <1>7. CASE \/ MarkSent(w) \/ MarkFailed(w) \/ MarkConfirmingStep(w) \/ ClearHash(w)
             \/ Reopen(w) \/ Requeue(w) \/ ScheduleRetry(w)
    <2>1. \E r : WriteRow(w, r)
      BY <1>7 DEF MarkSent, MarkFailed, MarkConfirmingStep, ClearHash, Reopen, Requeue,
                  ScheduleRetry
    <2>2. row'[i] = row[i]
      BY <2>1 DEF WriteRow, TypeOK
    <2>3. UNCHANGED <<tx, env>>
      BY <1>7 DEF MarkSent, MarkFailed, MarkConfirmingStep, ClearHash, Reopen, Requeue,
                  ScheduleRetry, chain
    <2>4. \/ NextItem(w) \/ SendReturnsFalse(w)
          \/ (\E l \in PC : Goto(w, l)) /\ UNCHANGED local
      BY <1>7 DEF MarkSent, MarkFailed, MarkConfirmingStep, ClearHash, Reopen, Requeue,
                  ScheduleRetry, PC
    <2>5. QED
      BY <1>1, <2>2, <2>3, <2>4
  <1>8. QED
    BY <1>2, <1>3, <1>4, <1>5, <1>6, <1>7 DEF Send

\* A run does the same, unless it lists the row or looks at one it listed.
LEMMA RunPasses ==
  ASSUME TypeOK, NEW w \in Procs, NEW i \in Items, Run(w), cur[w].id # i,
         row[i].status \in {"reopened", "confirming"},
         \A s \in batch[w] : s.id = i => phase[w] = "confirming"
  PROVE  \/ Passes(w, i)
         \/ ListConfirming(w) /\ row[i].status = "confirming"
         \/ \E s \in batch[w] : PickToConfirm(w) /\ s.id = i
  <1>1. CASE ClaimPending(w)
    <2>1. row'[i] = row[i] /\ batch'[w] = {Snap(k) : k \in {j \in Items : Claimable(row[j])}}
      BY <1>1 DEF ClaimPending, StartLoop, Claimable, TypeOK
    <2>2. \A s \in batch'[w] : s.id # i
      BY <2>1 DEF Snap, Claimable
    <2>3. QED
      BY <1>1, <2>1, <2>2 DEF ClaimPending, StartLoop, Goto, Passes, TypeOK, chain
  <1>2. CASE (ListConfirming(w) /\ row[i].status # "confirming") \/ ListFailed(w)
    <2>1. \A s \in batch'[w] : s.id # i
      BY <1>2 DEF ListConfirming, ListFailed, StartLoop, ListByStatus, Snap, TypeOK
    <2>2. QED
      BY <1>2, <2>1 DEF ListConfirming, ListFailed, StartLoop, Goto, Passes, TypeOK, chain
  <1>3. CASE SkipNotDue(w)
    BY <1>3 DEF SkipNotDue, Skip, Passes, TypeOK, chain
  <1>4. CASE PromoteExhausted(w)
    <2>1. PICK s \in batch[w] : row' = [row EXCEPT ![s.id] = MoveToDeadLetter(@)] /\ Skip(w, s)
      BY <1>4 DEF PromoteExhausted
    <2>2. s.id # i
      BY <1>4 DEF PromoteExhausted
    <2>3. UNCHANGED <<tx, env>>
      BY <1>4 DEF PromoteExhausted, chain
    <2>4. QED
      BY <2>1, <2>2, <2>3 DEF Skip, Passes, TypeOK
  <1>5. CASE PickToConfirm(w) /\ \A s \in batch[w] : s.id # i
    <2>1. UNCHANGED <<row, tx, env>>
      BY <1>5 DEF PickToConfirm, chain
    <2>2. PICK s \in batch[w] :
            \/ /\ Goto(w, "check") /\ cur' = [cur EXCEPT ![w] = s]
               /\ batch' = [batch EXCEPT ![w] = @ \ {s}] /\ UNCHANGED phase
            \/ Skip(w, s)
      BY <1>5 DEF PickToConfirm
    <2>3. s.id # i
      BY <1>5, <2>2
    <2>4. QED
      BY <2>1, <2>2, <2>3 DEF Skip, Goto, Passes, TypeOK
  <1>6. CASE CheckConfirmation(w)
    <2>1. UNCHANGED <<row, tx, env>>
      BY <1>6 DEF CheckConfirmation, chain
    <2>2. NextItem(w) \/ ((\E l \in PC : Goto(w, l)) /\ UNCHANGED local)
      BY <1>6 DEF CheckConfirmation, DepthTest, PC
    <2>3. QED
      BY <2>1, <2>2, MovesPass DEF Passes
  <1>7. QED
    BY <1>1, <1>2, <1>3, <1>4, <1>5, <1>6 DEF Run

\* Neither the row, but for the age of its claim, nor a receipt changes, and
\* nobody takes the item in hand.
Leaves(i) ==
  /\ row'[i].status = row[i].status /\ row'[i].hash = row[i].hash /\ row'[i].ledger = row[i].ledger
  /\ \A n \in TxNo : tx[i][n] = "success" => tx'[i][n] = "success"
  /\ \A w \in Procs :
       /\ cur'[w].id = i => cur'[w] = cur[w] /\ pc'[w] = pc[w] /\ phase'[w] = phase[w]
       /\ \A s \in batch'[w] : s.id = i => s \in batch[w] /\ phase'[w] = phase[w]
  /\ ~Sought(i)'

LEMMA PassesLeaves ==
  ASSUME NEW w \in Procs, NEW i \in Items, Passes(w, i), ~Sought(i)
  PROVE  Leaves(i)
  <1>1. ~Sought(i)'
    <2>1. ASSUME NEW c \in Clients, phase'[c] = "direct",
                 cur'[c].id = i \/ \E s \in batch'[c] : s.id = i
          PROVE  phase[c] = "direct" /\ (cur[c].id = i \/ \E s \in batch[c] : s.id = i)
      BY <2>1 DEF Passes, Procs
    <2>2. adm' = adm
      BY DEF Passes, env
    <2>3. QED
      BY <2>1, <2>2 DEF Sought
  <1>2. QED
    BY <1>1 DEF Passes, Leaves

\* In the hands of those who check it, if of anybody.
AtMostChecked(i) ==
  /\ row[i].status \in {"reopened", "confirming"} /\ ~Sought(i)
  /\ \A w \in Procs : /\ cur[w].id = i => pc[w] = "check"
                      /\ \A s \in batch[w] : s.id = i => phase[w] = "confirming"

\* The requests, the admin routes, the chain and the clock.
LEMMA OtherLeaves ==
  ASSUME TypeOK, NEW i \in Items, AtMostChecked(i),
         \/ \E c \in Clients, j \in Items : SubmitRequest(c, j) \/ AdminRetry(c, j)
         \/ \E c \in Clients : AdminRetryAll(c)
         \/ \E a \in Admins : AdminRead(a) \/ AdminWrite(a)
         \/ \E j \in Items : Enqueue(j) \/ ClaimAges(j)
         \/ \E j \in Items, n \in TxNo : Decide(j, n)
  PROVE  Leaves(i) \/ Sought(i)'
  <1> USE DEF AtMostChecked
  <1>1. ASSUME NEW c \in Clients, NEW ph, NEW snaps, StartLoop(c, "direct", snaps),
               pc[c] = "idle", row'[i] = row[i], UNCHANGED chain, adm' = adm
        PROVE  Leaves(i) \/ Sought(i)'
    <2>1. c \in Procs /\ cur[c].id # i
      BY <1>1 DEF Procs
    <2>2. /\ cur' = cur /\ phase'[c] = "direct" /\ batch'[c] = snaps /\ tx' = tx
          /\ \A v \in Procs \ {c} : pc'[v] = pc[v] /\ phase'[v] = phase[v] /\ batch'[v] = batch[v]
      BY <1>1, <2>1 DEF StartLoop, Goto, TypeOK, chain
    <2>3. CASE \E s \in snaps : s.id = i
      BY <2>2, <2>3 DEF Sought
    <2>4. CASE \A s \in snaps : s.id # i
      <3>1. ~Sought(i)'
        BY <1>1, <2>1, <2>2, <2>4 DEF Sought, Procs
      <3>2. QED
        BY <1>1, <2>1, <2>2, <2>4, <3>1 DEF Leaves
    <2>5. QED
      BY <2>3, <2>4
  <1>2. ASSUME NEW c \in Clients, NEW j \in Items, SubmitRequest(c, j) \/ AdminRetry(c, j)
        PROVE  Leaves(i) \/ Sought(i)'
    <2>1. row'[i] = row[i]
      BY <1>2 DEF SubmitRequest, AdminRetry, Create, TypeOK
    <2>2. QED
      BY <1>1, <1>2, <2>1 DEF SubmitRequest, AdminRetry, env
  <1>3. ASSUME NEW c \in Clients, AdminRetryAll(c) PROVE Leaves(i) \/ Sought(i)'
    BY <1>1, <1>3 DEF AdminRetryAll
  <1>4. ASSUME row'[i].status = row[i].status, row'[i].hash = row[i].hash,
               row'[i].ledger = row[i].ledger, UNCHANGED <<pc, local>>,
               \A n \in TxNo : tx[i][n] = "success" => tx'[i][n] = "success"
        PROVE  Leaves(i) \/ Sought(i)'
    BY <1>4 DEF Leaves, local
  <1>5. ASSUME NEW a \in Admins, AdminRead(a) \/ AdminWrite(a) PROVE Leaves(i) \/ Sought(i)'
    <2>1. row'[i] = row[i]
      BY <1>5 DEF AdminRead, AdminWrite, TypeOK, Sought
    <2>2. QED
      BY <1>4, <1>5, <2>1 DEF AdminRead, AdminWrite, chain
  <1>6. ASSUME NEW j \in Items, Enqueue(j) \/ ClaimAges(j) PROVE Leaves(i) \/ Sought(i)'
    <2>1. /\ row'[i].status = row[i].status /\ row'[i].hash = row[i].hash
          /\ row'[i].ledger = row[i].ledger
      <3>1. row[i] \in Row /\ row \in [Items -> Row]
        BY DEF TypeOK
      <3>2. CASE Enqueue(j)
        BY <3>1, <3>2 DEF Enqueue
      <3>3. CASE ClaimAges(j) /\ i = j
        <4>1. row'[i] = [row[i] EXCEPT !.claim = "stale"]
          BY <3>1, <3>3 DEF ClaimAges
        <4>2. QED
          BY <3>1, <4>1 DEF Row
      <3>4. CASE ClaimAges(j) /\ i # j
        BY <3>1, <3>4 DEF ClaimAges
      <3>5. QED
        BY <1>6, <3>2, <3>3, <3>4
    <2>2. QED
      BY <1>4, <1>6, <2>1 DEF Enqueue, ClaimAges, chain
  <1>7. ASSUME NEW j \in Items, NEW n \in TxNo, Decide(j, n) PROVE Leaves(i) \/ Sought(i)'
    <2>1. \A m \in TxNo : tx[i][m] = "success" => tx'[i][m] = "success"
      BY <1>7 DEF Decide, TypeOK
    <2>2. QED
      BY <1>4, <1>7, <2>1 DEF Decide
  <1>8. QED
    BY <1>2, <1>3, <1>5, <1>6, <1>7

\* Every step leaves the item alone or takes it up, or is one of the polling
\* for confirmations.
LEMMA StepLeaves ==
  ASSUME TypeOK, NEW i \in Items, AtMostChecked(i), [Next]_vars
  PROVE  \/ Leaves(i) \/ Sought(i)'
         \/ \E w \in Workers :
              \/ ListConfirming(w) /\ row[i].status = "confirming"
              \/ \E s \in batch[w] : PickToConfirm(w) /\ s.id = i
              \/ CheckConfirmation(w) /\ cur[w].id = i
  <1>1. ASSUME NEW w \in Procs, Send(w) PROVE Leaves(i)
    <2>1. cur[w].id # i
      <3>1. pc[w] # "check"
        BY <1>1 DEF Send, EndOfRun, EndOfBatch, PickToSend, Resolve, Build, BuildFails, Broadcast,
                    BroadcastFails, BroadcastReplyLost, AwaitSuccess, AwaitFailure, MarkSent,
                    MarkFailed, GiveUp, MarkConfirmingStep, ClearHash, Reopen, Requeue,
                    ScheduleRetry
      <3>2. QED
        BY <3>1 DEF AtMostChecked
    <2>2. Passes(w, i)
      BY <1>1, <2>1, SendPasses DEF AtMostChecked
    <2>3. QED
      BY <2>2, PassesLeaves DEF AtMostChecked
  <1>2. ASSUME NEW w \in Workers, Run(w), cur[w].id # i
        PROVE  \/ Leaves(i)
               \/ ListConfirming(w) /\ row[i].status = "confirming"
               \/ \E s \in batch[w] : PickToConfirm(w) /\ s.id = i
    <2>1. w \in Procs
      BY DEF Procs
    <2>2. QED
      BY <1>2, <2>1, RunPasses, PassesLeaves DEF AtMostChecked
  <1>3. ASSUME NEW w \in Workers, Run(w), cur[w].id = i PROVE CheckConfirmation(w)
    <2>1. pc[w] = "check"
      BY <1>3 DEF AtMostChecked, Procs
    <2>2. QED
      BY <1>3, <2>1 DEF Run, ClaimPending, ListConfirming, ListFailed, EndOfBatch, SkipNotDue,
                        PromoteExhausted, PickToConfirm
  <1>4. ASSUME NEW w \in Procs, Crash(w) PROVE Leaves(i)
    <2>1. /\ UNCHANGED <<row, tx, adm>> /\ cur'[w] = NoSnap /\ batch'[w] = {}
          /\ \A v \in Procs \ {w} :
               pc'[v] = pc[v] /\ phase'[v] = phase[v] /\ batch'[v] = batch[v] /\ cur'[v] = cur[v]
      BY <1>4 DEF Crash, Goto, TypeOK, chain
    <2>2. cur'[w].id # i
      BY <2>1, OutboxAssumption DEF NoSnap
    <2>3. ~Sought(i)'
      BY <2>1, <2>2 DEF Sought, Procs, AtMostChecked
    <2>4. QED
      BY <2>1, <2>2, <2>3 DEF Leaves
  <1>5. CASE UNCHANGED vars
    BY <1>5 DEF vars, Leaves, Sought, AtMostChecked
  <1>6. QED
    BY <1>1, <1>2, <1>3, <1>4, <1>5, OtherLeaves DEF Next

LEMMA StrandedStep ==
  ASSUME TypeOK, NEW i \in Items, Stranded(i), [Next]_vars
  PROVE  Stranded(i)' \/ Sought(i)'
  <1>1. AtMostChecked(i)
    BY DEF Stranded, AtMostChecked
  <1>2. Leaves(i) \/ Sought(i)'
    <2>1. ASSUME NEW w \in Workers
          PROVE  /\ cur[w].id # i /\ \A s \in batch[w] : s.id # i
                 /\ row[i].status # "confirming"
      BY DEF Stranded, Procs
    <2>2. QED
      BY <1>1, <2>1, StepLeaves
  <1>3. QED
    BY <1>2 DEF Leaves, Stranded

LEMMA ParkedStep ==
  ASSUME TypeOK, Depth # 0, FlakyUntil = 0, NEW i \in Items, Parked(i), [Next]_vars
  PROVE  Parked(i)' \/ Sought(i)'
  <1>1. AtMostChecked(i)
    BY DEF Parked, AtMostChecked
  <1>2. CASE Leaves(i)
    BY <1>2 DEF Leaves, Parked
  <1> DEFINE Rest(w) == /\ UNCHANGED <<row, tx, adm>>
                        /\ \A v \in Procs \ {w} : /\ pc'[v] = pc[v] /\ phase'[v] = phase[v]
                                                  /\ batch'[v] = batch[v] /\ cur'[v] = cur[v]
  <1>3. ASSUME NEW w \in Procs, Rest(w), phase'[w] = "confirming",
               cur'[w].id = i => /\ pc'[w] = "check" /\ cur'[w].hash = row[i].hash
                                 /\ cur'[w].ledger = row[i].ledger,
               \A s \in batch'[w] : s.id = i => s.hash = row[i].hash /\ s.ledger = row[i].ledger
        PROVE  Parked(i)'
    <2>1. ~Sought(i)'
      BY <1>1, <1>3 DEF Sought, AtMostChecked, Procs
    <2>2. QED
      BY <1>3, <2>1 DEF Parked
  <1>4. ASSUME NEW w \in Workers, ListConfirming(w) PROVE Parked(i)'
    <2>1. w \in Procs /\ pc[w] = "loop" /\ Rest(w) /\ cur' = cur /\ phase'[w] = "confirming"
      BY <1>4 DEF ListConfirming, EndOfBatch, StartLoop, Goto, Procs, TypeOK, chain, env
    <2>2. batch'[w] = ListByStatus("confirming")
      BY <1>4, <2>1 DEF ListConfirming, StartLoop, TypeOK
    <2>3. \A s \in batch'[w] : s.id = i => s.hash = row[i].hash /\ s.ledger = row[i].ledger
      BY <2>2 DEF ListByStatus, Snap
    <2>4. cur'[w].id # i
      BY <1>1, <2>1 DEF AtMostChecked
    <2>5. QED
      BY <1>3, <2>1, <2>3, <2>4
  <1>5. ASSUME NEW w \in Workers, PickToConfirm(w) PROVE Parked(i)'
    <2>1. /\ w \in Procs /\ pc[w] = "loop" /\ phase'[w] = "confirming"
          /\ UNCHANGED <<row, tx, adm>>
      BY <1>5 DEF PickToConfirm, Skip, Procs, chain, env
    <2>2. PICK s \in batch[w] :
            \/ /\ Goto(w, "check") /\ cur' = [cur EXCEPT ![w] = s]
               /\ batch' = [batch EXCEPT ![w] = @ \ {s}] /\ UNCHANGED phase
            \/ Skip(w, s)
      BY <1>5 DEF PickToConfirm
    <2>3. Rest(w) /\ batch'[w] \subseteq batch[w]
      BY <2>1, <2>2 DEF Goto, Skip, TypeOK
    <2>4. (cur'[w] = s /\ pc'[w] = "check") \/ cur'[w] = cur[w]
      BY <2>1, <2>2 DEF Goto, Skip, TypeOK
    <2>5. cur[w].id # i
      BY <1>1, <2>1 DEF AtMostChecked
    <2>6. \A q \in batch[w] : q.id = i => q.hash = row[i].hash /\ q.ledger = row[i].ledger
      BY <2>1 DEF Parked
    <2>7. QED
      BY <1>3, <2>1, <2>3, <2>4, <2>5, <2>6
  <1>6. ASSUME NEW w \in Workers, CheckConfirmation(w), cur[w].id = i PROVE Parked(i)'
    <2>1. /\ w \in Procs /\ phase[w] = "confirming" /\ cur[w].hash = row[i].hash
          /\ cur[w].ledger = cur[w].hash /\ cur[w].hash \in TxNo /\ row[i].retry \in Nat
          /\ tx[i][cur[w].hash] = "success"
          /\ \A s \in batch[w] : s.id = i => s.hash = row[i].hash /\ s.ledger = row[i].ledger
      BY <1>6 DEF Parked, Procs, TypeOK, Row
    <2>2. Lookup(i, cur[w].hash) \subseteq {"success", "pending"}
      BY <2>1 DEF Lookup
    <2>3. DepthTest(cur[w]) = {"loop"}
      BY <2>1 DEF DepthTest, TxNo
    <2>4. NextItem(w)
      BY <1>6, <2>2, <2>3 DEF CheckConfirmation
    <2>5. /\ cur'[w] = NoSnap /\ batch' = batch /\ phase'[w] = phase[w] /\ Rest(w)
      BY <1>6, <2>1, <2>4 DEF CheckConfirmation, NextItem, Goto, TypeOK, chain, env
    <2>6. cur'[w].id # i
      BY <2>5, OutboxAssumption DEF NoSnap
    <2>7. QED
      BY <1>3, <2>1, <2>5, <2>6
  <1>7. QED
    BY <1>1, <1>2, <1>4, <1>5, <1>6, StepLeaves

\* A row reopened by a run that died before it put it back to PENDING is listed
\* by no run: it stays so until a handler or an admin takes it up (sender.ts:163
\* and worker.ts make two statements of it).
THEOREM ReopenedRowsAreStranded == Spec => StrandedForGood
  <1>1. TypeOK /\ [Next]_vars =>
          [\A i \in Items : Stranded(i) => Stranded(i)' \/ Sought(i)']_vars
    BY StrandedStep
  <1>2. QED
    BY <1>1, TypeCorrect, PTL DEF Spec, StrandedForGood

\* With a depth to wait for, and an RPC that keeps finding the transaction, a
\* row whose transaction was confirmed is never SENT by checkConfirmation: the
\* ledger it counts from is the ledger it compares with (worker.ts:178).
THEOREM ConfirmedRowsAreParked ==
  ASSUME Depth # 0, FlakyUntil = 0
  PROVE  Spec => ParkedForGood
  <1>1. TypeOK /\ [Next]_vars =>
          [\A i \in Items : Parked(i) => Parked(i)' \/ Sought(i)']_vars
    BY ParkedStep
  <1>2. QED
    BY <1>1, TypeCorrect, PTL DEF Spec, ParkedForGood

=============================================================================
