------------------------------- MODULE Outbox -------------------------------
(***************************************************************************)
(* The transactional outbox that carries receipts to the Soroban contract: *)
(* the rows of outbox_items, the passes of OutboxWorker over them, request *)
(* handlers and admin routes that touch the same rows, the adapter's       *)
(* submission steps, and the chain.                                        *)
(*                                                                         *)
(* A worker here is one run of process(): setInterval starts the next run  *)
(* whether or not the previous one has ended, so two workers are two       *)
(* overlapping runs of one OutboxWorker as well as two OutboxWorkers.      *)
(* Every await in the code is a boundary between two steps.  What a        *)
(* process decides from a row it decides from the snapshot it read.        *)
(*                                                                         *)
(* The items are receipts.  Changes of a deal's status and of a tenant's   *)
(* reputation share the table and the worker; sender.ts sends them without *)
(* the onTxBuilt hook, so no hash of theirs is ever stored.                *)
(***************************************************************************)
EXTENDS OutboxRows

CONSTANTS
  Items,            \* outbox items
  Workers,          \* concurrent runs of OutboxWorker.process()
  Clients,          \* request handlers and admin routes that call the sender
  Admins,           \* admin requests that rewrite rows
  NoItem,           \* not an item
  MaxAttempts,      \* outboxConfig.maxAttempts (8)
  MaxRetryCount,    \* MAX_RETRY_COUNT of OutboxSender.send (10)
  Depth,            \* outboxConfig.confirmationDepth (3)
  Bare,             \* processes whose adapter is RealSorobanAdapter itself, which
                    \* calls onTxBuilt and has getTransactionStatus; that of the
                    \* others is in a circuit breaker, which passes on neither
  Confirmers,       \* runs of an OutboxWorker constructed with its bare adapter
  FlakyUntil,       \* bound: retry count up to which the RPC may answer NOT_FOUND
                    \* of a tx that can still apply, or has; 0: never
  RpcErrors,        \* a query of a tx may fail with a transient RPC error
  LostReplies,      \* a reply to sendTransaction may be lost after acceptance
  Timely,           \* a run finishes its claimed rows within five minutes
  Resubmit,         \* clients repeat a request for an item that exists
  MaxCrashes,       \* bound: crashes
  MaxAdminOps       \* bound: admin operations

ASSUME OutboxAssumption ==
  /\ NoItem \notin Items
  /\ MaxAttempts \in Nat \ {0}
  /\ MaxRetryCount \in Nat
  /\ Depth \in Nat
  /\ Bare \subseteq Workers \cup Clients /\ Confirmers \subseteq Workers
  /\ {RpcErrors, LostReplies, Timely, Resubmit} \subseteq BOOLEAN
  /\ FlakyUntil \in Nat
  /\ MaxCrashes \in Nat
  /\ MaxAdminOps \in Nat

VARIABLES
  row,      \* table outbox_items
  pc,       \* where each process is in process() / send()
  phase,    \* the loop it is in: pending, confirming, failed, or direct
  batch,    \* snapshots it has listed and not yet looked at
  cur,      \* the snapshot it is working on
  txno,     \* the transaction it has built for it
  built,    \* number of transactions built per item
  tx,       \* state of each transaction, on the chain or before it
  adm,      \* an admin request between its read and its writes
  crashes, adminOps

vars  == <<row, pc, phase, batch, cur, txno, built, tx, adm, crashes, adminOps>>
local == <<phase, batch, cur, txno>>
chain == <<built, tx>>
env   == <<adm, crashes, adminOps>>

Procs == Workers \cup Clients

\* "dup": included, and refused by the contract because the item's receipt
\* is recorded; "dropped": never included (expired, or a bad sequence).
TxState == {"none", "built", "pending", "success", "dup", "failed", "dropped"}

Phase == {"pending", "confirming", "failed", "direct"}

Snapshot == [id : Items, retry : Nat, hash : Hash, ledger : Hash]
NoSnap   == [id |-> NoItem, retry |-> 0, hash |-> 0, ledger |-> 0]

Recorded(i) == \E n \in TxNo : tx[i][n] = "success"

Snap(i) ==
  [id |-> i, retry |-> row[i].retry, hash |-> row[i].hash, ledger |-> row[i].ledger]

ListByStatus(s) == {Snap(i) : i \in {j \in Items : row[j].status = s}}

Init ==
  /\ row      = [i \in Items |-> NoRow]
  /\ pc       = [w \in Procs |-> "idle"]
  /\ phase    = [w \in Procs |-> "direct"]
  /\ batch    = [w \in Procs |-> {}]
  /\ cur      = [w \in Procs |-> NoSnap]
  /\ txno     = [w \in Procs |-> 0]
  /\ built    = [i \in Items |-> 0]
  /\ tx       = [i \in Items |-> [n \in TxNo |-> "none"]]
  /\ adm      = [a \in Admins |-> [op |-> "none", ids |-> {}]]
  /\ crashes  = 0
  /\ adminOps = 0

-----------------------------------------------------------------------------
(* Control flow of a process.                                              *)

Goto(w, l) == pc' = [pc EXCEPT ![w] = l]

\* The item is finished: back to the loop over the batch.
NextItem(w) ==
  /\ Goto(w, "loop")
  /\ cur'  = [cur EXCEPT ![w] = NoSnap]
  /\ txno' = [txno EXCEPT ![w] = 0]
  /\ UNCHANGED <<phase, batch>>

\* send() returns false: attemptSend goes on to scheduleRetry, a direct
\* caller of send() does nothing more.
SendReturnsFalse(w) ==
  IF phase[w] = "direct"
    THEN NextItem(w)
    ELSE Goto(w, "schedule") /\ UNCHANGED local

\* Mutant: the hash in flight is not looked at.
SendEntryBlind(w, s) == IF s.retry >= MaxRetryCount THEN "giveUp" ELSE "build"

\* The first decision of send(), all of it on the snapshot: an in-flight
\* hash is resolved, an exhausted item is given up, anything else is sent.
SendEntry(w, s) ==
  IF s.hash # 0 THEN (IF w \in Bare THEN "resolve" ELSE "clearHash")
  ELSE IF s.retry >= MaxRetryCount THEN "giveUp" ELSE "build"

StartSend(w, s) ==
  /\ Goto(w, SendEntry(w, s))
  /\ cur'   = [cur EXCEPT ![w] = s]
  /\ batch' = [batch EXCEPT ![w] = @ \ {s}]
  /\ UNCHANGED <<phase, txno>>

Skip(w, s) ==
  /\ batch' = [batch EXCEPT ![w] = @ \ {s}]
  /\ UNCHANGED <<pc, phase, cur, txno>>

StartLoop(w, ph, snaps) ==
  /\ Goto(w, "loop")
  /\ phase' = [phase EXCEPT ![w] = ph]
  /\ batch' = [batch EXCEPT ![w] = snaps]
  /\ UNCHANGED <<cur, txno>>

WriteRow(w, r) == row' = [row EXCEPT ![cur[w].id] = r]
Mine(w)        == row[cur[w].id]

-----------------------------------------------------------------------------
(* OutboxWorker.process().                                                 *)

\* Phase 1: claim the pending rows and read them back in one statement.  The
\* limit of 50 exceeds every instance checked.
ClaimPending(w) ==
  LET claimed == {i \in Items : Claimable(row[i])} IN
  /\ pc[w] = "idle"
  /\ row' = [i \in Items |->
               IF i \in claimed THEN LockForProcessing(row[i]) ELSE row[i]]
  /\ StartLoop(w, "pending", {Snap(i) : i \in claimed})
  /\ UNCHANGED <<chain, env>>

EndOfBatch(w, ph) == pc[w] = "loop" /\ batch[w] = {} /\ phase[w] = ph

ListConfirming(w) ==
  /\ EndOfBatch(w, "pending")
  /\ StartLoop(w, "confirming", ListByStatus("confirming"))
  /\ UNCHANGED <<row, chain, env>>

ListFailed(w) ==
  /\ EndOfBatch(w, "confirming")
  /\ StartLoop(w, "failed", ListByStatus("failed"))
  /\ UNCHANGED <<row, chain, env>>

EndOfRun(w) ==
  /\ EndOfBatch(w, "failed") \/ EndOfBatch(w, "direct")
  /\ Goto(w, "idle")
  /\ phase' = [phase EXCEPT ![w] = "direct"]
  /\ UNCHANGED <<row, batch, cur, txno, chain, env>>

\* attemptSend on a listed row.  In phase 3 the row must have attempts left;
\* that its backoff has elapsed is left open (timestamps are abstracted).
PickToSend(w) ==
  /\ pc[w] = "loop"
  /\ \E s \in batch[w] :
       /\ \/ phase[w] \in {"pending", "direct"}
          \/ phase[w] = "failed" /\ s.retry < MaxAttempts
       /\ StartSend(w, s)
  /\ UNCHANGED <<row, chain, env>>

\* shouldRetry is false: nextRetryAt is still in the future.
SkipNotDue(w) ==
  /\ pc[w] = "loop" /\ phase[w] = "failed"
  /\ \E s \in batch[w] : s.retry < MaxAttempts /\ Skip(w, s)
  /\ UNCHANGED <<row, chain, env>>

\* Phase 3 promotes an exhausted row to the dead-letter queue.
PromoteExhausted(w) ==
  /\ pc[w] = "loop" /\ phase[w] = "failed"
  /\ \E s \in batch[w] :
       /\ s.retry >= MaxAttempts
       /\ row' = [row EXCEPT ![s.id] = MoveToDeadLetter(@)]
       /\ Skip(w, s)
  /\ UNCHANGED <<chain, env>>

\* checkConfirmation returns at once without an adapter or a hash.
PickToConfirm(w) ==
  /\ pc[w] = "loop" /\ phase[w] = "confirming"
  /\ \E s \in batch[w] :
       IF w \in Confirmers /\ s.hash # 0
         THEN /\ Goto(w, "check")
              /\ cur'   = [cur EXCEPT ![w] = s]
              /\ batch' = [batch EXCEPT ![w] = @ \ {s}]
              /\ UNCHANGED <<phase, txno>>
         ELSE Skip(w, s)
  /\ UNCHANGED <<row, chain, env>>

-----------------------------------------------------------------------------
(* Queries of the chain.                                                   *)

\* What getTransactionStatus may answer for transaction n of item i.
Lookup(i, n) ==
  (CASE tx[i][n] = "success"            -> {"success"}
     [] tx[i][n] \in {"dup", "failed"}  -> {"failed"}
     [] tx[i][n] \in {"built", "dropped"} -> {"not_found"}
     [] OTHER                           -> {"pending"})
  \cup (IF RpcErrors THEN {"pending"} ELSE {})
  \* NOT_FOUND of a transaction not yet included or past retention, or an
  \* error that is not transient.
  \cup (IF row[i].retry < FlakyUntil THEN {"not_found"} ELSE {})

\* resolveInFlight, by what the chain answered.
Resolve(w) ==
  /\ pc[w] = "resolve"
  /\ \E answer \in Lookup(cur[w].id, cur[w].hash) :
       \/ answer = "success" /\ Goto(w, "markConfirming") /\ UNCHANGED local
       \/ answer = "pending" /\ SendReturnsFalse(w)
       \/ answer \in {"failed", "not_found"} /\ Goto(w, "reopen") /\ UNCHANGED local
  /\ UNCHANGED <<row, chain, env>>

\* The outcomes of the depth test on a successful answer.  The status carries
\* the ledger that included the transaction: it equals submitted_ledger when
\* that was stored for the same transaction, and may be any distance from it
\* when it was stored for another.
DepthTest(s) ==
  CASE Depth = 0         -> {"markSent"}
    [] s.ledger = 0      -> {"markConfirming"}
    [] s.ledger = s.hash -> {"loop"}
    [] OTHER             -> {"markSent", "loop"}

CheckConfirmation(w) ==
  /\ pc[w] = "check"
  /\ \E answer \in Lookup(cur[w].id, cur[w].hash) :
     \E next \in CASE answer = "success" -> DepthTest(cur[w])
                   [] answer = "pending" -> {"loop"}
                   [] OTHER              -> {"reopen"} :
       IF next = "loop" THEN NextItem(w) ELSE Goto(w, next) /\ UNCHANGED local
  /\ UNCHANGED <<row, chain, env>>

-----------------------------------------------------------------------------
(* Submission through the adapter: allocate a sequence, build and sign,    *)
(* onTxBuilt, sendTransaction, waitForTransaction.                         *)

\* Mutant: the hash is not persisted before the broadcast.
BuildUnrecorded(w) ==
  /\ pc[w] = "build" /\ built[cur[w].id] < MaxTx
  /\ LET n == built[cur[w].id] + 1
     IN /\ built' = [built EXCEPT ![cur[w].id] = n]
        /\ tx'    = [tx EXCEPT ![cur[w].id][n] = "built"]
        /\ txno'  = [txno EXCEPT ![w] = n]
  /\ Goto(w, "broadcast")
  /\ UNCHANGED <<row, phase, batch, cur, env>>

\* Mutant: the sequence is not advanced, every attempt builds the same transaction.
BuildSameAgain(w) ==
  /\ pc[w] = "build"
  /\ built' = [built EXCEPT ![cur[w].id] = 1]
  /\ tx'    = [tx EXCEPT ![cur[w].id][1] = IF @ = "none" THEN "built" ELSE @]
  /\ txno'  = [txno EXCEPT ![w] = 1]
  /\ IF w \in Bare THEN WriteRow(w, PersistSubmittedTxHash(Mine(w), 1)) ELSE UNCHANGED row
  /\ Goto(w, "broadcast")
  /\ UNCHANGED <<phase, batch, cur, env>>

\* A transaction is built and, when the adapter passes the hook on, its hash
\* is written to the row before anything is broadcast.
Build(w) ==
  /\ pc[w] = "build"
  /\ LET i == cur[w].id
         n == built[i] + 1
     IN /\ built[i] < MaxTx
        /\ built' = [built EXCEPT ![i] = n]
        /\ tx'    = [tx EXCEPT ![i][n] = "built"]
        /\ txno'  = [txno EXCEPT ![w] = n]
        /\ IF w \in Bare THEN WriteRow(w, PersistSubmittedTxHash(Mine(w), n))
                         ELSE UNCHANGED row
  /\ Goto(w, "broadcast")
  /\ UNCHANGED <<phase, batch, cur, env>>

\* An invalid payload, an adapter without the operation, a sequence that
\* cannot be allocated: the attempt fails before there is a transaction.
BuildFails(w) ==
  /\ pc[w] = "build"
  /\ Goto(w, "markFailed")
  /\ UNCHANGED <<row, local, chain, env>>

SetTx(w, st) == tx' = [tx EXCEPT ![cur[w].id][txno[w]] = st]

\* sendTransaction accepts the transaction: it waits for a ledger.
Broadcast(w) ==
  /\ pc[w] = "broadcast"
  /\ SetTx(w, "pending")
  /\ Goto(w, "await")
  /\ UNCHANGED <<row, local, built, env>>

\* sendTransaction refuses it, or fails without reaching the network.
BroadcastFails(w) ==
  /\ pc[w] = "broadcast"
  /\ SetTx(w, "dropped")
  /\ Goto(w, "markFailed")
  /\ UNCHANGED <<row, local, built, env>>

\* sendTransaction accepts it and the reply is lost.  withBackoff calls again
\* and is told DUPLICATE, whose error text isDuplicateReceiptError takes for
\* a recorded receipt; or the error of the last call reaches the sender.
BroadcastReplyLost(w) ==
  /\ LostReplies
  /\ pc[w] = "broadcast"
  /\ SetTx(w, "pending")
  /\ Goto(w, "markSent") \/ Goto(w, "markFailed")
  /\ UNCHANGED <<row, local, built, env>>

\* Mutant: the last poll is taken for a success, whatever it said.
AwaitSuccessUnchecked(w) ==
  pc[w] = "await" /\ Goto(w, "markSent") /\ UNCHANGED <<row, local, chain, env>>

\* waitForTransaction sees SUCCESS.
AwaitSuccess(w) ==
  /\ pc[w] = "await" /\ tx[cur[w].id][txno[w]] = "success"
  /\ Goto(w, "markSent")
  /\ UNCHANGED <<row, local, chain, env>>

\* waitForTransaction sees FAILED (the contract's refusal of a duplicate
\* included: its error text names no duplicate), throws, or gives up after
\* its last poll, which it may do whatever became of the transaction.
AwaitFailure(w) ==
  /\ pc[w] = "await"
  /\ Goto(w, "markFailed")
  /\ UNCHANGED <<row, local, chain, env>>

-----------------------------------------------------------------------------
(* The writes that end an attempt.                                         *)

\* Mutant: send() does not return true.
MarkSentReturnsFalse(w) ==
  /\ pc[w] = "markSent" /\ WriteRow(w, UpdateStatus(Mine(w), "sent"))
  /\ SendReturnsFalse(w) /\ UNCHANGED <<chain, env>>

MarkSent(w) ==
  /\ pc[w] = "markSent"
  /\ WriteRow(w, UpdateStatus(Mine(w), "sent"))
  /\ NextItem(w)
  /\ UNCHANGED <<chain, env>>

\* The catch block of send().
MarkFailed(w) ==
  /\ pc[w] = "markFailed"
  /\ WriteRow(w, UpdateStatus(Mine(w), "failed"))
  /\ SendReturnsFalse(w)
  /\ UNCHANGED <<chain, env>>

GiveUp(w) ==
  /\ pc[w] = "giveUp"
  /\ SendReturnsFalse(w)
  /\ UNCHANGED <<row, chain, env>>

MarkConfirmingStep(w) ==
  /\ pc[w] = "markConfirming"
  /\ WriteRow(w, MarkConfirming(Mine(w), cur[w].hash))
  /\ NextItem(w)
  /\ UNCHANGED <<chain, env>>

\* Without getTransactionStatus the hash is cleared for a blind resubmission.
ClearHash(w) ==
  /\ pc[w] = "clearHash"
  /\ WriteRow(w, PersistSubmittedTxHash(Mine(w), 0))
  /\ SendReturnsFalse(w)
  /\ UNCHANGED <<chain, env>>

Reopen(w) ==
  /\ pc[w] = "reopen"
  /\ WriteRow(w, ReopenItem(Mine(w)))
  /\ Goto(w, "requeue")
  /\ UNCHANGED <<local, chain, env>>

\* updateStatus(PENDING) after reopenItem; send() then returns false, while
\* checkConfirmation just returns.
Requeue(w) ==
  /\ pc[w] = "requeue"
  /\ WriteRow(w, UpdateStatus(Mine(w), "pending"))
  /\ IF phase[w] = "confirming" THEN NextItem(w) ELSE SendReturnsFalse(w)
  /\ UNCHANGED <<chain, env>>

\* scheduleRetry, on the retry count of the snapshot.
ScheduleRetry(w) ==
  /\ pc[w] = "schedule"
  /\ WriteRow(w, IF cur[w].retry + 1 >= MaxAttempts
                   THEN MoveToDeadLetter(Mine(w))
                   ELSE UpdateStatus(Mine(w), "failed"))
  /\ NextItem(w)
  /\ UNCHANGED <<chain, env>>

-----------------------------------------------------------------------------
(* Request handlers, admin routes, crashes, the passing of time.           *)

\* A producer that leaves the sending to the worker.
Enqueue(i) ==
  /\ row[i].status = "absent"
  /\ row' = [row EXCEPT ![i] = Create(@)]
  /\ UNCHANGED <<pc, local, chain, env>>

\* A handler that creates the row, or gets the one that exists, and sends it
\* at once.  A repeated request sends whatever the status of the row is.
SubmitRequest(c, i) ==
  /\ pc[c] = "idle"
  /\ Resubmit \/ row[i].status = "absent"
  /\ row' = [row EXCEPT ![i] = Create(@)]
  /\ StartLoop(c, "direct", {Snap(i)})
  /\ UNCHANGED <<chain, env>>

\* OutboxSender.retry from the admin route: only SENT is turned away.
AdminRetry(c, i) ==
  /\ pc[c] = "idle" /\ adminOps < MaxAdminOps
  /\ row[i].status \notin {"absent", "sent"}
  /\ adminOps' = adminOps + 1
  /\ StartLoop(c, "direct", {Snap(i)})
  /\ UNCHANGED <<row, chain, adm, crashes>>

\* OutboxSender.retryAll.
AdminRetryAll(c) ==
  /\ pc[c] = "idle" /\ adminOps < MaxAdminOps
  /\ adminOps' = adminOps + 1
  /\ StartLoop(c, "direct", ListByStatus("failed"))
  /\ UNCHANGED <<row, chain, adm, crashes>>

\* The routes that re-queue dead letters (one, or all of an event type) and
\* that mark a row dead read the rows first and write them later.
AdminRead(a) ==
  /\ adm[a].ids = {} /\ adminOps < MaxAdminOps
  /\ adminOps' = adminOps + 1
  /\ \/ \E i \in Items :
          /\ row[i].status \notin {"absent", "sent"}
          /\ adm' = [adm EXCEPT ![a] = [op |-> "markDead", ids |-> {i}]]
     \/ \E ids \in SUBSET {i \in Items : row[i].status = "dead"} :
          /\ ids # {}
          /\ adm' = [adm EXCEPT ![a] = [op |-> "requeue", ids |-> ids]]
  /\ UNCHANGED <<row, pc, local, chain, crashes>>

AdminWrite(a) ==
  /\ \E i \in adm[a].ids :
       /\ row' = [row EXCEPT ![i] = IF adm[a].op = "markDead"
                                      THEN MarkDead(@)
                                      ELSE UpdateStatus(@, "pending")]
       /\ adm' = [adm EXCEPT ![a].ids = @ \ {i}]
  /\ UNCHANGED <<pc, local, chain, crashes, adminOps>>

\* The process dies, or an error thrown by the store ends the run.
Crash(w) ==
  /\ pc[w] # "idle" /\ crashes < MaxCrashes
  /\ crashes' = crashes + 1
  /\ Goto(w, "idle")
  /\ phase' = [phase EXCEPT ![w] = "direct"]
  /\ batch' = [batch EXCEPT ![w] = {}]
  /\ cur'   = [cur EXCEPT ![w] = NoSnap]
  /\ txno'  = [txno EXCEPT ![w] = 0]
  /\ UNCHANGED <<row, chain, adm, adminOps>>

\* Phase-1 work of a run on item i.
Holds(w, i) ==
  /\ phase[w] = "pending"
  /\ cur[w].id = i \/ \E s \in batch[w] : s.id = i

\* A claim passes the age of five minutes.
ClaimAges(i) ==
  /\ row[i].claim = "fresh"
  /\ Timely => \A w \in Workers : ~Holds(w, i)
  /\ row' = [row EXCEPT ![i].claim = "stale"]
  /\ UNCHANGED <<pc, local, chain, env>>

\* The network decides a broadcast transaction: the contract accepts the
\* first one of an item and refuses the others, the transaction fails for a
\* reason of its own, or it is never included.
Decide(i, n) ==
  /\ tx[i][n] = "pending"
  /\ \E st \in {IF Recorded(i) THEN "dup" ELSE "success", "failed", "dropped"} :
       tx' = [tx EXCEPT ![i][n] = st]
  /\ UNCHANGED <<row, pc, local, built, env>>

-----------------------------------------------------------------------------

Run(w) ==
  \/ ClaimPending(w) \/ ListConfirming(w) \/ ListFailed(w)
  \/ SkipNotDue(w) \/ PromoteExhausted(w) \/ PickToConfirm(w) \/ CheckConfirmation(w)

Send(w) ==
  \/ EndOfRun(w) \/ PickToSend(w) \/ Resolve(w)
  \/ Build(w) \/ BuildFails(w) \/ Broadcast(w) \/ BroadcastFails(w)
  \/ BroadcastReplyLost(w) \/ AwaitSuccess(w) \/ AwaitFailure(w)
  \/ MarkSent(w) \/ MarkFailed(w) \/ GiveUp(w) \/ MarkConfirmingStep(w)
  \/ ClearHash(w) \/ Reopen(w) \/ Requeue(w) \/ ScheduleRetry(w)

Next ==
  \/ \E w \in Workers : Run(w)
  \/ \E w \in Procs : Send(w) \/ Crash(w)
  \/ \E c \in Clients, i \in Items : SubmitRequest(c, i) \/ AdminRetry(c, i)
  \/ \E c \in Clients : AdminRetryAll(c)
  \/ \E a \in Admins : AdminRead(a) \/ AdminWrite(a)
  \/ \E i \in Items : Enqueue(i) \/ ClaimAges(i)
  \/ \E i \in Items, n \in TxNo : Decide(i, n)

Spec == Init /\ [][Next]_vars

=============================================================================
