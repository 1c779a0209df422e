---------------------------- MODULE OutboxProps -----------------------------
(***************************************************************************)
(* What the outbox promises: the properties of module Outbox.  The second  *)
(* half states what comments and documents of the repository say of it and *)
(* the code does not keep.                                                 *)
(***************************************************************************)
EXTENDS Outbox, FiniteSets

PC == {"idle", "loop", "resolve", "clearHash", "giveUp", "build", "broadcast", "await",
       "markSent", "markFailed", "schedule", "markConfirming", "reopen", "requeue", "check"}

\* Where a process is working on the snapshot cur, and where it also holds a
\* transaction it built.
Busy    == PC \ {"idle", "loop"}
Sending == {"broadcast", "await"}

AdminRequest == [op : {"none", "requeue", "markDead"}, ids : SUBSET Items]

\* The types of the variables, and that a process past the loop works on a
\* snapshot of an item.
TypeOK ==
  /\ row   \in [Items -> Row]
  /\ pc    \in [Procs -> PC]
  /\ phase \in [Procs -> Phase]
  /\ batch \in [Procs -> SUBSET Snapshot]
  /\ cur   \in [Procs -> Snapshot \cup {NoSnap}]
  /\ txno  \in [Procs -> Hash]
  /\ built \in [Items -> Hash]
  /\ tx    \in [Items -> [TxNo -> TxState]]
  /\ adm   \in [Admins -> AdminRequest]
  /\ crashes \in Nat /\ adminOps \in Nat
  /\ \A w \in Procs : /\ pc[w] \in Busy => cur[w] \in Snapshot
                      /\ pc[w] \in Sending => txno[w] \in TxNo

\* A row that the worker, a handler or an admin route shows as SENT has its
\* receipt on the chain, whatever the interleaving of runs, handlers, admin
\* requests and crashes (sender.ts marks SENT after the adapter returned,
\* worker.ts after a query; both from snapshots that may be stale).
SentHasReceipt == \A i \in Items : row[i].status = "sent" => Recorded(i)

\* Why it holds, without lost replies: an inductive invariant.  Transaction
\* numbers are not used before they are built; a process about to broadcast
\* is the only one to own its transaction, and the chain has not seen it; a
\* process queries the chain for a transaction; and one about to write SENT
\* acts for an item with a receipt.
TxFresh == \A i \in Items, n \in TxNo : n > built[i] => tx[i][n] = "none"

OwnsTx(w) == txno[w] <= built[cur[w].id] /\ tx[cur[w].id][txno[w]] = "built"

OwnTx ==
  /\ \A w \in Procs : pc[w] = "broadcast" => OwnsTx(w)
  /\ \A v, w \in Procs :
       v # w /\ pc[v] = "broadcast" /\ pc[w] = "broadcast" /\ cur[v].id = cur[w].id =>
         txno[v] # txno[w]

QueriesHash ==
  \A w \in Procs : pc[w] \in {"resolve", "check", "markConfirming"} => cur[w].hash # 0

SentIsJustified == \A w \in Procs : pc[w] = "markSent" => Recorded(cur[w].id)

\* A CONFIRMING row knows the ledger to count its confirmations from: the
\* branch of checkConfirmation for a row without one is never taken.
ConfirmingKnowsLedger ==
  \A i \in Items : row[i].status = "confirming" => row[i].ledger # 0

\* A claim is left only on a row that is still pending or was dead-lettered
\* under it, so no row of another status is hidden from lockForProcessing by
\* a claim nobody will release.
ClaimOnlyOnOpenRow ==
  \A i \in Items : row[i].claim # "none" => row[i].status \in {"pending", "dead"}

\* The inductive invariant behind the three invariants above.
ReceiptInv ==
  /\ TypeOK
  /\ TxFresh /\ OwnTx /\ QueriesHash /\ SentIsJustified
  /\ SentHasReceipt /\ ConfirmingKnowsLedger /\ ClaimOnlyOnOpenRow

\* No two runs have the same row in their phase-1 work: the claim written by
\* lockForProcessing excludes the others until the attempt is recorded.
Phase1Exclusive ==
  \A i \in Items, v, w \in Workers : Holds(v, i) /\ Holds(w, i) => v = w

\* At most one transaction of an item is on its way or applied: recovery
\* after a crash or a timeout asks the chain instead of submitting again.
NoDoubleBroadcast ==
  \A i \in Items :
    Cardinality({n \in TxNo : tx[i][n] \in {"pending", "success"}}) <= 1

\* Durable intent: a transaction that may take effect is never forgotten;
\* its hash is in the row, or the run that built it still holds it.
DurableIntent ==
  \A i \in Items, n \in TxNo :
    tx[i][n] \in {"pending", "success"} =>
      row[i].hash = n \/ \E w \in Procs : cur[w].id = i /\ txno[w] = n

\* The outbox, as long as one run at a time and nobody else writes the rows,
\* implements ReceiptDelivery: SENT is delivered, DEAD is parked, and a row of
\* any other status is open.
Reported(st) == CASE st = "absent" -> "none"
                  [] st = "sent"   -> "delivered"
                  [] st = "dead"   -> "parked"
                  [] OTHER         -> "open"

Delivery == INSTANCE ReceiptDelivery WITH
              state    <- [i \in Items |-> Reported(row[i].status)],
              recorded <- {i \in Items : Recorded(i)}

\* Every step of the outbox is a step of ReceiptDelivery or changes nothing
\* it shows.
DeliversReceipts == Delivery!Spec

-----------------------------------------------------------------------------
(* Liveness.  A started run goes on until it ends (only a crash stops it)  *)
(* and setInterval starts the next one; a claim ages; a backoff elapses, so *)
(* a failed row that is listed again and again is tried again.              *)

FairSpec ==
  /\ Spec
  /\ \A w \in Workers : /\ WF_vars(Run(w) \/ Send(w))
                        /\ SF_vars(phase[w] = "failed" /\ PickToSend(w))
  /\ \A i \in Items : WF_vars(ClaimAges(i))

\* Every row that is accepted ends SENT or in the dead-letter queue, through
\* crashes that leave claims behind and overlapping runs.
Settles == \A i \in Items :
             row[i].status = "pending" ~> row[i].status \in {"sent", "dead"}

-----------------------------------------------------------------------------
(* What the repository says and the code does not keep.                    *)

\* worker.ts waits for confirmationDepth more ledger closes by checking
\* again on the next cycle; the depth is compared with the ledger that
\* included the transaction, which never moves.
ConfirmingIsTransient ==
  \A i \in Items : row[i].status = "confirming" ~> row[i].status # "confirming"

-----------------------------------------------------------------------------
(* What becomes of the rows that no run takes further.                     *)

\* A handler or an admin request has taken the row up.
Sought(i) ==
  \/ \E c \in Clients : phase[c] = "direct" /\ (cur[c].id = i \/ \E s \in batch[c] : s.id = i)
  \/ \E a \in Admins : i \in adm[a].ids

\* reopenItem was the last write: the run that made it has died or moved on,
\* and nobody has the row in hand.
Stranded(i) ==
  /\ row[i].status = "reopened" /\ ~Sought(i)
  /\ \A w \in Procs : cur[w].id # i /\ \A s \in batch[w] : s.id # i

\* A confirmed transaction, whose ledger is the one the row was given, and
\* nobody but checkConfirmation has the row in hand, as it is in the table.
Parked(i) ==
  LET Waits(w, s) ==
        phase[w] = "confirming" /\ s.hash = row[i].hash /\ s.ledger = row[i].ledger
  IN  /\ row[i].status = "confirming" /\ row[i].hash \in TxNo /\ row[i].ledger = row[i].hash
      /\ tx[i][row[i].hash] = "success" /\ ~Sought(i)
      /\ \A w \in Procs : /\ cur[w].id = i => pc[w] = "check" /\ Waits(w, cur[w])
                          /\ \A s \in batch[w] : s.id = i => Waits(w, s)

\* No run lists a stranded row, and no run finds a parked one deep enough:
\* both stay as they are until a handler or an admin takes them up.
StrandedForGood == [][\A i \in Items : Stranded(i) => Stranded(i)' \/ Sought(i)']_vars
ParkedForGood   == [][\A i \in Items : Parked(i) => Parked(i)' \/ Sought(i)']_vars

=============================================================================
