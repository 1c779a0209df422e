----------------------------- MODULE OutboxRows -----------------------------
(***************************************************************************)
(* The row of table outbox_items and the statements of the Postgres store  *)
(* that change it, each as a function from the old row to the new one.     *)
(*                                                                         *)
(* A transaction of an item is named by its ordinal among the transactions *)
(* built for that item: 1, 2, ...  The ordinal stands for the Stellar hash *)
(* in submitted_tx_hash, and for the ledger the transaction was included   *)
(* in in submitted_ledger.  0 is NULL (and the empty string, which the     *)
(* code treats alike).  The claim keeps what the code tests: no claim, a   *)
(* claim younger than five minutes, or an older one; who holds it is never *)
(* read.  Timestamps and error texts are left out.                         *)
(***************************************************************************)
EXTENDS Naturals

CONSTANT MaxTx    \* bound: transactions built per item

ASSUME MaxTxAssumption == MaxTx \in Nat

Status == {"absent", "pending", "sent", "failed", "dead", "confirming", "reopened"}
Claim  == {"none", "fresh", "stale"}
TxNo   == 1 .. MaxTx
Hash   == 0 .. MaxTx

Row == [status : Status, retry : Nat, hash : Hash, ledger : Hash, claim : Claim]

NoRow == [status |-> "absent", retry |-> 0, hash |-> 0, ledger |-> 0, claim |-> "none"]

\* create: ON CONFLICT (canonical_external_ref_v1) DO NOTHING.
Create(r) == IF r.status = "absent" THEN [r EXCEPT !.status = "pending"] ELSE r

\* updateStatus: unconditional on the id; it counts a retry and drops the
\* claim whatever the new status is, and leaves the submitted hash alone.
UpdateStatus(r, s) ==
    [status |-> s, retry |-> r.retry + 1, hash |-> r.hash, ledger |-> r.ledger, claim |-> "none"]

\* markDead of the store, and moveToDeadLetter of OutboxRepository, which
\* leaves the claim in place.
MarkDead(r)         == [r EXCEPT !.status = "dead", !.claim = "none"]
MoveToDeadLetter(r) == [r EXCEPT !.status = "dead"]

\* Mutants: a claimed row may be claimed again; a claim never goes stale.
ClaimableAnyway(r) == r.status = "pending"
ClaimableOnce(r)   == r.status = "pending" /\ r.claim = "none"

\* The rows lockForProcessing selects, and the claim it writes on them.
Claimable(r)         == r.status = "pending" /\ r.claim # "fresh"
LockForProcessing(r) == [r EXCEPT !.claim = "fresh"]

PersistSubmittedTxHash(r, n) == [r EXCEPT !.hash = n]

MarkConfirming(r, n) ==
    [status |-> "confirming", retry |-> r.retry, hash |-> n, ledger |-> n, claim |-> "none"]

ReopenItem(r) ==
    [status |-> "reopened", retry |-> r.retry, hash |-> 0, ledger |-> 0, claim |-> "none"]

=============================================================================
