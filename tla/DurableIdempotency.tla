------------------------- MODULE DurableIdempotency -------------------------
(***************************************************************************)
(* A row of api_idempotency, and the statements durableIdempotencyService  *)
(* runs on it.  The hash of the request is not modelled: the same key      *)
(* always comes with the same request here.                                *)
(*                                                                         *)
(* start() is an INSERT, then a SELECT and an UPDATE when the row exists,  *)
(* each a statement of its own.                                            *)
(***************************************************************************)

\* stale: the processing lease of two minutes has passed.
IdemRow == [status : {"none", "processing", "completed", "failed"}, stale : BOOLEAN]

NoIdemRow == [status |-> "none", stale |-> FALSE]

Processing == [status |-> "processing", stale |-> FALSE]

\* Mutant: what has failed is replayed.
DecisionReplaysFailed(r) ==
  CASE r.status \in {"completed", "failed"}  -> "replay"
    [] r.status = "processing" /\ ~r.stale  -> "in_flight"
    [] r.status = "processing" /\ r.stale   -> "reclaim"
    [] r.status = "none"                    -> "proceed"

\* Mutant: the lease does not protect who is processing.
DecisionNoLease(r) ==
  CASE r.status = "completed"  -> "replay"
    [] r.status = "failed"     -> "retry"
    [] r.status = "processing" -> "reclaim"
    [] r.status = "none"       -> "proceed"

\* What the SELECT makes of the row.
Decision(r) ==
  CASE r.status = "completed"               -> "replay"
    [] r.status = "failed"                  -> "retry"
    [] r.status = "processing" /\ ~r.stale  -> "in_flight"
    [] r.status = "processing" /\ r.stale   -> "reclaim"
    [] r.status = "none"                    -> "proceed"

\* The UPDATEs write whatever the row has become since the SELECT; none of
\* them brings a deleted row back.
Write(r, new) == IF r.status = "none" THEN r ELSE new

RetryFailed(r) == Write(r, Processing)

ReclaimLease(r) == Write(r, [r EXCEPT !.stale = FALSE])

CompleteKey(r) == Write(r, [status |-> "completed", stale |-> FALSE])

FailKey(r) == Write(r, [status |-> "failed", stale |-> FALSE])

\* reconcileStale deletes leases that are older still.
ReconcileStale(r) == IF r.status = "processing" /\ r.stale THEN NoIdemRow ELSE r

=============================================================================
