----------------------------- MODULE Settlement -----------------------------
(***************************************************************************)
(* The settlement outbox: marking an instalment paid inserts one row per   *)
(* event type in the same transaction; SettlementOutboxWorker claims rows, *)
(* executes them, retries them, and buries them in settlement_outbox_dlq,  *)
(* from where an admin replays them.                                       *)
(*                                                                         *)
(* setInterval starts a tick whether or not the last one is over, in every *)
(* server instance: Ticks are the passes that may overlap.  A key is an    *)
(* idempotency_key; its row has a new id each time it is inserted, and the *)
(* dead-letter table is keyed by that id.  Of next_retry_at only whether   *)
(* it has passed is kept.  ORDER BY created_at is fairness, see FairSpec.  *)
(***************************************************************************)
EXTENDS Naturals

CONSTANTS
  Items,            \* the instalments, (deal_id, period)
  EventTypes,       \* the events of a paid instalment
  Fallible,         \* those whose execution calls something that can fail
  Ticks,
  NoKey,            \* a tick that holds no row
  MaxAttempts,      \* MAX_ATTEMPTS
  MaxRows,          \* bound: rows ever inserted for one key
  MaxReplays,       \* bound: replays of one key
  MaxMishaps        \* bound: crashes and failing statements

Keys == Items \X EventTypes

ASSUME SettlementAssumption ==
  /\ Fallible \subseteq EventTypes
  /\ NoKey \notin Keys
  /\ MaxAttempts \in Nat \ {0}
  /\ MaxRows \in Nat /\ MaxReplays \in Nat /\ MaxMishaps \in Nat

VARIABLES
  paid,       \* the instalments whose schedule status is 'paid'
  row,        \* table settlement_outbox, by idempotency_key
  dlq,        \* table settlement_outbox_dlq: the ids buried for each key
  pc, cur,    \* where each tick is in claimAndProcessOne, and the row it claimed
  lastId,     \* the id of the last row inserted for each key
  executed,   \* how often each key's event has been carried out
  replays, mishaps

vars  == <<paid, row, dlq, pc, cur, lastId, executed, replays, mishaps>>
local == <<pc, cur>>
audit == <<executed, replays>>

Row  == [id : Nat, status : {"absent", "pending", "processing", "done"},
         attempts : Nat, due : BOOLEAN]

NoRow == [id |-> 0, status |-> "absent", attempts |-> 0, due |-> FALSE]

\* INSERT: pending, no attempts, next_retry_at NULL.
Fresh(id) == [id |-> id, status |-> "pending", attempts |-> 0, due |-> TRUE]

Claimed == [key : Keys, id : Nat, attempts : Nat]
NoClaim == [key |-> NoKey, id |-> 0, attempts |-> 0]

Init ==
  /\ paid     = {}
  /\ row      = [k \in Keys |-> NoRow]
  /\ dlq      = [k \in Keys |-> {}]
  /\ pc       = [t \in Ticks |-> "idle"]
  /\ cur      = [t \in Ticks |-> NoClaim]
  /\ lastId   = [k \in Keys |-> 0]
  /\ executed = [k \in Keys |-> 0]
  /\ replays  = [k \in Keys |-> 0]
  /\ mishaps  = 0

-----------------------------------------------------------------------------
(* dealStore.updateScheduleItemStatus, one transaction.                    *)

\* Mutant: ON CONFLICT DO UPDATE.
EnqueuedAgain(k) ==
  IF row[k].status = "absent" THEN Fresh(lastId[k] + 1) ELSE Fresh(row[k].id)

\* INSERT ... ON CONFLICT (idempotency_key) DO NOTHING.
Enqueued(k) == IF row[k].status = "absent" THEN Fresh(lastId[k] + 1) ELSE row[k]

\* The status becomes 'paid' and was not: the events are enqueued with it.
MarkPaid(i) ==
  /\ i \notin paid
  /\ \A e \in EventTypes : lastId[<<i, e>>] < MaxRows
  /\ paid' = paid \cup {i}
  /\ row'  = [k \in Keys |-> IF k[1] = i THEN Enqueued(k) ELSE row[k]]
  /\ lastId' = [k \in Keys |->
                  IF k[1] = i /\ row[k].status = "absent" THEN lastId[k] + 1
                                                          ELSE lastId[k]]
  /\ UNCHANGED <<dlq, local, audit, mishaps>>

\* Any other status: nothing is taken back.
MarkUnpaid(i) ==
  /\ i \in paid
  /\ paid' = paid \ {i}
  /\ UNCHANGED <<row, dlq, local, lastId, audit, mishaps>>

-----------------------------------------------------------------------------
(* SettlementOutboxWorker.claimAndProcessOne                               *)

\* Mutant: a row that has failed is never selected again.
ClaimableOnce(k) == row[k].status = "pending" /\ row[k].attempts = 0

Claimable(k) == row[k].status = "pending" /\ row[k].due

Stop(t) ==
  /\ pc'  = [pc  EXCEPT ![t] = "idle"]
  /\ cur' = [cur EXCEPT ![t] = NoClaim]

Goto(t, l) == pc' = [pc EXCEPT ![t] = l] /\ UNCHANGED cur

\* Mutant: SKIP LOCKED without the update to 'processing'.
ClaimUnmarked(t, k) ==
  /\ pc[t] = "idle" /\ Claimable(k)
  /\ pc'  = [pc  EXCEPT ![t] = "execute"]
  /\ cur' = [cur EXCEPT ![t] = [key |-> k, id |-> row[k].id, attempts |-> row[k].attempts]]
  /\ UNCHANGED <<row, paid, dlq, lastId, audit, mishaps>>

\* SELECT ... FOR UPDATE SKIP LOCKED LIMIT 1, 'processing', COMMIT.
Claim(t, k) ==
  /\ pc[t] = "idle" /\ Claimable(k)
  /\ row' = [row EXCEPT ![k].status = "processing"]
  /\ pc'  = [pc  EXCEPT ![t] = "execute"]
  /\ cur' = [cur EXCEPT ![t] = [key |-> k, id |-> row[k].id, attempts |-> row[k].attempts]]
  /\ UNCHANGED <<paid, dlq, lastId, audit, mishaps>>

\* The statements of a tick name the row by its id.
Mine(t) == row[cur[t].key].id = cur[t].id /\ row[cur[t].key].status # "absent"

\* UPDATE ... WHERE id: nothing when the row is gone.
WriteMine(t, r) == row' = IF Mine(t) THEN [row EXCEPT ![cur[t].key] = r] ELSE row

\* executeSettlementEvent: the notification is deduplicated, the others log.
Execute(t) ==
  /\ pc[t] = "execute"
  /\ executed' = [executed EXCEPT ![cur[t].key] = @ + 1]
  /\ Goto(t, "markDone")
  /\ UNCHANGED <<paid, row, dlq, lastId, replays, mishaps>>

ExecuteFails(t) ==
  /\ pc[t] = "execute" /\ cur[t].key[2] \in Fallible
  /\ Goto(t, "failed")
  /\ UNCHANGED <<paid, row, dlq, lastId, audit, mishaps>>

MarkDone(t) ==
  /\ pc[t] = "markDone"
  /\ WriteMine(t, [row[cur[t].key] EXCEPT !.status = "done"])
  /\ Stop(t)
  /\ UNCHANGED <<paid, dlq, lastId, audit, mishaps>>

\* The update to 'done' is inside the try: its error is a failed attempt.
MarkDoneFails(t) ==
  /\ pc[t] = "markDone" /\ mishaps < MaxMishaps
  /\ mishaps' = mishaps + 1
  /\ Goto(t, "failed")
  /\ UNCHANGED <<paid, row, dlq, lastId, audit>>

LastAttempt(t) == cur[t].attempts + 1 >= MaxAttempts

\* Mutant: the row keeps its attempts.
RetryUncounted(t) ==
  /\ pc[t] = "failed" /\ ~LastAttempt(t)
  /\ WriteMine(t, [row[cur[t].key] EXCEPT !.status = "pending", !.due = FALSE])
  /\ Stop(t)
  /\ UNCHANGED <<paid, dlq, lastId, audit, mishaps>>

\* pending again after the backoff, with the count of the row as claimed.
Retry(t) ==
  /\ pc[t] = "failed" /\ ~LastAttempt(t)
  /\ WriteMine(t, [row[cur[t].key] EXCEPT
                     !.status = "pending", !.attempts = cur[t].attempts + 1, !.due = FALSE])
  /\ Stop(t)
  /\ UNCHANGED <<paid, dlq, lastId, audit, mishaps>>

\* Mutant: the row is deleted before it is in the dead-letter table.
BuryDeleting(t) ==
  /\ pc[t] = "failed" /\ LastAttempt(t) /\ cur[t].id \notin dlq[cur[t].key]
  /\ WriteMine(t, NoRow)
  /\ Goto(t, "delete")
  /\ UNCHANGED <<paid, dlq, lastId, audit, mishaps>>

\* The last attempt: INSERT into the dead-letter table, DELETE the row.
Bury(t) ==
  /\ pc[t] = "failed" /\ LastAttempt(t) /\ cur[t].id \notin dlq[cur[t].key]
  /\ dlq' = [dlq EXCEPT ![cur[t].key] = @ \cup {cur[t].id}]
  /\ Goto(t, "delete")
  /\ UNCHANGED <<paid, row, lastId, audit, mishaps>>

Delete(t) ==
  /\ pc[t] = "delete"
  /\ WriteMine(t, NoRow)
  /\ Stop(t)
  /\ UNCHANGED <<paid, dlq, lastId, audit, mishaps>>

Busy == {t \in Ticks : pc[t] # "idle"}

\* The processes of the ticks D die: their rows keep the status they have.
Die(D) ==
  /\ pc'  = [t \in Ticks |-> IF t \in D THEN "idle" ELSE pc[t]]
  /\ cur' = [t \in Ticks |-> IF t \in D THEN NoClaim ELSE cur[t]]

\* The primary key of the dead-letter table is the row's id: one that has been
\* buried and requeued under its id cannot be buried again.  The error escapes
\* tick(), whose promise nobody awaits, and ends the process.
BuriedBefore(t) ==
  /\ pc[t] = "failed" /\ LastAttempt(t) /\ cur[t].id \in dlq[cur[t].key]
  /\ \E D \in SUBSET Busy : t \in D /\ Die(D)
  /\ UNCHANGED <<paid, row, dlq, lastId, audit, mishaps>>

\* A crash, or an error of a statement of the catch block, which escapes too.
Crash ==
  /\ mishaps < MaxMishaps
  /\ mishaps' = mishaps + 1
  /\ \E D \in SUBSET Busy \ {{}} : Die(D)
  /\ UNCHANGED <<paid, row, dlq, lastId, audit>>

BackoffEnds(k) ==
  /\ row[k].status = "pending" /\ ~row[k].due
  /\ row' = [row EXCEPT ![k].due = TRUE]
  /\ UNCHANGED <<paid, dlq, local, lastId, audit, mishaps>>

-----------------------------------------------------------------------------

\* POST /settlement-dlq/:id/replay of any entry, replayed before or not: a new
\* row, or on a unique violation the reset of the row that has the key.
Replay(k) ==
  /\ dlq[k] # {} /\ replays[k] < MaxReplays
  /\ row[k].status = "absent" => lastId[k] < MaxRows
  /\ row' = [row EXCEPT ![k] =
               IF @.status = "absent" THEN Fresh(lastId[k] + 1) ELSE Fresh(@.id)]
  /\ lastId' = [lastId EXCEPT ![k] = IF row[k].status = "absent" THEN @ + 1 ELSE @]
  /\ replays' = [replays EXCEPT ![k] = @ + 1]
  /\ UNCHANGED <<paid, dlq, local, executed, mishaps>>

-----------------------------------------------------------------------------

Step(t) ==
  \/ Execute(t) \/ ExecuteFails(t) \/ MarkDone(t) \/ MarkDoneFails(t)
  \/ Retry(t) \/ Bury(t) \/ Delete(t) \/ BuriedBefore(t)

Next ==
  \/ \E i \in Items : MarkPaid(i) \/ MarkUnpaid(i)
  \/ \E t \in Ticks : Step(t) \/ \E k \in Keys : Claim(t, k)
  \/ \E k \in Keys : BackoffEnds(k) \/ Replay(k)
  \/ Crash

Spec == Init /\ [][Next]_vars

\* A claimed row is worked on, backoffs end, and the timers keep firing: the
\* oldest row comes first, so that a row that is due is claimed in the end.
FairSpec ==
  /\ Spec
  /\ \A t \in Ticks : WF_vars(Step(t))
  /\ \A k \in Keys : WF_vars(BackoffEnds(k)) /\ SF_vars(\E t \in Ticks : Claim(t, k))

=============================================================================
