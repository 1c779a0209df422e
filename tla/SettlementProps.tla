--------------------------- MODULE SettlementProps --------------------------
(***************************************************************************)
(* What the settlement outbox promises.                                    *)
(***************************************************************************)
EXTENDS Settlement

PC == {"idle", "execute", "markDone", "failed", "delete"}

\* The types, and that a tick holds a claim exactly while it is not idle.
TypeOK ==
  /\ paid \subseteq Items
  /\ row  \in [Keys -> Row]
  /\ dlq  \in [Keys -> SUBSET Nat]
  /\ pc   \in [Ticks -> PC]
  /\ cur  \in [Ticks -> Claimed \cup {NoClaim}]
  /\ lastId   \in [Keys -> Nat]
  /\ executed \in [Keys -> Nat]
  /\ replays  \in [Keys -> Nat]
  /\ mishaps  \in Nat
  /\ \A t \in Ticks : pc[t] # "idle" => cur[t] \in Claimed

Holds(t, k) == pc[t] # "idle" /\ cur[t].key = k

Kept(k) == row[k].status # "absent" \/ dlq[k] # {}

\* The migration's "Emitted in same transaction": every event of a paid
\* instalment is in the outbox or in the dead-letter table, whatever crashes
\* between the two statements that move it there.
PaidEventsKept == \A i \in paid, e \in EventTypes : Kept(<<i, e>>)

\* Why: a tick that is about to delete a row has buried it.
DeleteAfterBurial == \A t \in Ticks : pc[t] = "delete" => cur[t].id \in dlq[cur[t].key]

KeptInv == TypeOK /\ PaidEventsKept /\ DeleteAfterBurial

\* FOR UPDATE SKIP LOCKED and the 'processing' status: two ticks work on the
\* same event only when an admin has replayed it.
ClaimExclusive ==
  \A s, t \in Ticks, k \in Keys :
    Holds(s, k) /\ Holds(t, k) /\ replays[k] = 0 => s = t

\* Each insertion of a row and each replay pays for MAX_ATTEMPTS executions:
\* a notification is not sent over and over.
ExecutionsBounded ==
  \A k \in Keys : executed[k] <= MaxAttempts * (lastId[k] + replays[k])

\* The row of a process that died: 'processing', and no tick holds it.
Stranded(k) ==
  row[k].status = "processing" /\ \A t \in Ticks : ~Holds(t, k)

\* An event that waits is carried out, or an admin finds it in the
\* dead-letter table; only a crash, or a statement that failed, strands it.
EventsSettle ==
  \A k \in Keys :
    row[k].status = "pending" ~>
      row[k].status = "done" \/ dlq[k] # {} \/ Stranded(k)

\* 'done' is for good as long as no admin replays the event.
DoneIsFinal ==
  [][\A k \in Keys : row[k].status = "done" /\ row'[k] # row[k] => replays'[k] > 0]_vars

\* What the worker has no step for: the row of a dead process keeps its
\* 'processing', which no query selects, and an event without a dead letter
\* cannot be replayed, so it stays where it is, whatever happens.
Abandoned(k) == Stranded(k) /\ dlq[k] = {}

AbandonedForGood == [][\A k \in Keys : Abandoned(k) => Abandoned(k)']_vars

=============================================================================
