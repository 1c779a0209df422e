--------------------------- MODULE Reconciliation ---------------------------
(***************************************************************************)
(* The reconciliation engine: ledger events are compared with the          *)
(* settlement notices of the payment providers, differences become rows of *)
(* reconciliation_mismatches, and the resolver repairs or escalates them.  *)
(*                                                                         *)
(* A server process polls under the leader lock; POST /run of an admin     *)
(* runs an engine pass and a resolution pass at once in one process and    *)
(* takes no lock.  A task is one of these passes.  A notice is what the    *)
(* classifier can tell of a provider event: when it occurred, whether it   *)
(* is a debit, how far its amount is from the ledger's, whether it is past *)
(* the delay window.  One rail and currency; what a process keeps in       *)
(* memory (repairs, drift) is lost when it dies.                           *)
(***************************************************************************)
EXTENDS Integers, Sequences

CONSTANTS
  Events,           \* the ledger events
  Notices,          \* the provider events there can be of each
  Closable,         \* the events whose mismatches the admin may close
  OnChain,          \* the events that the position read from the chain confirms
  Procs, Runs,      \* server processes; requests to POST /run
  Home,             \* the process that serves each request
  NoProc, NoEvent,
  Tolerance,        \* ToleranceRule.toleranceMinor
  MaxResolutions,   \* ToleranceRule.maxResolutionAttempts
  Cap,              \* DriftConfig.capMinor
  Timely,           \* a session is not closed while its process is in a pass
  MaxMishaps        \* bound: crashes and failing statements

Notice == [at : Nat, debit : BOOLEAN, diff : Nat, late : BOOLEAN]

ASSUME ReconciliationAssumption ==
  /\ Notices \in [Events -> SUBSET Notice]
  /\ \A e \in Events : \A N \in SUBSET Notices[e] :       \* one of them is the latest
       N # {} => \E n \in N : \A m \in N : n.at >= m.at
  /\ OnChain \subseteq Events /\ Closable \subseteq Events
  /\ Home \in [Runs -> Procs]
  /\ NoProc \notin Procs /\ NoEvent \notin Events
  /\ Procs \cap Runs = {}
  /\ Tolerance \in Nat /\ MaxResolutions \in Nat /\ Cap \in Nat
  /\ MaxMishaps \in Nat
  /\ Timely \in BOOLEAN

VARIABLES
  ledger,     \* status in reconciliation_ledger_events
  old,        \* the events older than the delay window
  notices,    \* reconciliation_provider_events, by internal_ref
  mism,       \* reconciliation_mismatches, in the order of insertion
  lock,       \* the process one of whose sessions has the advisory lock
  stage, work, open, cur,   \* where each task is, what it still has to do
  applied, inFlight,        \* repair.ts, for each process
  absorbed,                 \* drift.ts, for each process
  credits,    \* how often each process has posted the credit of an event
  lives,      \* how often each process was started
  windows,    \* drift buckets that were begun
  mishaps

vars  == <<ledger, old, notices, mism, lock, stage, work, open, cur,
           applied, inFlight, absorbed, credits, lives, windows, mishaps>>
task  == <<stage, work, open, cur>>
memory == <<applied, inFlight, absorbed, credits, lives, windows>>
input == <<old, notices>>

Tasks == (Procs \X {"poll"}) \cup (Runs \X {"engine", "resolver"})

ProcOf(t) == IF t[2] = "poll" THEN t[1] ELSE Home[t[1]]

MismatchClass == {"missing_credit", "duplicate_debit", "amount_mismatch", "delayed_settlement"}

Mismatch == [class : MismatchClass, ev : Events,
             status : {"open", "auto_resolved", "escalated", "closed"},
             attempts : Nat]

\* A mismatch as listed, or (id 0) the verdict on a ledger event.
Job   == [id : Nat, class : MismatchClass \cup {"match"}, ev : Events, attempts : Nat]
NoJob == [id |-> 0, class |-> "match", ev |-> NoEvent, attempts |-> 0]

Verdict(e, c) == [id |-> 0, class |-> c, ev |-> e, attempts |-> 0]

Listed(i) == [id |-> i, class |-> mism[i].class, ev |-> mism[i].ev, attempts |-> mism[i].attempts]

\* listPendingLedgerEvents, listMismatches with status 'open'.
Pending == {e \in Events : ledger[e] = "pending"}
OpenOnes == {Listed(i) : i \in {j \in DOMAIN mism : mism[j].status = "open"}}

Init ==
  /\ ledger   = [e \in Events |-> "absent"]
  /\ old      = {}
  /\ notices  = [e \in Events |-> {}]
  /\ mism     = <<>>
  /\ lock     = NoProc
  /\ stage    = [t \in Tasks |-> "idle"]
  /\ work     = [t \in Tasks |-> {}]
  /\ open     = [t \in Tasks |-> {}]
  /\ cur      = [t \in Tasks |-> NoJob]
  /\ applied  = [p \in Procs |-> {}]
  /\ inFlight = [p \in Procs |-> {}]
  /\ absorbed = [p \in Procs |-> 0]
  /\ credits  = [p \in Procs |-> [e \in Events |-> 0]]
  /\ lives    = [p \in Procs |-> 1]
  /\ windows  = 0
  /\ mishaps  = 0

-----------------------------------------------------------------------------
(* Ingestion, time, and the admin.                                         *)

\* ON CONFLICT (internal_ref): a known event keeps its status.
IngestLedger(e) ==
  /\ ledger[e] = "absent"
  /\ ledger' = [ledger EXCEPT ![e] = "pending"]
  /\ UNCHANGED <<input, mism, lock, task, memory, mishaps>>

\* Before or after the ledger event; unique by (provider, provider_event_id).
IngestProvider(e, n) ==
  /\ n \in Notices[e] \ notices[e]
  /\ notices' = [notices EXCEPT ![e] = @ \cup {n}]
  /\ UNCHANGED <<ledger, old, mism, lock, task, memory, mishaps>>

\* The age of an event counts while there is no notice of it.
WindowPasses(e) ==
  /\ ledger[e] # "absent" /\ notices[e] = {} /\ e \notin old
  /\ old' = old \cup {e}
  /\ UNCHANGED <<ledger, notices, mism, lock, task, memory, mishaps>>

\* POST /mismatches/:id/close, whatever its status.
Close(i) ==
  /\ mism[i].status # "closed" /\ mism[i].ev \in Closable
  /\ mism' = [mism EXCEPT ![i].status = "closed"]
  /\ UNCHANGED <<ledger, input, lock, task, memory, mishaps>>

-----------------------------------------------------------------------------
(* The leader lock belongs to a session, and each statement runs on any    *)
(* connection of the pool: a process that has the lock may be told it is   *)
(* taken, or take it again, and its unlock may find nothing to release.    *)

\* Mutant: a session that is told the lock is taken goes on.
LockableAnyway(p) == lock # p

Lockable(p) == lock \in {NoProc, p}

Goto(t, s) == stage' = [stage EXCEPT ![t] = s]

\* pg_try_advisory_lock, then the list of pending events.
StartPoll(t) ==
  /\ t[2] = "poll" /\ stage[t] = "idle" /\ Lockable(t[1])
  /\ lock' = t[1]
  /\ Goto(t, "engine")
  /\ work' = [work EXCEPT ![t] = Pending]
  /\ UNCHANGED <<ledger, input, mism, open, cur, memory, mishaps>>

\* A request is served once, its two passes side by side.
StartRun(t) ==
  /\ t[2] # "poll" /\ stage[t] = "idle"
  /\ Goto(t, t[2])
  /\ work' = [work EXCEPT ![t] = IF t[2] = "engine" THEN Pending ELSE {}]
  /\ open' = [open EXCEPT ![t] = IF t[2] = "engine" THEN {} ELSE OpenOnes]
  /\ UNCHANGED <<ledger, input, mism, lock, cur, memory, mishaps>>

\* A request is answered; a poll ends in pg_advisory_unlock, on whatever
\* connection.
EndPass(t) ==
  /\ open' = [open EXCEPT ![t] = {}]
  /\ IF t[2] = "poll"
       THEN Goto(t, "idle") /\ lock' \in {lock, IF lock = t[1] THEN NoProc ELSE lock}
       ELSE Goto(t, "over") /\ UNCHANGED lock

\* An idle session is closed by the pool, with the lock it has.
SessionCloses ==
  /\ lock # NoProc
  /\ Timely => stage[<<lock, "poll">>] = "idle"
  /\ lock' = NoProc
  /\ UNCHANGED <<ledger, input, mism, task, memory, mishaps>>

-----------------------------------------------------------------------------
(* engine.ts: classifyLedgerEvent.                                         *)

\* pickSettlement: the latest notice (ids break ties, here CHOOSE).
Settlement(N) == CHOOSE n \in N : \A m \in N : n.at >= m.at

DoubleDebit(N) == \E m, n \in N : m # n /\ m.debit /\ n.debit

\* The class of an event with the notices N, once it is past the window if N
\* is empty: the first that applies.
Class(N) ==
  CASE N = {}                           -> "missing_credit"
    [] N # {} /\ DoubleDebit(N)         -> "duplicate_debit"
    [] N # {} /\ ~DoubleDebit(N) /\ Settlement(N).diff > Tolerance -> "amount_mismatch"
    [] N # {} /\ ~DoubleDebit(N) /\ Settlement(N).diff <= Tolerance /\ Settlement(N).late
                                        -> "delayed_settlement"
    [] OTHER                            -> "match"

\* Mutant: an event without a notice waits for one.
TooEarlyEver(e) == notices[e] = {}

\* No notice and within the window: nothing is decided.
TooEarly(e) == notices[e] = {} /\ e \notin old

Drift(e) == Settlement(notices[e]).diff

-----------------------------------------------------------------------------
(* engine.ts: runReconciliationPass.                                       *)

Take(t, e) == work' = [work EXCEPT ![t] = @ \ {e}]

Skip(t, e) ==
  /\ stage[t] = "engine" /\ e \in work[t] /\ TooEarly(e)
  /\ Take(t, e)
  /\ UNCHANGED <<ledger, input, mism, lock, stage, open, cur, memory, mishaps>>

Decide(t, e, c) ==
  /\ Take(t, e)
  /\ cur' = [cur EXCEPT ![t] = Verdict(e, c)]
  /\ Goto(t, IF c = "match" THEN "mark" ELSE "persist")

\* Mutant: each difference is judged on its own.
FitsAlone(p, d) == d <= Cap

\* tryAbsorbDrift: the sum of the window stays within the cap.
Fits(p, d) == absorbed[p] + d <= Cap

\* An exact match; a tolerable difference that the window absorbs; one that it
\* does not, which is reported as a mismatch; or a mismatch.
Classify(t, e) ==
  /\ stage[t] = "engine" /\ e \in work[t] /\ ~TooEarly(e)
  /\ LET c == Class(notices[e])
         p == ProcOf(t)
     IN  IF c = "match" /\ Drift(e) > 0 /\ Fits(p, Drift(e))
           THEN /\ absorbed' = [absorbed EXCEPT ![p] = @ + Drift(e)]
                /\ windows'  = IF absorbed[p] = 0 THEN windows + 1 ELSE windows
                /\ Decide(t, e, c)
           ELSE /\ UNCHANGED <<absorbed, windows>>
                /\ Decide(t, e, IF c = "match" /\ Drift(e) > 0 THEN "amount_mismatch" ELSE c)
  /\ UNCHANGED <<ledger, input, mism, lock, open, applied, inFlight, credits, lives, mishaps>>

\* Mutant: the status is written, and no report.
PersistNot(t) ==
  /\ stage[t] = "persist"
  /\ ledger' = [ledger EXCEPT ![cur[t].ev] = "unmatched"]
  /\ Goto(t, "mark")
  /\ UNCHANGED <<mism, input, lock, work, open, cur, memory, mishaps>>

\* persistMismatch: always a new row.
Persist(t) ==
  /\ stage[t] = "persist"
  /\ mism' = Append(mism, [class |-> cur[t].class, ev |-> cur[t].ev, status |-> "open", attempts |-> 0])
  /\ Goto(t, "mark")
  /\ UNCHANGED <<ledger, input, lock, work, open, cur, memory, mishaps>>

\* A late settlement matches on the amount.
MarkAs(c) == IF c \in {"match", "delayed_settlement"} THEN "matched" ELSE "unmatched"

\* markLedgerEventStatus, whatever the status has become.
Mark(t) ==
  /\ stage[t] = "mark"
  /\ ledger' = [ledger EXCEPT ![cur[t].ev] = MarkAs(cur[t].class)]
  /\ cur' = [cur EXCEPT ![t] = NoJob]
  /\ Goto(t, "engine")
  /\ UNCHANGED <<input, mism, lock, work, open, memory, mishaps>>

\* An error of the two statements is logged, and the next event comes.
EngineFails(t) ==
  /\ stage[t] \in {"persist", "mark"} /\ mishaps < MaxMishaps
  /\ mishaps' = mishaps + 1
  /\ cur' = [cur EXCEPT ![t] = NoJob]
  /\ Goto(t, "engine")
  /\ UNCHANGED <<ledger, input, mism, lock, work, open, memory>>

\* The pass of a request ends; a worker's goes on with the chain.
EndEngine(t) ==
  /\ stage[t] = "engine" /\ work[t] = {}
  /\ IF t[2] = "poll"
       THEN Goto(t, "chain") /\ work' = [work EXCEPT ![t] = Pending \cap OnChain]
       ELSE Goto(t, "over") /\ UNCHANGED work
  /\ UNCHANGED <<ledger, input, mism, lock, open, cur, memory, mishaps>>

-----------------------------------------------------------------------------
(* chain-reconciliation.ts.  A position that agrees marks the event, as    *)
(* listed, matched.  One that does not is to be a mismatch, but the id of  *)
(* its synthetic provider event is no UUID: the insert fails, the error is *)
(* counted as unknown, and nothing has changed.                            *)

ChainMark(t, e) ==
  /\ stage[t] = "chain" /\ e \in work[t]
  /\ Take(t, e)
  /\ ledger' = [ledger EXCEPT ![e] = "matched"]
  /\ UNCHANGED <<input, mism, lock, stage, open, cur, memory, mishaps>>

\* The mark fails: counted as unknown too, and the next position comes.
ChainFails(t, e) ==
  /\ stage[t] = "chain" /\ e \in work[t] /\ mishaps < MaxMishaps
  /\ mishaps' = mishaps + 1
  /\ Take(t, e)
  /\ UNCHANGED <<ledger, input, mism, lock, stage, open, cur, memory>>

EndChain(t) ==
  /\ stage[t] = "chain" /\ work[t] = {}
  /\ Goto(t, "resolver")
  /\ open' = [open EXCEPT ![t] = OpenOnes]
  /\ UNCHANGED <<ledger, input, mism, lock, work, cur, memory, mishaps>>

=============================================================================
