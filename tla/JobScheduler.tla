---------------------------- MODULE JobScheduler ----------------------------
(***************************************************************************)
(* JobScheduler and the table scheduled_jobs: every server instance polls  *)
(* the due jobs and runs each one under a lease on its row.                *)
(*                                                                         *)
(* setInterval starts the next tick() whether or not the last one is over, *)
(* so one worker may have several ticks; Owner says whose each one is.     *)
(* Times are abstracted to what the code tests: whether next_run_at and    *)
(* lease_expires_at have passed.  job_run_history and fencing_token are    *)
(* written and never read by the scheduler: they are left out.             *)
(***************************************************************************)
EXTENDS Naturals

CONSTANTS
  Jobs, Workers, Ticks,
  NoWorker,         \* lease_holder is NULL
  Gone,             \* the workerId of a process that has died
  NoJob,            \* not a job
  Owner,            \* the worker of each tick
  Knows,            \* the jobs each worker has a handler for
  Recurring,        \* jobs with a cron expression
  MaxRetries,       \* max_retries
  Timely,           \* a lease outlives the work done under it
  MaxMishaps        \* bound: crashes and admin operations together

ASSUME SchedulerAssumption ==
  /\ NoWorker \notin Workers /\ Gone \notin Workers /\ NoWorker # Gone
  /\ NoJob \notin Jobs
  /\ Owner \in [Ticks -> Workers]
  /\ Knows \in [Workers -> SUBSET Jobs]
  /\ Recurring \subseteq Jobs
  /\ MaxRetries \in Nat
  /\ Timely \in BOOLEAN
  /\ MaxMishaps \in Nat

VARIABLES
  job,      \* table scheduled_jobs
  pc,       \* where each tick is in tick() / executeJob()
  list,     \* the snapshots it has listed and not yet looked at
  cur,      \* the snapshot it is executing
  crashes, adminOps

vars  == <<job, pc, list, cur, crashes, adminOps>>
local == <<pc, list, cur>>
env   == <<crashes, adminOps>>

Status == {"absent", "pending", "running", "completed", "failed", "dead", "cancelled"}

\* due: next_run_at has passed; expired: lease_expires_at has.
Job == [status : Status, retry : Nat, due : BOOLEAN,
        holder : Workers \cup {NoWorker, Gone}, expired : BOOLEAN]

NewJob == [status |-> "absent", retry |-> 0, due |-> FALSE,
           holder |-> NoWorker, expired |-> FALSE]

Snapshot == [id : Jobs, retry : Nat]
NoSnap   == [id |-> NoJob, retry |-> 0]

-----------------------------------------------------------------------------
(* The statements of PostgresJobStore.                                     *)

\* Mutant: only the first attempt is listed.
PendingIsDue(r) == r.status = "pending" /\ r.due

IsDue(r) == r.status \in {"pending", "failed"} /\ r.due

\* Mutant: the lease of another worker is not respected.
AcquirableAnyway(r, w) == TRUE

\* tryAcquireLease looks at the lease and not at the status.
Acquirable(r, w) == r.holder \in {NoWorker, w} \/ r.expired

AcquireLease(r, w) == [r EXCEPT !.holder = w, !.expired = FALSE]

ClearLease(r) == [r EXCEPT !.holder = NoWorker, !.expired = FALSE]

ReleaseLease(r, w) == IF r.holder = w THEN ClearLease(r) ELSE r

\* recoverStaleLeases clears the lease and leaves the status.
RecoverStale(r) == IF r.holder # NoWorker /\ r.expired THEN ClearLease(r) ELSE r

MarkRunning(r) == [r EXCEPT !.status = "running"]

\* A recurring job is pending again at its next time, which is in the future.
MarkCompleted(r, recurring) ==
  IF recurring THEN [r EXCEPT !.status = "pending", !.retry = 0, !.due = FALSE]
               ELSE [r EXCEPT !.status = "completed", !.retry = 0]

MarkFailed(r) == [r EXCEPT !.status = "failed", !.retry = r.retry + 1, !.due = FALSE]

MarkDead(r) == [r EXCEPT !.status = "dead"]

Reschedule(r, due) == [r EXCEPT !.status = "pending", !.retry = 0, !.due = due]

Cancel(r) == [r EXCEPT !.status = "cancelled"]

-----------------------------------------------------------------------------

Init ==
  /\ job      = [j \in Jobs |-> NewJob]
  /\ pc       = [t \in Ticks |-> "idle"]
  /\ list     = [t \in Ticks |-> {}]
  /\ cur      = [t \in Ticks |-> NoSnap]
  /\ crashes  = 0
  /\ adminOps = 0

Goto(t, l)    == pc' = [pc EXCEPT ![t] = l]
WriteJob(t, r) == job' = [job EXCEPT ![cur[t].id] = r]
Mine(t)       == job[cur[t].id]

NextJob(t) ==
  /\ Goto(t, "loop")
  /\ cur' = [cur EXCEPT ![t] = NoSnap]
  /\ UNCHANGED list

\* tick: list the due jobs, the limit of 100 being above every instance.
ListDue(t) ==
  /\ pc[t] = "idle"
  /\ Goto(t, "loop")
  /\ list' = [list EXCEPT ![t] =
       {[id |-> j, retry |-> job[j].retry] : j \in {k \in Jobs : IsDue(job[k])}}]
  /\ UNCHANGED <<job, cur, env>>

EndOfTick(t) ==
  /\ pc[t] = "loop" /\ list[t] = {}
  /\ Goto(t, "idle")
  /\ UNCHANGED <<job, list, cur, env>>

\* executeJob without a handler for the job: it is dead, lease or not.
NoHandler(t) ==
  /\ pc[t] = "loop"
  /\ \E s \in list[t] :
       /\ s.id \notin Knows[Owner[t]]
       /\ job'  = [job EXCEPT ![s.id] = MarkDead(@)]
       /\ list' = [list EXCEPT ![t] = @ \ {s}]
  /\ UNCHANGED <<pc, cur, env>>

\* tryAcquireLease succeeds.  (recordJobRun follows; its errors are caught.)
Acquire(t) ==
  /\ pc[t] = "loop"
  /\ \E s \in list[t] :
       /\ s.id \in Knows[Owner[t]] /\ Acquirable(job[s.id], Owner[t])
       /\ job'  = [job EXCEPT ![s.id] = AcquireLease(@, Owner[t])]
       /\ list' = [list EXCEPT ![t] = @ \ {s}]
       /\ cur'  = [cur EXCEPT ![t] = s]
  /\ Goto(t, "markRunning")
  /\ UNCHANGED env

\* It does not: the job is skipped.
SkipLeased(t) ==
  /\ pc[t] = "loop"
  /\ \E s \in list[t] :
       /\ s.id \in Knows[Owner[t]] /\ ~Acquirable(job[s.id], Owner[t])
       /\ list' = [list EXCEPT ![t] = @ \ {s}]
  /\ UNCHANGED <<job, pc, cur, env>>

MarkRunningStep(t) ==
  /\ pc[t] = "markRunning"
  /\ WriteJob(t, MarkRunning(Mine(t)))
  /\ Goto(t, "handler")
  /\ UNCHANGED <<list, cur, env>>

\* The handler throws, or the cron expression is invalid, or markCompleted
\* fails.
HandlerFails(t) ==
  /\ pc[t] = "handler"
  /\ Goto(t, "releaseFailed")
  /\ UNCHANGED <<job, list, cur, env>>

\* The handler returns and markCompleted follows.
Complete(t) ==
  /\ pc[t] = "handler"
  /\ WriteJob(t, MarkCompleted(Mine(t), cur[t].id \in Recurring))
  /\ Goto(t, "release")
  /\ UNCHANGED <<list, cur, env>>

Release(t) ==
  /\ pc[t] = "release"
  /\ WriteJob(t, ReleaseLease(Mine(t), Owner[t]))
  /\ Goto(t, "close")
  /\ UNCHANGED <<list, cur, env>>

\* completeJobRun.
Close(t) ==
  /\ pc[t] = "close"
  /\ NextJob(t)
  /\ UNCHANGED <<job, env>>

\* An error of the store after markCompleted is caught together with the
\* errors of the handler.
StoreFails(t) ==
  /\ pc[t] \in {"release", "close"}
  /\ Goto(t, "releaseFailed")
  /\ UNCHANGED <<job, list, cur, env>>

\* The catch block: the lease is released first, the job is settled later.
ReleaseFailed(t) ==
  /\ pc[t] = "releaseFailed"
  /\ WriteJob(t, ReleaseLease(Mine(t), Owner[t]))
  /\ Goto(t, "settle")
  /\ UNCHANGED <<list, cur, env>>

\* Mutant: one retry too many.
SettleLate(t) ==
  /\ pc[t] = "settle"
  /\ WriteJob(t, IF cur[t].retry > MaxRetries THEN MarkDead(Mine(t))
                                              ELSE MarkFailed(Mine(t)))
  /\ NextJob(t)
  /\ UNCHANGED env

Settle(t) ==
  /\ pc[t] = "settle"
  /\ WriteJob(t, IF cur[t].retry >= MaxRetries THEN MarkDead(Mine(t))
                                               ELSE MarkFailed(Mine(t)))
  /\ NextJob(t)
  /\ UNCHANGED env

-----------------------------------------------------------------------------
(* Leases in time, the recovery timer, admin routes, crashes.              *)

\* Where a tick works under the lease it has acquired.
Executing == {"markRunning", "handler", "release"}

Works(t, j) == pc[t] \in Executing /\ cur[t].id = j

LeaseExpires(j) ==
  /\ job[j].holder # NoWorker /\ ~job[j].expired
  /\ Timely => \A t \in Ticks : Works(t, j) => Owner[t] # job[j].holder
  /\ job' = [job EXCEPT ![j].expired = TRUE]
  /\ UNCHANGED <<local, env>>

RecoverStaleLeases ==
  /\ job' = [j \in Jobs |-> RecoverStale(job[j])]
  /\ UNCHANGED <<local, env>>

\* Of a job that is not waiting nobody reads next_run_at.
BecomeDue(j) ==
  /\ job[j].status \in {"pending", "failed"} /\ ~job[j].due
  /\ job' = [job EXCEPT ![j].due = TRUE]
  /\ UNCHANGED <<local, env>>

\* schedule.
Schedule(j) ==
  /\ job[j].status = "absent"
  /\ \E due \in BOOLEAN : job' = [job EXCEPT ![j] = Reschedule(@, due)]
  /\ UNCHANGED <<local, env>>

\* The routes reschedule and trigger, whatever the status of the job is.
AdminReschedule(j) ==
  /\ job[j].status # "absent" /\ crashes + adminOps < MaxMishaps
  /\ adminOps' = adminOps + 1
  /\ \E due \in BOOLEAN : job' = [job EXCEPT ![j] = Reschedule(@, due)]
  /\ UNCHANGED <<local, crashes>>

AdminCancel(j) ==
  /\ job[j].status # "absent" /\ crashes + adminOps < MaxMishaps
  /\ adminOps' = adminOps + 1
  /\ job' = [job EXCEPT ![j] = Cancel(@)]
  /\ UNCHANGED <<local, crashes>>

\* A process dies, as it does when an error escapes tick(); the process that
\* replaces it has a workerId of its own.
Crash(w) ==
  /\ crashes + adminOps < MaxMishaps
  /\ crashes' = crashes + 1
  /\ pc'   = [t \in Ticks |-> IF Owner[t] = w THEN "idle" ELSE pc[t]]
  /\ list' = [t \in Ticks |-> IF Owner[t] = w THEN {} ELSE list[t]]
  /\ cur'  = [t \in Ticks |-> IF Owner[t] = w THEN NoSnap ELSE cur[t]]
  /\ job'  = [j \in Jobs |->
                IF job[j].holder = w THEN [job[j] EXCEPT !.holder = Gone] ELSE job[j]]
  /\ UNCHANGED adminOps

-----------------------------------------------------------------------------

Tick(t) ==
  \/ ListDue(t) \/ EndOfTick(t) \/ NoHandler(t) \/ Acquire(t) \/ SkipLeased(t)
  \/ MarkRunningStep(t) \/ HandlerFails(t) \/ Complete(t) \/ Release(t)
  \/ Close(t) \/ StoreFails(t) \/ ReleaseFailed(t) \/ Settle(t)

Next ==
  \/ \E t \in Ticks : Tick(t)
  \/ \E j \in Jobs : LeaseExpires(j) \/ BecomeDue(j) \/ Schedule(j)
                     \/ AdminReschedule(j) \/ AdminCancel(j)
  \/ RecoverStaleLeases
  \/ \E w \in Workers : Crash(w)

Spec == Init /\ [][Next]_vars

\* The timers keep firing, a started tick goes on, time passes.
FairSpec ==
  /\ Spec
  /\ \A t \in Ticks : WF_vars(Tick(t))
  /\ \A j \in Jobs : WF_vars(LeaseExpires(j)) /\ WF_vars(BecomeDue(j))
  /\ WF_vars(RecoverStaleLeases)

=============================================================================
