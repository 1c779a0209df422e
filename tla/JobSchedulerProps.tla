------------------------- MODULE JobSchedulerProps --------------------------
(***************************************************************************)
(* What the job scheduler promises.                                        *)
(***************************************************************************)
EXTENDS JobScheduler, FiniteSets

PC == {"idle", "loop", "markRunning", "handler", "release", "close",
       "releaseFailed", "settle"}

\* The types of the variables, and that a tick past the loop executes a job.
TypeOK ==
  /\ job  \in [Jobs -> Job]
  /\ pc   \in [Ticks -> PC]
  /\ list \in [Ticks -> SUBSET Snapshot]
  /\ cur  \in [Ticks -> Snapshot \cup {NoSnap}]
  /\ crashes \in Nat /\ adminOps \in Nat
  /\ \A t \in Ticks : pc[t] \notin {"idle", "loop"} => cur[t] \in Snapshot

\* Two ticks never work on the same job at once: the lease written by
\* tryAcquireLease excludes the other workers until it is released.
LeaseExclusive ==
  \A s, t \in Ticks, j \in Jobs : Works(s, j) /\ Works(t, j) => s = t

\* Why it does, when a lease outlives the work and a worker has one tick: who
\* works holds the lease, and it has not expired.
WorkerHoldsLease ==
  \A t \in Ticks, j \in Jobs :
    Works(t, j) => job[j].holder = Owner[t] /\ ~job[j].expired

\* The inductive invariant of the proof that leases exclude.
LeaseInv == TypeOK /\ WorkerHoldsLease

\* What distributed.test.ts expects of two schedulers whose ticks follow one
\* another, of ticks that overlap: a job that has been completed is not
\* executed again.
CompletedIsNotRunAgain ==
  [][\A t \in Ticks : MarkRunningStep(t) => Mine(t).status # "completed"]_vars

\* executeJob compares the retry count of its snapshot, and other ticks may
\* have counted failures since: each of them adds one at most.
RetriesBounded ==
  \A j \in Jobs : job[j].retry <= MaxRetries + Cardinality(Ticks) - 1

\* A one-shot job that is waiting is run until it settles, through crashes
\* that leave leases behind; only a crash while it runs may stop it, which
\* leaves it RUNNING with nobody to list it.
WaitingJobsSettle ==
  \A j \in Jobs \ Recurring :
    job[j].status \in {"pending", "failed"} ~>
      \/ job[j].status \in {"completed", "dead", "cancelled"}
      \/ job[j].status = "running" /\ crashes > 0

\* A job that is RUNNING and that no tick works on or has listed.
Deserted(j) ==
  /\ job[j].status = "running"
  /\ \A t \in Ticks : cur[t].id # j /\ \A s \in list[t] : s.id # j

\* recoverStaleLeases clears its lease, and no query lists a running job: only
\* an admin takes it further.
DesertedForGood ==
  [][\A j \in Jobs : Deserted(j) => Deserted(j)' \/ adminOps' # adminOps]_vars

=============================================================================
