------------------------- MODULE JobSchedulerProofs -------------------------
(***************************************************************************)
(* The types of JobScheduler, that leases exclude, that retries are        *)
(* bounded, and that a job whose worker died while it ran is left: proved  *)
(* for any numbers of jobs and workers, crashes and admin operations.      *)
(***************************************************************************)
EXTENDS JobSchedulerProps, FiniteSetTheorems, TLAPS

\* Every statement of the store yields a row.
LEMMA LeaseTypes ==
  ASSUME NEW r \in Job, NEW w \in Workers
  PROVE  /\ AcquireLease(r, w) \in Job
         /\ ReleaseLease(r, w) \in Job
<1> USE DEF Job
<1>1. AcquireLease(r, w) \in Job
  BY DEF AcquireLease
<1>2. ReleaseLease(r, w) \in Job
  BY DEF ReleaseLease, ClearLease
<1> QED BY <1>1, <1>2

LEMMA StatusTypes ==
  ASSUME NEW r \in Job
  PROVE  /\ RecoverStale(r) \in Job
         /\ MarkRunning(r) \in Job /\ MarkFailed(r) \in Job
         /\ MarkDead(r) \in Job /\ Cancel(r) \in Job
         /\ \A b \in BOOLEAN : MarkCompleted(r, b) \in Job /\ Reschedule(r, b) \in Job
<1> USE DEF Job, Status
<1>1. RecoverStale(r) \in Job
  BY DEF RecoverStale, ClearLease
<1>2. MarkRunning(r) \in Job /\ MarkDead(r) \in Job /\ Cancel(r) \in Job
  BY DEF MarkRunning, MarkDead, Cancel
<1>3. MarkFailed(r) \in Job
  <2>1. r.retry + 1 \in Nat
    OBVIOUS
  <2> QED BY <2>1 DEF MarkFailed
<1>4. ASSUME NEW b \in BOOLEAN
      PROVE  MarkCompleted(r, b) \in Job /\ Reschedule(r, b) \in Job
  BY DEF MarkCompleted, Reschedule
<1> QED BY <1>1, <1>2, <1>3, <1>4

\* And so do the clock and the death of a worker.
LEMMA FieldTypes ==
  ASSUME NEW r \in Job
  PROVE  /\ [r EXCEPT !.expired = TRUE] \in Job
         /\ [r EXCEPT !.due = TRUE] \in Job
         /\ [r EXCEPT !.holder = Gone] \in Job
BY DEF Job

LEMMA InitTypes == Init => TypeOK
BY SchedulerAssumption
   DEF Init, TypeOK, Job, NewJob, Status, PC, Snapshot, NoSnap

LEMMA TickTypes ==
  ASSUME TypeOK, NEW t \in Ticks, Tick(t)
  PROVE  TypeOK'
<1> USE DEF TypeOK, PC, env
<1>s. cur[t] \in Snapshot => cur[t].id \in Jobs
  BY DEF Snapshot
<1>o. Owner[t] \in Workers
  BY SchedulerAssumption
<1>1. CASE ListDue(t)
  <2>1. {[id |-> j, retry |-> job[j].retry] : j \in {k \in Jobs : IsDue(job[k])}}
          \in SUBSET Snapshot
    BY DEF Snapshot, Job
  <2> QED BY <1>1, <2>1 DEF ListDue, Goto
<1>2. CASE EndOfTick(t)
  BY <1>2 DEF EndOfTick, Goto
<1>3. CASE NoHandler(t)
  <2>1. PICK s \in list[t] : /\ job'  = [job EXCEPT ![s.id] = MarkDead(@)]
                             /\ list' = [list EXCEPT ![t] = @ \ {s}]
    BY <1>3 DEF NoHandler
  <2>2. s.id \in Jobs
    BY DEF Snapshot
  <2>3. MarkDead(job[s.id]) \in Job
    BY <2>2, LeaseTypes, StatusTypes, FieldTypes, <1>o
  <2> QED BY <1>3, <2>1, <2>2, <2>3 DEF NoHandler
<1>4. CASE Acquire(t)
  <2>1. PICK s \in list[t] :
          /\ job'  = [job EXCEPT ![s.id] = AcquireLease(@, Owner[t])]
          /\ list' = [list EXCEPT ![t] = @ \ {s}]
          /\ cur'  = [cur EXCEPT ![t] = s]
    BY <1>4 DEF Acquire
  <2>2. s \in Snapshot /\ s.id \in Jobs
    BY DEF Snapshot
  <2>3. AcquireLease(job[s.id], Owner[t]) \in Job
    BY <2>2, LeaseTypes, StatusTypes, FieldTypes, <1>o
  <2> QED BY <1>4, <2>1, <2>2, <2>3 DEF Acquire, Goto
<1>5. CASE SkipLeased(t)
  BY <1>5 DEF SkipLeased
<1>6. CASE MarkRunningStep(t)
  <2>1. MarkRunning(Mine(t)) \in Job
    BY <1>6, <1>s, <1>o, LeaseTypes, StatusTypes, FieldTypes DEF Mine, MarkRunningStep
  <2> QED BY <1>6, <1>s, <2>1 DEF MarkRunningStep, WriteJob, Goto
<1>7. CASE HandlerFails(t)
  BY <1>7 DEF HandlerFails, Goto
<1>8. CASE Complete(t)
  <2>0. Mine(t) \in Job
    BY <1>8, <1>s DEF Mine, Complete
  <2>1. MarkCompleted(Mine(t), cur[t].id \in Recurring) \in Job
    <3> DEFINE b == cur[t].id \in Recurring
    <3>1. b \in BOOLEAN
      OBVIOUS
    <3> HIDE DEF b
    <3>2. MarkCompleted(Mine(t), b) \in Job
      BY <2>0, <3>1, StatusTypes
    <3> QED BY <3>2 DEF b
  <2> QED BY <1>8, <1>s, <2>1 DEF Complete, WriteJob, Goto
<1>9. CASE Release(t)
  <2>1. ReleaseLease(Mine(t), Owner[t]) \in Job
    BY <1>9, <1>s, <1>o, LeaseTypes, StatusTypes, FieldTypes DEF Mine, Release
  <2> QED BY <1>9, <1>s, <2>1 DEF Release, WriteJob, Goto
<1>10. CASE Close(t)
  BY <1>10 DEF Close, NextJob, Goto
<1>11. CASE StoreFails(t)
  BY <1>11 DEF StoreFails, Goto
<1>12. CASE ReleaseFailed(t)
  <2>1. ReleaseLease(Mine(t), Owner[t]) \in Job
    BY <1>12, <1>s, <1>o, LeaseTypes, StatusTypes, FieldTypes DEF Mine, ReleaseFailed
  <2> QED BY <1>12, <1>s, <2>1 DEF ReleaseFailed, WriteJob, Goto
<1>13. CASE Settle(t)
  <2>1. MarkDead(Mine(t)) \in Job /\ MarkFailed(Mine(t)) \in Job
    BY <1>13, <1>s, <1>o, LeaseTypes, StatusTypes, FieldTypes DEF Mine, Settle
  <2> QED BY <1>13, <1>s, <2>1 DEF Settle, WriteJob, NextJob, Goto
<1> QED
  BY <1>1, <1>2, <1>3, <1>4, <1>5, <1>6, <1>7, <1>8, <1>9, <1>10, <1>11, <1>12,
     <1>13 DEF Tick

LEMMA EnvTypes ==
  ASSUME TypeOK,
         \/ \E j \in Jobs : LeaseExpires(j) \/ BecomeDue(j) \/ Schedule(j)
                            \/ AdminReschedule(j) \/ AdminCancel(j)
         \/ RecoverStaleLeases
         \/ \E w \in Workers : Crash(w)
  PROVE  TypeOK'
<1> USE DEF TypeOK, local, env
<1>1. ASSUME NEW j \in Jobs, NEW r \in Job, job' = [job EXCEPT ![j] = r],
             UNCHANGED local, crashes' \in Nat, adminOps' \in Nat
      PROVE  TypeOK'
  BY <1>1
<1>2. ASSUME NEW j \in Jobs, LeaseExpires(j) PROVE TypeOK'
  BY <1>1, <1>2, LeaseTypes, StatusTypes, FieldTypes DEF LeaseExpires
<1>3. ASSUME NEW j \in Jobs, BecomeDue(j) PROVE TypeOK'
  BY <1>1, <1>3, LeaseTypes, StatusTypes, FieldTypes DEF BecomeDue
<1>4. ASSUME NEW j \in Jobs, Schedule(j) PROVE TypeOK'
  <2>1. PICK due \in BOOLEAN : job' = [job EXCEPT ![j] = Reschedule(@, due)]
    BY <1>4 DEF Schedule
  <2>2. Reschedule(job[j], due) \in Job
    BY LeaseTypes, StatusTypes, FieldTypes
  <2> QED BY <1>1, <1>4, <2>1, <2>2 DEF Schedule
<1>5. ASSUME NEW j \in Jobs, AdminReschedule(j) PROVE TypeOK'
  <2>1. PICK due \in BOOLEAN : job' = [job EXCEPT ![j] = Reschedule(@, due)]
    BY <1>5 DEF AdminReschedule
  <2>2. Reschedule(job[j], due) \in Job
    BY LeaseTypes, StatusTypes, FieldTypes
  <2> QED BY <1>1, <1>5, <2>1, <2>2 DEF AdminReschedule
<1>6. ASSUME NEW j \in Jobs, AdminCancel(j) PROVE TypeOK'
  <2>1. Cancel(job[j]) \in Job
    BY LeaseTypes, StatusTypes, FieldTypes
  <2> QED BY <1>1, <1>6, <2>1 DEF AdminCancel
<1>7. CASE RecoverStaleLeases
  <2>1. \A j \in Jobs : RecoverStale(job[j]) \in Job
    BY LeaseTypes, StatusTypes, FieldTypes
  <2> QED BY <1>7, <2>1 DEF RecoverStaleLeases
<1>8. ASSUME NEW w \in Workers, Crash(w) PROVE TypeOK'
  <2>1. \A j \in Jobs : [job[j] EXCEPT !.holder = Gone] \in Job
    BY LeaseTypes, StatusTypes, FieldTypes
  <2>2. job' \in [Jobs -> Job]
    BY <1>8, <2>1 DEF Crash
  <2> QED BY <1>8, <2>2 DEF Crash, PC
<1> QED BY <1>2, <1>3, <1>4, <1>5, <1>6, <1>7, <1>8

\* The types of the table and of the ticks are those of TypeOK, in every
\* behaviour of the scheduler.
THEOREM TypeCorrect == Spec => []TypeOK
<1>1. ASSUME TypeOK, [Next]_vars PROVE TypeOK'
  <2>1. CASE \E t \in Ticks : Tick(t)
    BY <1>1, <2>1, TickTypes
  <2>2. CASE \E j \in Jobs : LeaseExpires(j) \/ BecomeDue(j) \/ Schedule(j)
                             \/ AdminReschedule(j) \/ AdminCancel(j)
    BY <1>1, <2>2, EnvTypes
  <2>3. CASE RecoverStaleLeases
    BY <1>1, <2>3, EnvTypes
  <2>4. CASE \E w \in Workers : Crash(w)
    BY <1>1, <2>4, EnvTypes
  <2>5. CASE UNCHANGED vars
    BY <1>1, <2>5 DEF TypeOK, vars
  <2> QED BY <1>1, <2>1, <2>2, <2>3, <2>4, <2>5 DEF Next
<1> QED BY <1>1, InitTypes, PTL DEF Spec

-----------------------------------------------------------------------------
(* Leases exclude, when a lease outlives the work done under it and no     *)
(* worker has two ticks at once.                                           *)

LeaseAssumption ==
  /\ Timely = TRUE
  /\ \A s, t \in Ticks : Owner[s] = Owner[t] => s = t

\* A step that changes what one tick works on and neither the holder nor the
\* expiry of a lease keeps the invariant, if the tick does not begin to work.
LEMMA SameLeases ==
  ASSUME WorkerHoldsLease,
         \A u \in Ticks, k \in Jobs : Works(u, k)' => Works(u, k),
         \A k \in Jobs : /\ job'[k].holder = job[k].holder
                         /\ job'[k].expired = job[k].expired
  PROVE  WorkerHoldsLease'
BY DEF WorkerHoldsLease

\* A tick that writes a row it does not hold, or no longer works on, leaves
\* the leases of the others alone.
LEMMA ReleaseKeeps ==
  ASSUME LeaseAssumption, TypeOK, WorkerHoldsLease,
         NEW t \in Ticks, cur[t].id \in Jobs,
         WriteJob(t, ReleaseLease(Mine(t), Owner[t])),
         \A k \in Jobs : ~Works(t, k)',
         \A u \in Ticks \ {t}, k \in Jobs : Works(u, k)' => Works(u, k)
  PROVE  WorkerHoldsLease'
<1>1. SUFFICES ASSUME NEW u \in Ticks, NEW k \in Jobs, Works(u, k)'
               PROVE  job'[k].holder = Owner[u] /\ ~job'[k].expired
  BY DEF WorkerHoldsLease
<1>2. u # t /\ Works(u, k)
  BY <1>1
<1>3. job[k].holder = Owner[u] /\ ~job[k].expired /\ Owner[u] # Owner[t]
  BY <1>2 DEF WorkerHoldsLease, LeaseAssumption
<1>4. job'[k] = job[k]
  BY <1>3 DEF TypeOK, WriteJob, Mine, ReleaseLease
<1> QED BY <1>3, <1>4

LEMMA TickKeepsLeases ==
  ASSUME LeaseAssumption, TypeOK, WorkerHoldsLease, NEW t \in Ticks, Tick(t)
  PROVE  WorkerHoldsLease'
<1> USE DEF Works, Executing
<1>t. /\ job \in [Jobs -> Job] /\ pc \in [Ticks -> PC]
      /\ list \in [Ticks -> SUBSET Snapshot]
      /\ cur \in [Ticks -> Snapshot \cup {NoSnap}]
  BY DEF TypeOK
<1>s. pc[t] \notin {"idle", "loop"} => cur[t].id \in Jobs
  BY DEF TypeOK, Snapshot
<1>1. CASE ListDue(t) \/ EndOfTick(t) \/ SkipLeased(t)
  BY <1>1, <1>t, SameLeases DEF ListDue, EndOfTick, SkipLeased, Goto
<1>2. CASE NoHandler(t)
  <2>1. \A k \in Jobs : /\ job'[k].holder = job[k].holder
                        /\ job'[k].expired = job[k].expired
    BY <1>2, <1>t DEF NoHandler, MarkDead, Job
  <2> QED BY <1>2, <2>1, SameLeases DEF NoHandler
<1>3. CASE Acquire(t)
  <2>1. PICK s \in list[t] :
          /\ Acquirable(job[s.id], Owner[t])
          /\ job'  = [job EXCEPT ![s.id] = AcquireLease(@, Owner[t])]
          /\ cur'  = [cur EXCEPT ![t] = s]
    BY <1>3 DEF Acquire
  <2>2. s.id \in Jobs
    BY <1>t DEF Snapshot
  <2>3. SUFFICES ASSUME NEW u \in Ticks, NEW k \in Jobs, Works(u, k)'
                 PROVE  job'[k].holder = Owner[u] /\ ~job'[k].expired
    BY DEF WorkerHoldsLease
  <2>4. CASE u = t
    <3>1. k = s.id
      BY <1>t, <2>1, <2>3, <2>4
    <3> QED BY <1>t, <2>1, <2>2, <2>4, <3>1 DEF AcquireLease, Job
  <2>5. CASE u # t
    <3>1. Works(u, k)
      BY <1>3, <1>t, <2>1, <2>3, <2>5 DEF Acquire, Goto
    <3>2. /\ job[k].holder = Owner[u] /\ ~job[k].expired
          /\ Owner[u] # Owner[t] /\ Owner[u] # NoWorker
      BY <2>5, <3>1, SchedulerAssumption DEF WorkerHoldsLease, LeaseAssumption
    <3>3. k # s.id
      BY <2>1, <3>2 DEF Acquirable
    <3> QED BY <1>t, <2>1, <3>2, <3>3
  <2> QED BY <2>4, <2>5
<1>4. CASE MarkRunningStep(t)
  <2>1. \A k \in Jobs : /\ job'[k].holder = job[k].holder
                        /\ job'[k].expired = job[k].expired
    BY <1>4, <1>t, <1>s DEF MarkRunningStep, WriteJob, Mine, MarkRunning, Job
  <2> QED BY <1>4, <1>t, <2>1, SameLeases DEF MarkRunningStep, Goto
<1>5. CASE HandlerFails(t) \/ StoreFails(t)
  BY <1>5, <1>t, SameLeases DEF HandlerFails, StoreFails, Goto
<1>6. CASE Complete(t)
  <2>1. \A k \in Jobs : /\ job'[k].holder = job[k].holder
                        /\ job'[k].expired = job[k].expired
    BY <1>6, <1>t, <1>s DEF Complete, WriteJob, Mine, MarkCompleted, Job
  <2> QED BY <1>6, <1>t, <2>1, SameLeases DEF Complete, Goto
<1>7. CASE Release(t) \/ ReleaseFailed(t)
  BY <1>7, <1>t, <1>s, ReleaseKeeps DEF Release, ReleaseFailed, Goto
<1>8. CASE Close(t)
  BY <1>8, <1>t, SameLeases DEF Close, NextJob, Goto
<1>9. CASE Settle(t)
  <2>1. \A k \in Jobs : /\ job'[k].holder = job[k].holder
                        /\ job'[k].expired = job[k].expired
    BY <1>9, <1>t, <1>s DEF Settle, WriteJob, Mine, MarkDead, MarkFailed, Job
  <2> QED BY <1>9, <1>t, <2>1, SameLeases DEF Settle, NextJob, Goto
<1> QED
  BY <1>1, <1>2, <1>3, <1>4, <1>5, <1>6, <1>7, <1>8, <1>9 DEF Tick

LEMMA EnvKeepsLeases ==
  ASSUME LeaseAssumption, TypeOK, WorkerHoldsLease,
         \/ \E j \in Jobs : LeaseExpires(j) \/ BecomeDue(j) \/ Schedule(j)
                            \/ AdminReschedule(j) \/ AdminCancel(j)
         \/ RecoverStaleLeases
         \/ \E w \in Workers : Crash(w)
  PROVE  WorkerHoldsLease'
<1> USE DEF Works, Executing, local
<1>t. job \in [Jobs -> Job] /\ pc \in [Ticks -> PC]
  BY DEF TypeOK
<1>1. ASSUME NEW j \in Jobs,
             BecomeDue(j) \/ Schedule(j) \/ AdminReschedule(j) \/ AdminCancel(j)
      PROVE  WorkerHoldsLease'
  <2>1. \A k \in Jobs : /\ job'[k].holder = job[k].holder
                        /\ job'[k].expired = job[k].expired
    <3>1. CASE BecomeDue(j)
      BY <1>t, <3>1 DEF BecomeDue, Job
    <3>2. CASE Schedule(j) \/ AdminReschedule(j)
      <4>1. PICK due \in BOOLEAN : job' = [job EXCEPT ![j] = Reschedule(job[j], due)]
        BY <3>2 DEF Schedule, AdminReschedule
      <4> QED BY <1>t, <4>1 DEF Reschedule, Job
    <3>3. CASE AdminCancel(j)
      BY <1>t, <3>3 DEF AdminCancel, Cancel, Job
    <3> QED BY <1>1, <3>1, <3>2, <3>3
  <2> QED BY <1>1, <2>1, SameLeases
          DEF BecomeDue, Schedule, AdminReschedule, AdminCancel
<1>2. ASSUME NEW j \in Jobs, LeaseExpires(j) PROVE WorkerHoldsLease'
  <2>1. \A t \in Ticks : ~Works(t, j)
    BY <1>2 DEF LeaseExpires, LeaseAssumption, WorkerHoldsLease
  <2>2. \A k \in Jobs \ {j} : job'[k] = job[k]
    BY <1>2, <1>t DEF LeaseExpires
  <2> QED BY <1>2, <2>1, <2>2 DEF LeaseExpires, WorkerHoldsLease
<1>3. CASE RecoverStaleLeases
  <2>1. \A k \in Jobs : ~job[k].expired => job'[k] = job[k]
    BY <1>3, <1>t DEF RecoverStaleLeases, RecoverStale
  <2> QED BY <1>3, <2>1 DEF RecoverStaleLeases, WorkerHoldsLease
<1>4. ASSUME NEW w \in Workers, Crash(w) PROVE WorkerHoldsLease'
  <2>1. SUFFICES ASSUME NEW t \in Ticks, NEW k \in Jobs, Works(t, k)'
                 PROVE  job'[k].holder = Owner[t] /\ ~job'[k].expired
    BY DEF WorkerHoldsLease
  <2>2. Owner[t] # w /\ Works(t, k)
    BY <1>4, <2>1 DEF Crash
  <2>3. job[k].holder = Owner[t] /\ ~job[k].expired
    BY <2>2 DEF WorkerHoldsLease
  <2>4. job'[k] = job[k]
    BY <1>4, <2>2, <2>3 DEF Crash
  <2> QED BY <2>3, <2>4
<1> QED BY <1>1, <1>2, <1>3, <1>4

\* No two ticks ever work on the same job at once, whatever crashes and
\* whatever the admin routes do to the table.
THEOREM LeasesExclude ==
  ASSUME LeaseAssumption PROVE Spec => [](LeaseExclusive /\ LeaseInv)
<1> DEFINE I == TypeOK /\ WorkerHoldsLease
<1>1. Init => WorkerHoldsLease
  BY DEF Init, WorkerHoldsLease, Works, Executing
<1>2. ASSUME I, [Next]_vars PROVE WorkerHoldsLease'
  <2>1. CASE \E t \in Ticks : Tick(t)
    BY <1>2, <2>1, TickKeepsLeases
  <2>2. CASE \/ \E j \in Jobs : LeaseExpires(j) \/ BecomeDue(j) \/ Schedule(j)
                                \/ AdminReschedule(j) \/ AdminCancel(j)
             \/ RecoverStaleLeases
             \/ \E w \in Workers : Crash(w)
    BY <1>2, <2>2, EnvKeepsLeases
  <2>3. CASE UNCHANGED vars
    BY <1>2, <2>3 DEF WorkerHoldsLease, Works, vars
  <2> QED BY <1>2, <2>1, <2>2, <2>3 DEF Next
<1>3. I => LeaseExclusive
  BY DEF WorkerHoldsLease, LeaseExclusive, LeaseAssumption
<1> QED BY <1>1, <1>2, <1>3, TypeCorrect, PTL DEF Spec, LeaseInv

-----------------------------------------------------------------------------
(* Retries are bounded, although they are counted from snapshots.          *)

TicksAssumption == IsFiniteSet(Ticks) /\ Ticks # {}

\* The ticks that may still count a failure of the job.
Counters(j) ==
  {t \in Ticks : \E s \in list[t] \cup {cur[t]} : s.id = j /\ s.retry < MaxRetries}

\* A tick has one snapshot of a job at most, and none under way in the loop.
OneSnapshot ==
  \A t \in Ticks :
    /\ \A r, s \in list[t] : r.id = s.id => r = s
    /\ \A s \in list[t] : s.id # cur[t].id
    /\ pc[t] \in {"idle", "loop"} => cur[t] = NoSnap

\* A count that has reached the limit leaves room for those who may go on.
Room(j) == job[j].retry + Cardinality(Counters(j)) <= MaxRetries + Cardinality(Ticks) - 1

CountsFit == \A j \in Jobs : job[j].retry >= MaxRetries => Room(j)

\* A step that adds no counter of a job, and keeps its count or resets it,
\* leaves room; when it resets one that was at the limit, there are none.
LEMMA RoomStays ==
  ASSUME TicksAssumption, CountsFit, NEW j \in Jobs,
         job[j].retry \in Nat, job'[j].retry \in {job[j].retry, 0},
         job[j].retry >= MaxRetries => Counters(j)' \subseteq Counters(j),
         job'[j].retry >= MaxRetries,
         \A t \in Ticks : \A s \in (list[t] \cup {cur[t]})' : s.id = j => s.retry \in Nat
  PROVE  Room(j)'
<1>1. /\ IsFiniteSet(Ticks) /\ Cardinality(Ticks) \in Nat /\ Cardinality(Ticks) > 0
  BY FS_CardinalityType, FS_EmptySet DEF TicksAssumption
<1>2. MaxRetries \in Nat
  BY SchedulerAssumption
<1>3. CASE job[j].retry >= MaxRetries /\ job'[j].retry = job[j].retry
  <2>1. Counters(j) \subseteq Ticks
    BY DEF Counters
  <2>2. IsFiniteSet(Counters(j)) /\ Cardinality(Counters(j)) \in Nat
    BY <1>1, <2>1, FS_Subset, FS_CardinalityType
  <2>3. Cardinality(Counters(j)') \in Nat /\ Cardinality(Counters(j)') <= Cardinality(Counters(j))
    BY <1>3, <2>2, FS_Subset, FS_CardinalityType
  <2>4. Room(j)
    BY <1>3 DEF CountsFit
  <2> QED BY <1>1, <1>2, <1>3, <2>2, <2>3, <2>4 DEF Room
<1>4. CASE job'[j].retry = 0
  <2>1. MaxRetries = 0
    BY <1>2, <1>4
  <2>2. Counters(j)' = {}
    BY <2>1 DEF Counters
  <2>3. Cardinality(Counters(j)') = 0
    BY <2>2, FS_EmptySet
  <2> QED BY <1>1, <1>4, <2>1, <2>3 DEF Room
<1> QED BY <1>3, <1>4

\* Of the statements only MarkFailed counts.
LEMMA RetryKept ==
  ASSUME NEW r \in Job, NEW w \in Workers
  PROVE  /\ MarkRunning(r).retry = r.retry /\ MarkDead(r).retry = r.retry
         /\ ReleaseLease(r, w).retry = r.retry
         /\ \A b \in BOOLEAN : MarkCompleted(r, b).retry = 0
         /\ MarkFailed(r).retry = r.retry + 1
<1> USE DEF Job
<1>1. MarkRunning(r).retry = r.retry /\ MarkDead(r).retry = r.retry
  BY DEF MarkRunning, MarkDead
<1>2. ReleaseLease(r, w).retry = r.retry
  BY DEF ReleaseLease, ClearLease
<1>3. ASSUME NEW b \in BOOLEAN PROVE MarkCompleted(r, b).retry = 0
  BY DEF MarkCompleted
<1>4. MarkFailed(r).retry = r.retry + 1
  BY DEF MarkFailed
<1> QED BY <1>1, <1>2, <1>3, <1>4

LEMMA OneSnapshotStays ==
  ASSUME TypeOK, OneSnapshot, [Next]_vars
  PROVE  OneSnapshot'
<1>t. /\ pc \in [Ticks -> PC] /\ list \in [Ticks -> SUBSET Snapshot]
      /\ cur \in [Ticks -> Snapshot \cup {NoSnap}]
  BY DEF TypeOK
<1>n. \A s \in Snapshot : s.id # NoSnap.id
  BY SchedulerAssumption DEF Snapshot, NoSnap
<1>1. ASSUME NEW t \in Ticks, Tick(t) PROVE OneSnapshot'
  <2>1. CASE ListDue(t)
    <3>1. /\ \A r, s \in list'[t] : r.id = s.id => r = s
          /\ \A s \in list'[t] : s.id \in Jobs
      BY <1>t, <2>1 DEF ListDue
    <3>2. \A u \in Ticks \ {t} : list'[u] = list[u] /\ pc'[u] = pc[u]
      BY <1>t, <2>1 DEF ListDue, Goto
    <3>3. cur' = cur /\ cur[t] = NoSnap
      BY <2>1 DEF ListDue, OneSnapshot
    <3>4. \A s \in list'[t] : s.id # NoSnap.id
      BY <3>1, SchedulerAssumption DEF NoSnap
    <3> QED BY <3>1, <3>2, <3>3, <3>4 DEF OneSnapshot
  <2>2. CASE EndOfTick(t) \/ NoHandler(t) \/ SkipLeased(t)
    BY <1>t, <1>n, <2>2 DEF EndOfTick, NoHandler, SkipLeased, Goto, OneSnapshot
  <2>3. CASE Acquire(t)
    <3>1. PICK s \in list[t] :
            list' = [list EXCEPT ![t] = @ \ {s}] /\ cur' = [cur EXCEPT ![t] = s]
      BY <2>3 DEF Acquire
    <3> QED BY <1>t, <2>3, <3>1 DEF Acquire, Goto, OneSnapshot
  <2>4. CASE \/ MarkRunningStep(t) \/ HandlerFails(t) \/ Complete(t) \/ Release(t)
             \/ StoreFails(t) \/ ReleaseFailed(t)
    <3>1. UNCHANGED <<list, cur>> /\ \E l \in PC \ {"idle", "loop"} : Goto(t, l)
      BY <2>4 DEF MarkRunningStep, HandlerFails, Complete, Release, StoreFails,
                  ReleaseFailed, PC
    <3>2. \A u \in Ticks : pc'[u] \in {"idle", "loop"} => pc[u] \in {"idle", "loop"}
      BY <1>t, <3>1 DEF Goto
    <3> QED BY <3>1, <3>2 DEF OneSnapshot
  <2>5. CASE Close(t) \/ Settle(t)
    BY <1>t, <1>n, <2>5 DEF Close, Settle, NextJob, Goto, OneSnapshot
  <2> QED BY <1>1, <2>1, <2>2, <2>3, <2>4, <2>5 DEF Tick
<1>2. ASSUME NEW w \in Workers, Crash(w) PROVE OneSnapshot'
  BY <1>t, <1>2 DEF Crash, OneSnapshot
<1>3. CASE UNCHANGED local
  BY <1>3 DEF local, OneSnapshot
<1> QED
  BY <1>1, <1>2, <1>3
     DEF Next, LeaseExpires, BecomeDue, Schedule, AdminReschedule, AdminCancel,
         RecoverStaleLeases, vars, local

\* What a tick holds of a job was listed; it can only be listed with the count
\* of the row, and nobody but Settle adds to a count.
LEMMA CountersFall ==
  ASSUME TypeOK, TypeOK', [Next]_vars, NEW j \in Jobs,
         ~\E t \in Ticks : Settle(t) /\ cur[t].id = j /\ cur[t].retry < MaxRetries
  PROVE  /\ job'[j].retry \in {job[j].retry, 0}
         /\ job[j].retry >= MaxRetries => Counters(j)' \subseteq Counters(j)
<1>t. /\ job \in [Jobs -> Job] /\ list \in [Ticks -> SUBSET Snapshot]
      /\ cur \in [Ticks -> Snapshot \cup {NoSnap}]
      /\ \A t \in Ticks : pc[t] \notin {"idle", "loop"} => cur[t].id \in Jobs
  BY DEF TypeOK, Snapshot
<1>m. MaxRetries \in Nat /\ job[j].retry \in Nat
  BY <1>t, SchedulerAssumption DEF Job
<1>n. NoSnap.id # j
  BY SchedulerAssumption DEF NoSnap
<1>u. UNCHANGED <<list, cur>> => Counters(j)' = Counters(j)
  BY DEF Counters
<1>w. ASSUME NEW t \in Ticks, NEW r \in Job, WriteJob(t, r), cur[t].id \in Jobs
      PROVE  job'[j] = IF cur[t].id = j THEN r ELSE job[j]
  BY <1>t, <1>w DEF WriteJob
<1>j. \A t \in Ticks : Owner[t] \in Workers /\ (cur[t].id \in Jobs => Mine(t) \in Job)
  BY <1>t, SchedulerAssumption DEF Mine
<1>k. ASSUME NEW t \in Ticks, NEW r \in Job, WriteJob(t, r), cur[t].id \in Jobs,
             r.retry \in {Mine(t).retry, 0}
      PROVE  job'[j].retry \in {job[j].retry, 0}
  BY <1>w, <1>k DEF Mine
<1>1. ASSUME NEW t \in Ticks, Tick(t)
      PROVE  /\ job'[j].retry \in {job[j].retry, 0}
             /\ job[j].retry >= MaxRetries => Counters(j)' \subseteq Counters(j)
  <2>1. CASE ListDue(t)
    <3>1. \A s \in list'[t] : s.id = j => s.retry = job[j].retry
      BY <1>t, <2>1 DEF ListDue
    <3>2. \A u \in Ticks \ {t} : list'[u] = list[u] /\ cur'[u] = cur[u]
      BY <1>t, <2>1 DEF ListDue
    <3>3. cur'[t] = cur[t] /\ job' = job
      BY <2>1 DEF ListDue
    <3> QED BY <1>m, <3>1, <3>2, <3>3 DEF Counters
  <2>2. CASE EndOfTick(t) \/ HandlerFails(t) \/ StoreFails(t)
    BY <2>2 DEF EndOfTick, HandlerFails, StoreFails, Counters
  <2>3. CASE SkipLeased(t)
    BY <1>t, <2>3 DEF SkipLeased, Counters
  <2>4. CASE NoHandler(t)
    <3>1. job'[j].retry = job[j].retry
      BY <1>t, <2>4 DEF NoHandler, MarkDead, Job
    <3> QED BY <1>t, <2>4, <3>1 DEF NoHandler, Counters
  <2>5. CASE Acquire(t)
    <3>1. job'[j].retry = job[j].retry
      BY <1>t, <2>5 DEF Acquire, AcquireLease, Job
    <3> QED BY <1>t, <2>5, <3>1 DEF Acquire, Counters
  <2>6. CASE MarkRunningStep(t)
    <3>1. cur[t].id \in Jobs
      BY <1>t, <2>6 DEF MarkRunningStep
    <3>2. job'[j].retry \in {job[j].retry, 0}
      BY <1>j, <1>k, <2>6, <3>1, StatusTypes, RetryKept DEF MarkRunningStep
    <3> QED BY <1>u, <2>6, <3>2 DEF MarkRunningStep
  <2>7. CASE Complete(t)
    <3>1. cur[t].id \in Jobs
      BY <1>t, <2>7 DEF Complete
    <3>2. job'[j].retry \in {job[j].retry, 0}
      <4> DEFINE b == cur[t].id \in Recurring
      <4>1. MarkCompleted(Mine(t), b) \in Job /\ MarkCompleted(Mine(t), b).retry = 0
        <5>1. b \in BOOLEAN
          OBVIOUS
        <5> HIDE DEF b
        <5> QED BY <1>j, <3>1, <5>1, StatusTypes, RetryKept
      <4> QED BY <1>k, <2>7, <3>1, <4>1 DEF Complete
    <3> QED BY <1>u, <2>7, <3>2 DEF Complete
  <2>8. CASE Release(t) \/ ReleaseFailed(t)
    <3>1. cur[t].id \in Jobs
      BY <1>t, <2>8 DEF Release, ReleaseFailed
    <3>2. job'[j].retry \in {job[j].retry, 0}
      BY <1>j, <1>k, <2>8, <3>1, LeaseTypes, RetryKept DEF Release, ReleaseFailed
    <3> QED BY <1>u, <2>8, <3>2 DEF Release, ReleaseFailed
  <2>9. CASE Close(t)
    BY <1>t, <1>n, <2>9 DEF Close, NextJob, Counters
  <2>10. CASE Settle(t)
    <3>1. cur[t].id \in Jobs
      BY <1>t, <2>10 DEF Settle
    <3>2. ASSUME cur[t].id = j PROVE job'[j].retry = job[j].retry
      <4>1. cur[t].retry >= MaxRetries
        BY <1>t, <1>m, <2>10, <3>2, SchedulerAssumption DEF Settle, Snapshot, NoSnap
      <4>2. WriteJob(t, MarkDead(Mine(t)))
        BY <2>10, <4>1 DEF Settle
      <4>3. MarkDead(Mine(t)) \in Job /\ MarkDead(Mine(t)).retry = job[j].retry
        BY <1>j, <3>1, <3>2, StatusTypes, RetryKept DEF Mine
      <4> QED BY <1>w, <3>1, <3>2, <4>2, <4>3
    <3>3. ASSUME cur[t].id # j PROVE job'[j].retry = job[j].retry
      BY <1>t, <2>10, <3>1, <3>3 DEF Settle, WriteJob
    <3>4. Counters(j)' \subseteq Counters(j)
      BY <1>t, <1>n, <2>10 DEF Settle, NextJob, Counters
    <3> QED BY <3>2, <3>3, <3>4
  <2> QED BY <1>1, <2>1, <2>2, <2>3, <2>4, <2>5, <2>6, <2>7, <2>8, <2>9, <2>10 DEF Tick
<1>2. ASSUME NEW k \in Jobs,
             LeaseExpires(k) \/ BecomeDue(k) \/ Schedule(k) \/ AdminReschedule(k) \/ AdminCancel(k)
      PROVE  /\ job'[j].retry \in {job[j].retry, 0}
             /\ Counters(j)' \subseteq Counters(j)
  <2>1. Counters(j)' = Counters(j)
    BY <1>2 DEF LeaseExpires, BecomeDue, Schedule, AdminReschedule, AdminCancel, local, Counters
  <2>2. CASE LeaseExpires(k) \/ BecomeDue(k) \/ AdminCancel(k)
    BY <1>t, <2>1, <2>2 DEF LeaseExpires, BecomeDue, AdminCancel, Cancel, Job
  <2>3. CASE Schedule(k) \/ AdminReschedule(k)
    BY <1>t, <2>1, <2>3 DEF Schedule, AdminReschedule, Reschedule, Job
  <2> QED BY <1>2, <2>2, <2>3
<1>3. CASE RecoverStaleLeases
  BY <1>t, <1>3 DEF RecoverStaleLeases, RecoverStale, ClearLease, Job, local, Counters
<1>4. ASSUME NEW w \in Workers, Crash(w)
      PROVE  job'[j].retry = job[j].retry /\ Counters(j)' \subseteq Counters(j)
  <2>1. job'[j].retry = job[j].retry
    BY <1>t, <1>4 DEF Crash, Job
  <2> QED BY <1>t, <1>n, <1>4, <2>1 DEF Crash, Counters
<1>5. CASE UNCHANGED vars
  BY <1>5 DEF vars, Counters
<1> QED BY <1>1, <1>2, <1>3, <1>4, <1>5 DEF Next

\* Who counts a failure gives up its place among the counters.
LEMMA CountedFits ==
  ASSUME TicksAssumption, TypeOK, OneSnapshot, CountsFit,
         NEW t \in Ticks, NEW j \in Jobs, Settle(t), cur[t].id = j,
         cur[t].retry < MaxRetries, job'[j].retry >= MaxRetries
  PROVE  Room(j)'
<1>t. /\ job \in [Jobs -> Job] /\ list \in [Ticks -> SUBSET Snapshot]
      /\ cur \in [Ticks -> Snapshot \cup {NoSnap}] /\ cur[t] \in Snapshot
  BY DEF TypeOK, Settle
<1>m. MaxRetries \in Nat /\ j \in Jobs /\ job[j].retry \in Nat /\ NoSnap.id # j
  BY <1>t, SchedulerAssumption DEF Job, Snapshot, NoSnap
<1>1. job'[j].retry = job[j].retry + 1
  <2>1. job' = [job EXCEPT ![j] = MarkFailed(job[j])]
    <3>1. ~(cur[t].retry >= MaxRetries)
      BY <1>t, <1>m DEF Snapshot
    <3> QED BY <3>1 DEF Settle, WriteJob, Mine
  <2>2. MarkFailed(job[j]).retry = job[j].retry + 1
    BY <1>t DEF MarkFailed, Job
  <2> QED BY <1>t, <2>1, <2>2
<1>2. t \in Counters(j) /\ Counters(j) \subseteq Ticks
  BY DEF Counters
<1>3. Counters(j)' \subseteq Counters(j) \ {t}
  <2>0. list' = list /\ cur' = [cur EXCEPT ![t] = NoSnap]
    BY DEF Settle, NextJob
  <2>3. /\ list'[t] = list[t] /\ cur'[t] = NoSnap
        /\ \A u \in Ticks \ {t} : list'[u] = list[u] /\ cur'[u] = cur[u]
    BY <1>t, <2>0
  <2>1. t \notin Counters(j)'
    <3>1. \A s \in list[t] : s.id # j
      BY DEF OneSnapshot
    <3> QED BY <1>m, <2>3, <3>1 DEF Counters
  <2>2. Counters(j)' \subseteq Counters(j)
    BY <2>1, <2>3 DEF Counters
  <2> QED BY <2>1, <2>2
<1>4. /\ IsFiniteSet(Counters(j)) /\ IsFiniteSet(Ticks \ {t})
      /\ Cardinality(Ticks) \in Nat /\ Cardinality(Ticks \ {t}) = Cardinality(Ticks) - 1
  BY <1>2, FS_Subset, FS_RemoveElement, FS_CardinalityType DEF TicksAssumption
<1>5. /\ Cardinality(Counters(j)) \in Nat /\ IsFiniteSet(Counters(j) \ {t})
      /\ Cardinality(Counters(j) \ {t}) = Cardinality(Counters(j)) - 1
  BY <1>2, <1>4, FS_RemoveElement, FS_CardinalityType
<1>h. job'[j].retry >= MaxRetries
  OBVIOUS
<1>6. /\ IsFiniteSet(Counters(j)') /\ Cardinality(Counters(j)') \in Nat
      /\ Cardinality(Counters(j)') <= Cardinality(Counters(j)) - 1
      /\ Cardinality(Counters(j)') <= Cardinality(Ticks) - 1
  <2>1. Counters(j)' \subseteq Ticks \ {t}
    BY <1>2, <1>3
  <2>2. IsFiniteSet(Counters(j)') /\ Cardinality(Counters(j)') <= Cardinality(Ticks \ {t})
    BY <1>4, <2>1, FS_Subset
  <2>3. Cardinality(Counters(j)') <= Cardinality(Counters(j) \ {t})
    BY <1>3, <1>5, FS_Subset
  <2>4. Cardinality(Counters(j)') \in Nat
    BY <2>2, FS_CardinalityType
  <2> QED BY <1>4, <1>5, <2>2, <2>3, <2>4
<1>7. CASE job[j].retry >= MaxRetries
  <2>1. job[j].retry + Cardinality(Counters(j)) <= MaxRetries + Cardinality(Ticks) - 1
    BY <1>m, <1>7 DEF CountsFit, Room
  <2> QED BY <1>1, <1>m, <1>4, <1>5, <1>6, <2>1 DEF Room
<1>8. CASE job[j].retry + 1 = MaxRetries
  BY <1>1, <1>m, <1>4, <1>6, <1>8 DEF Room
<1>9. job[j].retry >= MaxRetries \/ job[j].retry + 1 = MaxRetries
  BY <1>1, <1>m, <1>h
<1> QED BY <1>7, <1>8, <1>9

LEMMA CountsStayFit ==
  ASSUME TicksAssumption, TypeOK, TypeOK', OneSnapshot, CountsFit, [Next]_vars
  PROVE  CountsFit'
<1>1. SUFFICES ASSUME NEW j \in Jobs, job'[j].retry >= MaxRetries PROVE Room(j)'
  BY DEF CountsFit
<1>2. CASE \E t \in Ticks : Settle(t) /\ cur[t].id = j /\ cur[t].retry < MaxRetries
  BY <1>1, <1>2, CountedFits
<1>3. CASE ~\E t \in Ticks : Settle(t) /\ cur[t].id = j /\ cur[t].retry < MaxRetries
  <2>1. /\ job'[j].retry \in {job[j].retry, 0}
        /\ job[j].retry >= MaxRetries => Counters(j)' \subseteq Counters(j)
    BY <1>3, CountersFall
  <2>2. job[j].retry \in Nat
    BY DEF TypeOK, Job
  <2>3. ASSUME NEW t \in Ticks, NEW s \in (list[t] \cup {cur[t]})' PROVE s.retry \in Nat
    <3>1. list'[t] \subseteq Snapshot /\ cur'[t] \in Snapshot \cup {NoSnap}
      BY DEF TypeOK
    <3> QED BY <2>3, <3>1 DEF Snapshot, NoSnap
  <2> QED BY <1>1, <2>1, <2>2, <2>3, RoomStays
<1> QED BY <1>2, <1>3

\* However many ticks count failures from snapshots of their own, a job is
\* counted at most once by each of them past the limit, for any finite number.
THEOREM RetriesStayBounded ==
  ASSUME TicksAssumption PROVE Spec => []RetriesBounded
<1> DEFINE I == TypeOK /\ OneSnapshot /\ CountsFit
<1>c. /\ IsFiniteSet(Ticks) /\ Cardinality(Ticks) \in Nat /\ Cardinality(Ticks) > 0
  BY FS_CardinalityType, FS_EmptySet DEF TicksAssumption
<1>m. MaxRetries \in Nat
  BY SchedulerAssumption
<1>1. Init => OneSnapshot /\ CountsFit
  <2>1. SUFFICES ASSUME Init PROVE OneSnapshot /\ CountsFit
    OBVIOUS
  <2>2. OneSnapshot
    BY <2>1 DEF Init, OneSnapshot
  <2>3. ASSUME NEW j \in Jobs PROVE Counters(j) = {}
    <3>1. \A t \in Ticks : list[t] \cup {cur[t]} = {NoSnap}
      BY <2>1 DEF Init
    <3>2. NoSnap.id # j
      BY SchedulerAssumption DEF NoSnap
    <3> QED BY <3>1, <3>2 DEF Counters
  <2>4. \A j \in Jobs : Cardinality(Counters(j)) = 0
    BY <2>3, FS_EmptySet
  <2>5. \A j \in Jobs : job[j].retry = 0
    BY <2>1 DEF Init, NewJob
  <2> QED BY <1>c, <1>m, <2>2, <2>4, <2>5 DEF CountsFit, Room
<1>2. TypeOK /\ TypeOK' /\ OneSnapshot /\ CountsFit /\ [Next]_vars => (OneSnapshot /\ CountsFit)'
  BY OneSnapshotStays, CountsStayFit
<1>3. I => RetriesBounded
  <2>1. SUFFICES ASSUME I, NEW j \in Jobs
                 PROVE  job[j].retry <= MaxRetries + Cardinality(Ticks) - 1
    BY DEF RetriesBounded
  <2>2. job[j].retry \in Nat
    BY <2>1 DEF TypeOK, Job
  <2>3. Counters(j) \subseteq Ticks
    BY DEF Counters
  <2>4. Cardinality(Counters(j)) \in Nat
    BY <1>c, <2>3, FS_Subset, FS_CardinalityType
  <2> QED BY <1>c, <1>m, <2>1, <2>2, <2>4 DEF CountsFit, Room
<1> QED BY <1>1, <1>2, <1>3, TypeCorrect, PTL DEF Spec

-----------------------------------------------------------------------------
(* The jobs of the dead.                                                   *)

\* Leases come and go without the status.
LEMMA StatusKept ==
  ASSUME NEW r \in Job
  PROVE  /\ RecoverStale(r).status = r.status
         /\ [r EXCEPT !.expired = TRUE].status = r.status
         /\ [r EXCEPT !.holder = Gone].status = r.status
<1>1. RecoverStale(r).status = r.status
  BY DEF RecoverStale, ClearLease, Job
<1> QED BY <1>1 DEF Job

\* A tick writes the job it executes, or one it has listed; a running job it
\* does not list.
LEMMA TickElsewhere ==
  ASSUME TypeOK, NEW t \in Ticks, NEW j \in Jobs, Deserted(j), Tick(t)
  PROVE  Deserted(j)'
<1> USE DEF env
<1>1. /\ job[j].status = "running"
      /\ \A u \in Ticks : cur[u].id # j /\ \A s \in list[u] : s.id # j
  BY DEF Deserted
<1>2. SUFFICES /\ job'[j] = job[j]
               /\ \A u \in Ticks : cur'[u].id # j /\ \A s \in list'[u] : s.id # j
  BY <1>1 DEF Deserted
<1>3. NoSnap.id # j
  BY SchedulerAssumption DEF NoSnap
<1>4. CASE ListDue(t)
  <2>1. ASSUME NEW s \in list'[t] PROVE s.id # j
    <3>1. PICK i \in {i \in Jobs : IsDue(job[i])} : s = [id |-> i, retry |-> job[i].retry]
      BY <1>4, <2>1 DEF ListDue, TypeOK
    <3>2. i # j
      BY <1>1, <3>1 DEF IsDue
    <3> QED BY <3>1, <3>2
  <2>2. \A u \in Ticks \ {t} : list'[u] = list[u]
    BY <1>4 DEF ListDue, TypeOK
  <2>3. job' = job /\ cur' = cur
    BY <1>4 DEF ListDue
  <2> QED BY <1>1, <2>1, <2>2, <2>3
<1>5. CASE NoHandler(t) \/ SkipLeased(t)
  <2>1. PICK s \in list[t] : /\ list' = [list EXCEPT ![t] = @ \ {s}]
                             /\ job' \in {job, [job EXCEPT ![s.id] = MarkDead(@)]}
    BY <1>5 DEF NoHandler, SkipLeased
  <2>2. job'[j] = job[j]
    BY <1>1, <2>1 DEF TypeOK
  <2>3. \A u \in Ticks : list'[u] \subseteq list[u]
    BY <2>1 DEF TypeOK
  <2>4. cur' = cur
    BY <1>5 DEF NoHandler, SkipLeased
  <2> QED BY <1>1, <2>2, <2>3, <2>4
<1>6. CASE Acquire(t)
  <2>1. PICK s \in list[t] :
          /\ job'  = [job EXCEPT ![s.id] = AcquireLease(@, Owner[t])]
          /\ list' = [list EXCEPT ![t] = @ \ {s}]
          /\ cur'  = [cur EXCEPT ![t] = s]
    BY <1>6 DEF Acquire
  <2>2. s.id # j
    BY <1>1
  <2>3. job'[j] = job[j]
    BY <2>1, <2>2 DEF TypeOK
  <2>4. \A u \in Ticks : list'[u] \subseteq list[u] /\ cur'[u] \in {cur[u], s}
    BY <2>1 DEF TypeOK
  <2> QED BY <1>1, <2>2, <2>3, <2>4
<1>7. CASE EndOfTick(t) \/ HandlerFails(t) \/ StoreFails(t)
  BY <1>1, <1>7 DEF EndOfTick, HandlerFails, StoreFails
<1>8. CASE \/ MarkRunningStep(t) \/ Complete(t) \/ Release(t) \/ Close(t)
           \/ ReleaseFailed(t) \/ Settle(t)
  <2>1. \/ job' = job
        \/ \E r : job' = [job EXCEPT ![cur[t].id] = r]
    BY <1>8 DEF MarkRunningStep, Complete, Release, Close, ReleaseFailed, Settle, WriteJob
  <2>2. job'[j] = job[j]
    BY <1>1, <2>1 DEF TypeOK
  <2>3. list' = list /\ cur' \in {cur, [cur EXCEPT ![t] = NoSnap]}
    BY <1>8 DEF MarkRunningStep, Complete, Release, Close, ReleaseFailed, Settle, NextJob
  <2>4. \A u \in Ticks : cur'[u] \in {cur[u], NoSnap}
    BY <2>3 DEF TypeOK
  <2> QED BY <1>1, <1>3, <2>2, <2>3, <2>4
<1> QED BY <1>4, <1>5, <1>6, <1>7, <1>8 DEF Tick

LEMMA DesertedStep ==
  ASSUME TypeOK, [Next]_vars, NEW j \in Jobs, Deserted(j)
  PROVE  Deserted(j)' \/ adminOps' # adminOps
<1> USE DEF local, env
<1>1. /\ job[j].status = "running"
      /\ \A u \in Ticks : cur[u].id # j /\ \A s \in list[u] : s.id # j
  BY DEF Deserted
<1>2. \A i \in Jobs : job[i] \in Job
  BY DEF TypeOK
<1>3. ASSUME UNCHANGED local, job'[j].status = job[j].status
      PROVE  Deserted(j)'
  BY <1>1, <1>3 DEF Deserted
<1>4. CASE UNCHANGED vars
  BY <1>3, <1>4 DEF vars
<1>5. ASSUME NEW t \in Ticks, Tick(t) PROVE Deserted(j)'
  BY <1>5, TickElsewhere
<1>6. ASSUME NEW i \in Jobs, LeaseExpires(i) PROVE Deserted(j)'
  <2>1. job'[j] \in {job[j], [job[j] EXCEPT !.expired = TRUE]}
    BY <1>6 DEF LeaseExpires, TypeOK
  <2> QED BY <1>2, <1>3, <1>6, <2>1, StatusKept DEF LeaseExpires
<1>7. ASSUME NEW i \in Jobs, BecomeDue(i) \/ Schedule(i) PROVE Deserted(j)'
  <2>1. i # j
    BY <1>1, <1>7 DEF BecomeDue, Schedule
  <2>2. job'[j] = job[j]
    BY <1>7, <2>1 DEF BecomeDue, Schedule, TypeOK
  <2> QED BY <1>3, <1>7, <2>2 DEF BecomeDue, Schedule
<1>8. ASSUME NEW i \in Jobs, AdminReschedule(i) \/ AdminCancel(i)
      PROVE  adminOps' # adminOps
  BY <1>8 DEF AdminReschedule, AdminCancel, TypeOK
<1>9. CASE RecoverStaleLeases
  <2>1. job'[j] = RecoverStale(job[j])
    BY <1>9 DEF RecoverStaleLeases
  <2> QED BY <1>2, <1>3, <1>9, <2>1, StatusKept DEF RecoverStaleLeases
<1>10. ASSUME NEW w \in Workers, Crash(w) PROVE Deserted(j)'
  <2>1. job'[j] \in {job[j], [job[j] EXCEPT !.holder = Gone]}
    BY <1>10 DEF Crash
  <2>2. job'[j].status = "running"
    BY <1>1, <1>2, <2>1, StatusKept
  <2>3. NoSnap.id # j
    BY SchedulerAssumption DEF NoSnap
  <2>4. ASSUME NEW u \in Ticks PROVE cur'[u] \in {cur[u], NoSnap} /\ list'[u] \subseteq list[u]
    BY <1>10 DEF Crash
  <2> QED BY <1>1, <2>2, <2>3, <2>4 DEF Deserted
<1> QED BY <1>4, <1>5, <1>6, <1>7, <1>8, <1>9, <1>10 DEF Next

\* A job whose worker died in the handler stays RUNNING: recovering its lease
\* does not list it again, and only an admin can take it further.
THEOREM DesertedJobsStay == Spec => DesertedForGood
<1>1. TypeOK /\ [Next]_vars =>
        [\A j \in Jobs : Deserted(j) => Deserted(j)' \/ adminOps' # adminOps]_vars
  BY DesertedStep
<1> QED BY <1>1, TypeCorrect, PTL DEF Spec, DesertedForGood

=============================================================================
