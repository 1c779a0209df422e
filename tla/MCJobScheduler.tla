--------------------------- MODULE MCJobScheduler ---------------------------
(***************************************************************************)
(* Instances of JobScheduler: two workers, two ticks, a one-shot and a     *)
(* recurring job.                                                          *)
(***************************************************************************)
EXTENDS JobSchedulerProps, TLC

CONSTANTS w1, w2, t1, t2, j1, j2

\* One tick at a time per worker; two overlapping ticks of one worker.
OwnTicks     == t1 :> w1 @@ t2 :> w2
OverlapTicks == t1 :> w1 @@ t2 :> w1

\* A rolling deployment: the second worker has no handler for the recurring
\* job.
RollingKnows == w1 :> {j1, j2} @@ w2 :> {j1}

=============================================================================
