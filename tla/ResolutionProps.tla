-------------------------- MODULE ResolutionProps ---------------------------
(***************************************************************************)
(* What reconciliation promises: the invariants of INVARIANTS.md, as far   *)
(* as they concern one process life, the tables, and time.                 *)
(***************************************************************************)
EXTENDS Resolution, FiniteSets

Stages == {"idle", "engine", "persist", "mark", "chain", "resolver", "effect", "await",
           "resolved", "sla", "over"}

TypeOK ==
  /\ ledger   \in [Events -> {"absent", "pending", "matched", "unmatched"}]
  /\ old      \subseteq Events
  /\ notices  \in [Events -> SUBSET Notice] /\ \A e \in Events : notices[e] \subseteq Notices[e]
  /\ mism     \in Seq(Mismatch)
  /\ lock     \in Procs \cup {NoProc}
  /\ stage    \in [Tasks -> Stages]
  /\ work     \in [Tasks -> SUBSET Events]
  /\ open     \in [Tasks -> SUBSET Job]
  /\ cur      \in [Tasks -> Job \cup {NoJob}]
  /\ applied  \in [Procs -> SUBSET Events]
  /\ inFlight \in [Procs -> SUBSET Events]
  /\ absorbed \in [Procs -> Nat]
  /\ credits  \in [Procs -> [Events -> Nat]]
  /\ lives    \in [Procs -> Nat \ {0}]
  /\ windows  \in Nat /\ mishaps \in Nat
  /\ \A t \in Tasks :
       stage[t] \in {"persist", "mark", "effect", "await", "resolved"} => cur[t] \in Job

\* A repair under way belongs to one pass of its process, and what a pass has
\* listed is what the rows say, but for their status and attempts.
FlightOwned ==
  /\ \A t \in Tasks : stage[t] = "effect" => cur[t].ev \in inFlight[ProcOf(t)] \ applied[ProcOf(t)]
  /\ \A t, u \in Tasks :
       stage[t] = "effect" /\ stage[u] = "effect" /\ ProcOf(t) = ProcOf(u) /\ cur[t].ev = cur[u].ev
         => t = u

SameRow(m) == m.id \in DOMAIN mism /\ mism[m.id].class = m.class /\ mism[m.id].ev = m.ev

JobsAreRows ==
  /\ \A t \in Tasks : \A m \in open[t] : SameRow(m)
  /\ \A t \in Tasks :
       stage[t] \in {"effect", "await", "resolved"} => SameRow(cur[t]) /\ cur[t].class = "missing_credit"

ReconInv == TypeOK /\ FlightOwned /\ JobsAreRows

\* I3, "at most once per key": in one life of a process the missing credit of
\* an event is posted once, also by passes that overlap.
OneCreditPerLife == \A p \in Procs, e \in Events : credits[p][e] <= lives[p]

\* I3, "once the credit is confirmed posted": a missing credit is resolved
\* automatically only when some process has posted it.
ResolvedWasCredited ==
  \A i \in DOMAIN mism :
    mism[i].class = "missing_credit" /\ mism[i].status = "auto_resolved"
      => \E p \in Procs : credits[p][mism[i].ev] > 0

\* I5, never silent: an event is unmatched only when its mismatch is on file.
UnmatchedIsReported ==
  \A e \in Events :
    ledger[e] = "unmatched" => \E i \in DOMAIN mism : mism[i].ev = e

\* I1: a ledger event is decided in the end, although statements fail, processes
\* die and sessions keep the lock.
PendingIsDecided ==
  \A e \in Events : ledger[e] = "pending" ~> ledger[e] \in {"matched", "unmatched"}

\* I1: a mismatch does not stay open, whether it is resolved,
\* escalated, or closed by hand.
IsOpen(i) == i \in DOMAIN mism /\ mism[i].status = "open"

OpenIsSettled == \A i \in 1 .. Cardinality(Events) : IsOpen(i) ~> ~IsOpen(i)

\* I1, for one pair: an event whose settlement agrees with it is matched in the
\* end, in whatever order and however late the two are ingested.
PairConverges ==
  \A e \in Events :
    ledger[e] # "absent" /\ Cardinality(notices[e]) = 1 /\ Class(notices[e]) \in {"match", "delayed_settlement"}
      ~> ledger[e] = "matched"

\* One leader: while sessions outlast the passes of their process, two
\* processes never reconcile at the same time.
OneLeader ==
  Timely => \A p, q \in Procs :
    stage[<<p, "poll">>] # "idle" /\ stage[<<q, "poll">>] # "idle" => p = q

\* The differences that were matched away, never reported, sum up to no more
\* than the cap for each window that was begun in some process.  What the chain
\* confirms is matched whatever its notices say.
LeakBounded ==
  LET hidden == {e \in Events \ OnChain :
                   /\ ledger[e] = "matched" /\ notices[e] # {}
                   /\ \A n \in notices[e] : n.diff > 0
                   /\ ~\E i \in DOMAIN mism : mism[i].ev = e}
  IN  Cardinality(hidden) <= Cap * windows

=============================================================================
