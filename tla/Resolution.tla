----------------------------- MODULE Resolution -----------------------------
(***************************************************************************)
(* The resolver of the reconciliation engine, and its repairs.  A pass     *)
(* tries each mismatch as it was listed, and then escalates those past     *)
(* their deadline.  A missing credit is posted by an injected function, at *)
(* most once for each key in the life of a process.  The other handlers    *)
(* only decide: the row is written in the same step.                       *)
(***************************************************************************)
EXTENDS Reconciliation

Remove(t, m) == open' = [open EXCEPT ![t] = @ \ {m}]

Exhausted(m) == m.attempts >= MaxResolutions

Target(m) ==
  CASE Exhausted(m)                                            -> "escalated"
    [] ~Exhausted(m) /\ m.class = "delayed_settlement"         -> "auto_resolved"
    [] ~Exhausted(m) /\ m.class \in {"duplicate_debit", "amount_mismatch"} -> "open"
    [] OTHER                                                   -> "repair"

\* Mutant: the attempt is not counted.
WriteRowUncounted(m, s) == mism' = [mism EXCEPT ![m.id].status = s]

\* updateMismatchStatus, by id: whatever the status has become, and with the
\* attempts of the row as listed.
WriteRow(m, s) ==
  mism' = [mism EXCEPT ![m.id].status   = s,
                       ![m.id].attempts = m.attempts + (IF s = "escalated" THEN 0 ELSE 1)]

\* No attempts are left; a settlement that came late is accepted; a duplicate
\* debit and a wrong amount stay open, having no automatic fix.
Handle(t, m) ==
  /\ stage[t] = "resolver" /\ m \in open[t] /\ Target(m) # "repair"
  /\ Remove(t, m)
  /\ WriteRow(m, Target(m))
  /\ UNCHANGED <<ledger, input, lock, stage, work, cur, memory, mishaps>>

\* The statement fails: the next mismatch comes, except when escalating, which
\* is outside the try and ends the pass.
HandleFails(t, m) ==
  /\ stage[t] = "resolver" /\ m \in open[t] /\ Target(m) # "repair" /\ mishaps < MaxMishaps
  /\ mishaps' = mishaps + 1
  /\ IF Exhausted(m) THEN EndPass(t) ELSE Remove(t, m) /\ UNCHANGED <<stage, lock>>
  /\ UNCHANGED <<ledger, input, mism, work, cur, memory>>

-----------------------------------------------------------------------------
(* repair.ts: applyIdempotentRepair, keyed by class and ledger event.      *)

\* Mutant: the effect is registered when it has ended.
UnderWayUnregistered(p, e) == FALSE

UnderWay(p, e) == e \in inFlight[p]

\* Applied before; being applied by another pass of the process; or not.
Repair(t, m) ==
  /\ stage[t] = "resolver" /\ m \in open[t] /\ Target(m) = "repair"
  /\ Remove(t, m)
  /\ cur' = [cur EXCEPT ![t] = m]
  /\ LET p == ProcOf(t)
     IN  \/ m.ev \in applied[p] /\ Goto(t, "resolved") /\ UNCHANGED inFlight
         \/ m.ev \notin applied[p] /\ UnderWay(p, m.ev) /\ Goto(t, "await") /\ UNCHANGED inFlight
         \/ /\ m.ev \notin applied[p] /\ ~UnderWay(p, m.ev)
            /\ Goto(t, "effect")
            /\ inFlight' = [inFlight EXCEPT ![p] = @ \cup {m.ev}]
  /\ UNCHANGED <<ledger, input, mism, lock, work, applied, absorbed, credits, lives, windows, mishaps>>

\* Mutant: the key is not recorded.
PostedUnrecorded(t) ==
  /\ stage[t] = "effect"
  /\ LET p == ProcOf(t) IN
       /\ credits'  = [credits  EXCEPT ![p][cur[t].ev] = @ + 1]
       /\ inFlight' = [inFlight EXCEPT ![p] = @ \ {cur[t].ev}]
  /\ Goto(t, "resolved")
  /\ UNCHANGED <<ledger, input, mism, lock, work, open, cur, applied, absorbed, lives, windows, mishaps>>

\* The poster returns: the credit is posted, and the key recorded.
Posted(t) ==
  /\ stage[t] = "effect"
  /\ LET p == ProcOf(t) IN
       /\ credits'  = [credits  EXCEPT ![p][cur[t].ev] = @ + 1]
       /\ applied'  = [applied  EXCEPT ![p] = @ \cup {cur[t].ev}]
       /\ inFlight' = [inFlight EXCEPT ![p] = @ \ {cur[t].ev}]
  /\ Goto(t, "resolved")
  /\ UNCHANGED <<ledger, input, mism, lock, work, open, cur, absorbed, lives, windows, mishaps>>

NextMismatch(t) == cur' = [cur EXCEPT ![t] = NoJob] /\ Goto(t, "resolver")

\* The poster throws without having posted (one that posts and then throws would
\* be asked again): no key, and the handler throws.
PostFails(t) ==
  /\ stage[t] = "effect" /\ mishaps < MaxMishaps
  /\ mishaps'  = mishaps + 1
  /\ inFlight' = [inFlight EXCEPT ![ProcOf(t)] = @ \ {cur[t].ev}]
  /\ NextMismatch(t)
  /\ UNCHANGED <<ledger, input, mism, lock, work, open, applied, absorbed, credits, lives, windows>>

\* Mutant: the promise is awaited, the key not looked up.
AwaitedAnyway(t) ==
  /\ stage[t] = "await" /\ cur[t].ev \notin inFlight[ProcOf(t)]
  /\ Goto(t, "resolved")
  /\ UNCHANGED <<ledger, input, mism, lock, work, open, cur, memory, mishaps>>

\* The promise of the other pass is settled: kept, or it throws here too.
Awaited(t) ==
  /\ stage[t] = "await" /\ cur[t].ev \notin inFlight[ProcOf(t)]
  /\ IF cur[t].ev \in applied[ProcOf(t)]
       THEN Goto(t, "resolved") /\ UNCHANGED cur
       ELSE NextMismatch(t)
  /\ UNCHANGED <<ledger, input, mism, lock, work, open, memory, mishaps>>

Resolved(t) ==
  /\ stage[t] = "resolved"
  /\ WriteRow(cur[t], "auto_resolved")
  /\ NextMismatch(t)
  /\ UNCHANGED <<ledger, input, lock, work, open, memory, mishaps>>

ResolvedFails(t) ==
  /\ stage[t] = "resolved" /\ mishaps < MaxMishaps
  /\ mishaps' = mishaps + 1
  /\ NextMismatch(t)
  /\ UNCHANGED <<ledger, input, mism, lock, work, open, memory>>

-----------------------------------------------------------------------------

\* listOpenMismatchesPastSla: the open ones whose deadline is over.
ListSla(t) ==
  /\ stage[t] = "resolver" /\ open[t] = {}
  /\ \E late \in SUBSET OpenOnes : open' = [open EXCEPT ![t] = late]
  /\ Goto(t, "sla")
  /\ UNCHANGED <<ledger, input, mism, lock, work, cur, memory, mishaps>>

\* Escalated by id, the attempts left as they are.
EscalateLate(t, m) ==
  /\ stage[t] = "sla" /\ m \in open[t]
  /\ Remove(t, m)
  /\ mism' = [mism EXCEPT ![m.id].status = "escalated"]
  /\ UNCHANGED <<ledger, input, lock, stage, work, cur, memory, mishaps>>

\* The pass is over; or one of its statements fails, and the rest is left.
EndResolver(t) ==
  /\ stage[t] = "sla"
  /\ \/ open[t] = {} /\ UNCHANGED mishaps
     \/ open[t] # {} /\ mishaps < MaxMishaps /\ mishaps' = mishaps + 1
  /\ EndPass(t)
  /\ UNCHANGED <<ledger, input, mism, work, cur, memory>>

-----------------------------------------------------------------------------

\* rolled: a bucket whose window has passed is emptied before it is used.
WindowRolls(p) ==
  /\ absorbed[p] > 0
  /\ absorbed' = [absorbed EXCEPT ![p] = 0]
  /\ UNCHANGED <<ledger, input, mism, lock, task, applied, inFlight, credits, lives, windows, mishaps>>

\* A process dies, with its passes, its requests, its memory and its sessions.
Crash(p) ==
  /\ mishaps < MaxMishaps
  /\ mishaps' = mishaps + 1
  /\ LET dead(t) == ProcOf(t) = p IN
       /\ stage' = [t \in Tasks |-> IF ~dead(t) THEN stage[t]
                                    ELSE IF t[2] = "poll" \/ stage[t] = "idle" THEN "idle" ELSE "over"]
       /\ work'  = [t \in Tasks |-> IF dead(t) THEN {} ELSE work[t]]
       /\ open'  = [t \in Tasks |-> IF dead(t) THEN {} ELSE open[t]]
       /\ cur'   = [t \in Tasks |-> IF dead(t) THEN NoJob ELSE cur[t]]
  /\ lock' = IF lock = p THEN NoProc ELSE lock
  /\ applied'  = [applied  EXCEPT ![p] = {}]
  /\ inFlight' = [inFlight EXCEPT ![p] = {}]
  /\ absorbed' = [absorbed EXCEPT ![p] = 0]
  /\ lives'    = [lives    EXCEPT ![p] = @ + 1]
  /\ UNCHANGED <<ledger, input, mism, credits, windows>>

EngineStep(t) ==
  \/ Persist(t) \/ Mark(t) \/ EndEngine(t) \/ EndChain(t)
  \/ \E e \in Events : Skip(t, e) \/ Classify(t, e) \/ ChainMark(t, e)

ResolverStep(t) ==
  \/ Posted(t) \/ Awaited(t) \/ Resolved(t) \/ ListSla(t) \/ EndResolver(t)
  \/ \E m \in open[t] : Handle(t, m) \/ Repair(t, m) \/ EscalateLate(t, m)

Step(t) == EngineStep(t) \/ ResolverStep(t)

Fails(t) ==
  \/ EngineFails(t) \/ PostFails(t) \/ ResolvedFails(t)
  \/ \E m \in open[t] : HandleFails(t, m)
  \/ \E e \in Events : ChainFails(t, e)

Next ==
  \/ \E e \in Events : IngestLedger(e) \/ WindowPasses(e)
                       \/ \E n \in Notices[e] : IngestProvider(e, n)
  \/ \E i \in DOMAIN mism : Close(i)
  \/ \E t \in Tasks : Step(t) \/ Fails(t) \/ StartPoll(t) \/ StartRun(t)
  \/ \E p \in Procs : WindowRolls(p) \/ Crash(p)
  \/ SessionCloses

Spec == Init /\ [][Next]_vars

\* The passes go on, the timers fire, time passes, and a process that is told again and
\* again that the lock is free polls in the end.
FairSpec ==
  /\ Spec
  /\ \A t \in Tasks : WF_vars(Step(t)) /\ SF_vars(StartPoll(t))
  /\ \A e \in Events : WF_vars(WindowPasses(e))
  /\ WF_vars(SessionCloses)

=============================================================================
