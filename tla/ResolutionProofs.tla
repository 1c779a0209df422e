-------------------------- MODULE ResolutionProofs --------------------------
(***************************************************************************)
(* Reconciliation keeps its tables and its passes consistent, posts a      *)
(* missing credit once in a life of a process, resolves none that was not  *)
(* posted, files what it calls unmatched, has one leader, and hides no     *)
(* more differences than its windows allow: for any numbers of events,     *)
(* notices, processes, requests and failures.                              *)
(***************************************************************************)
EXTENDS ResolutionProps, SequenceTheorems, FiniteSetTheorems, TLAPS

\* A verdict that is filed is one of a mismatch.
VerdictFiled == \A t \in Tasks : stage[t] = "persist" => cur[t].class \in MismatchClass

\* The inductive invariant of the tables and the passes.
TablesInv == ReconInv /\ VerdictFiled

LEMMA ProcOfTask == \A t \in Tasks : ProcOf(t) \in Procs
BY ReconciliationAssumption DEF Tasks, ProcOf

-----------------------------------------------------------------------------
(* reconciliation_mismatches.                                              *)

\* A row is rewritten in place, keeping its class and its event.
LEMMA RowRewritten ==
  ASSUME NEW s \in Seq(Mismatch), NEW i \in DOMAIN s, NEW r \in Mismatch,
         r.class = s[i].class, r.ev = s[i].ev
  PROVE  LET n == [s EXCEPT ![i] = r]
         IN  /\ n \in Seq(Mismatch) /\ DOMAIN n = DOMAIN s
             /\ \A j \in DOMAIN s : n[j].class = s[j].class /\ n[j].ev = s[j].ev
BY ExceptSeq, LenProperties

LEMMA RowStatus ==
  ASSUME NEW s \in Seq(Mismatch), NEW i \in DOMAIN s,
         NEW st \in {"open", "auto_resolved", "escalated", "closed"}, NEW a \in Nat
  PROVE  /\ [s EXCEPT ![i].status = st] = [s EXCEPT ![i] = [s[i] EXCEPT !.status = st]]
         /\ [s[i] EXCEPT !.status = st] \in Mismatch
         /\ [s EXCEPT ![i].status = st, ![i].attempts = a]
              = [s EXCEPT ![i] = [s[i] EXCEPT !.status = st, !.attempts = a]]
         /\ [s[i] EXCEPT !.status = st, !.attempts = a] \in Mismatch
<1>1. s[i] \in Mismatch
  BY ElementOfSeq, LenProperties
<1> QED BY <1>1 DEF Mismatch

\* The rows stay, with their class and their event.
RowsKept ==
  /\ mism' \in Seq(Mismatch)
  /\ DOMAIN mism \subseteq DOMAIN mism'
  /\ \A i \in DOMAIN mism : mism'[i].class = mism[i].class /\ mism'[i].ev = mism[i].ev

LEMMA WriteRowKeeps ==
  ASSUME TypeOK, NEW m \in Job, SameRow(m),
         NEW s \in {"open", "auto_resolved", "escalated", "closed"}, WriteRow(m, s)
  PROVE  /\ RowsKept /\ DOMAIN mism' = DOMAIN mism
         /\ mism'[m.id].status = s
         /\ \A i \in DOMAIN mism : i # m.id => mism'[i] = mism[i]
<1>1. m.attempts + (IF s = "escalated" THEN 0 ELSE 1) \in Nat
  BY DEF Job
<1>2. mism \in Seq(Mismatch) /\ m.id \in DOMAIN mism
  BY DEF TypeOK, SameRow
<1> DEFINE a == m.attempts + (IF s = "escalated" THEN 0 ELSE 1)
           r == [mism[m.id] EXCEPT !.status = s, !.attempts = a]
<1>3. mism' = [mism EXCEPT ![m.id] = r] /\ r \in Mismatch
  BY <1>1, <1>2, RowStatus DEF WriteRow
<1>4. mism[m.id] \in Mismatch
  BY <1>2, ElementOfSeq, LenProperties
<1>5. r.class = mism[m.id].class /\ r.ev = mism[m.id].ev /\ r.status = s
  BY <1>4 DEF Mismatch
<1> HIDE DEF r, a
<1>6. RowsKept /\ DOMAIN mism' = DOMAIN mism
  BY <1>2, <1>3, <1>5, RowRewritten DEF RowsKept
<1> QED BY <1>2, <1>3, <1>5, <1>6

LEMMA StatusKeeps ==
  ASSUME TypeOK, NEW i \in DOMAIN mism, NEW s \in {"open", "auto_resolved", "escalated", "closed"},
         mism' = [mism EXCEPT ![i].status = s]
  PROVE  /\ RowsKept /\ DOMAIN mism' = DOMAIN mism
         /\ mism'[i].status = s
         /\ \A j \in DOMAIN mism : j # i => mism'[j] = mism[j]
<1>1. mism \in Seq(Mismatch)
  BY DEF TypeOK
<1> DEFINE r == [mism[i] EXCEPT !.status = s]
<1>2. mism' = [mism EXCEPT ![i] = r] /\ r \in Mismatch
  BY <1>1, RowStatus
<1>3. mism[i] \in Mismatch
  BY <1>1, ElementOfSeq, LenProperties
<1>4. r.class = mism[i].class /\ r.ev = mism[i].ev /\ r.status = s
  BY <1>3 DEF Mismatch
<1> HIDE DEF r
<1>5. RowsKept /\ DOMAIN mism' = DOMAIN mism
  BY <1>1, <1>2, <1>4, RowRewritten DEF RowsKept
<1> QED BY <1>1, <1>2, <1>4, <1>5

LEMMA PersistKeeps ==
  ASSUME TypeOK, NEW t \in Tasks, Persist(t), cur[t].class \in MismatchClass
  PROVE  /\ RowsKept
         /\ DOMAIN mism' = DOMAIN mism \cup {Len(mism) + 1}
         /\ mism'[Len(mism) + 1] = [class |-> cur[t].class, ev |-> cur[t].ev, status |-> "open", attempts |-> 0]
         /\ \A i \in DOMAIN mism : mism'[i] = mism[i]
<1> DEFINE r == [class |-> cur[t].class, ev |-> cur[t].ev, status |-> "open", attempts |-> 0]
<1>1. mism \in Seq(Mismatch) /\ cur[t] \in Job
  BY DEF TypeOK, Persist
<1>2. r \in Mismatch
  BY <1>1 DEF Job, Mismatch
<1>3. mism' = Append(mism, r)
  BY DEF Persist
<1> HIDE DEF r
<1>4. mism' \in Seq(Mismatch) /\ Len(mism') = Len(mism) + 1
  BY <1>1, <1>2, <1>3
<1>5. mism'[Len(mism) + 1] = r /\ \A i \in 1 .. Len(mism) : mism'[i] = mism[i]
  BY <1>1, <1>2, <1>3
<1>6. DOMAIN mism = 1 .. Len(mism) /\ DOMAIN mism' = 1 .. Len(mism') /\ Len(mism) \in Nat
  BY <1>1, <1>4, LenProperties
<1> QED BY <1>4, <1>5, <1>6 DEF RowsKept, r

\* Five statements write rows.
LEMMA RowWriters ==
  ASSUME [Next]_vars
  PROVE  \/ mism' = mism
         \/ \E i \in DOMAIN mism : Close(i)
         \/ \E t \in Tasks : \/ Persist(t) \/ Resolved(t)
                             \/ \E m \in open[t] : Handle(t, m) \/ EscalateLate(t, m)
<1>1. \A t \in Tasks : EngineStep(t) => mism' = mism \/ Persist(t)
  BY DEF EngineStep, Mark, EndEngine, EndChain, Skip, Classify, ChainMark
<1>2. \A t \in Tasks : ResolverStep(t) =>
        mism' = mism \/ Resolved(t) \/ \E m \in open[t] : Handle(t, m) \/ EscalateLate(t, m)
  BY DEF ResolverStep, Posted, Awaited, ListSla, EndResolver, Repair
<1>3. \A t \in Tasks : Fails(t) => mism' = mism
  BY DEF Fails, EngineFails, PostFails, ResolvedFails, HandleFails, ChainFails
<1>4. \A t \in Tasks : StartPoll(t) \/ StartRun(t) => mism' = mism
  BY DEF StartPoll, StartRun
<1>5. \A p \in Procs : WindowRolls(p) \/ Crash(p) => mism' = mism
  BY DEF WindowRolls, Crash
<1>6. \A e \in Events : /\ IngestLedger(e) \/ WindowPasses(e) => mism' = mism
                       /\ \A n \in Notices[e] : IngestProvider(e, n) => mism' = mism
  BY DEF IngestLedger, WindowPasses, IngestProvider
<1>7. SessionCloses \/ UNCHANGED vars => mism' = mism
  BY DEF SessionCloses, vars
<1> QED BY <1>1, <1>2, <1>3, <1>4, <1>5, <1>6, <1>7 DEF Next, Step

\* What the statement of a resolver writes of the row it holds.
LEMMA HandleKeeps ==
  ASSUME ReconInv, NEW t \in Tasks, NEW m \in open[t], Handle(t, m)
  PROVE  /\ RowsKept /\ DOMAIN mism' = DOMAIN mism
         /\ m \in Job /\ SameRow(m)
         /\ mism'[m.id].status = Target(m)
         /\ \A i \in DOMAIN mism : i # m.id => mism'[i] = mism[i]
<1>1. m \in Job /\ SameRow(m) /\ TypeOK
  BY DEF ReconInv, TypeOK, JobsAreRows
<1>2. Target(m) \in {"open", "auto_resolved", "escalated", "closed"}
  BY DEF Handle, Target
<1> QED BY <1>1, <1>2, WriteRowKeeps DEF Handle

LEMMA ResolvedKeeps ==
  ASSUME ReconInv, NEW t \in Tasks, Resolved(t)
  PROVE  /\ RowsKept /\ DOMAIN mism' = DOMAIN mism
         /\ cur[t] \in Job /\ SameRow(cur[t])
         /\ mism'[cur[t].id].status = "auto_resolved"
         /\ \A i \in DOMAIN mism : i # cur[t].id => mism'[i] = mism[i]
<1>1. cur[t] \in Job /\ SameRow(cur[t]) /\ TypeOK
  BY DEF ReconInv, TypeOK, JobsAreRows, Resolved
<1> QED BY <1>1, WriteRowKeeps DEF Resolved

LEMMA EscalateKeeps ==
  ASSUME ReconInv, NEW t \in Tasks, NEW m \in open[t], EscalateLate(t, m)
  PROVE  /\ RowsKept /\ DOMAIN mism' = DOMAIN mism
         /\ \A i \in DOMAIN mism : mism'[i] = mism[i] \/ mism'[i].status = "escalated"
<1>1. m \in Job /\ m.id \in DOMAIN mism /\ TypeOK
  BY DEF ReconInv, TypeOK, JobsAreRows, SameRow
<1> QED BY <1>1, StatusKeeps DEF EscalateLate

LEMMA RowsStay ==
  ASSUME TablesInv, [Next]_vars
  PROVE  RowsKept
<1>1. ReconInv /\ TypeOK
  BY DEF TablesInv, ReconInv
<1>2. CASE mism' = mism
  BY <1>1, <1>2 DEF RowsKept, TypeOK
<1>3. ASSUME NEW i \in DOMAIN mism, Close(i) PROVE RowsKept
  BY <1>1, <1>3, StatusKeeps DEF Close
<1>4. ASSUME NEW t \in Tasks, Persist(t) PROVE RowsKept
  BY <1>1, <1>4, PersistKeeps DEF TablesInv, VerdictFiled, Persist
<1> QED BY <1>1, <1>2, <1>3, <1>4, RowWriters, HandleKeeps, ResolvedKeeps, EscalateKeeps

-----------------------------------------------------------------------------
(* Types.                                                                  *)

\* A verdict is one of the classes, and a match has a settlement.
LEMMA Verdicts ==
  ASSUME TypeOK, NEW e \in Events
  PROVE  /\ Class(notices[e]) \in MismatchClass \cup {"match"}
         /\ Class(notices[e]) = "match" => Drift(e) \in Nat
<1>1. Class(notices[e]) \in MismatchClass \cup {"match"}
  BY DEF Class, MismatchClass
<1>2. Class(notices[e]) = "match" => notices[e] # {}
  BY DEF Class
<1>3. notices[e] # {} => Settlement(notices[e]) \in notices[e]
  BY ReconciliationAssumption DEF Settlement, TypeOK
<1>4. \A n \in notices[e] : n.diff \in Nat
  BY DEF TypeOK, Notice
<1> QED BY <1>1, <1>2, <1>3, <1>4 DEF Drift

LEMMA JobTypes ==
  /\ \A e \in Events, c \in MismatchClass \cup {"match"} : Verdict(e, c) \in Job
  /\ TypeOK => OpenOnes \subseteq Job /\ Pending \subseteq Events
<1>1. \A e \in Events, c \in MismatchClass \cup {"match"} : Verdict(e, c) \in Job
  BY DEF Verdict, Job
<1>2. TypeOK => Pending \subseteq Events
  BY DEF Pending
<1>3. ASSUME TypeOK, NEW i \in DOMAIN mism PROVE Listed(i) \in Job
  <2>1. mism[i] \in Mismatch /\ i \in Nat
    BY <1>3, ElementOfSeq, LenProperties DEF TypeOK
  <2> QED BY <2>1 DEF Listed, Job, Mismatch
<1> QED BY <1>1, <1>2, <1>3 DEF OpenOnes

\* A step of a task moves that task only.
Busy(t) == Step(t) \/ Fails(t) \/ StartPoll(t) \/ StartRun(t)

TaskTypes ==
  /\ stage \in [Tasks -> Stages]
  /\ work  \in [Tasks -> SUBSET Events]
  /\ open  \in [Tasks -> SUBSET Job]
  /\ cur   \in [Tasks -> Job \cup {NoJob}]

OthersWait(t) ==
  \A u \in Tasks \ {t} :
    stage'[u] = stage[u] /\ work'[u] = work[u] /\ open'[u] = open[u] /\ cur'[u] = cur[u]

LEMMA OneTaskMoves ==
  ASSUME TypeOK, NEW t \in Tasks, Busy(t)
  PROVE  TaskTypes' /\ OthersWait(t)
<1> USE DEF TaskTypes, OthersWait, Goto, task, Stages
<1>0. TaskTypes
  BY DEF TypeOK
<1>1. CASE StartPoll(t) \/ StartRun(t)
  BY <1>0, <1>1, JobTypes DEF StartPoll, StartRun, Tasks
<1>2. CASE \E e \in Events : Skip(t, e) \/ ChainMark(t, e) \/ ChainFails(t, e)
  BY <1>0, <1>2 DEF Skip, ChainMark, ChainFails, Take
<1>3. ASSUME NEW e \in Events, Classify(t, e) PROVE TaskTypes' /\ OthersWait(t)
  <2>1. PICK c \in MismatchClass \cup {"match"} : Decide(t, e, c)
    BY <1>3, Verdicts DEF Classify, MismatchClass
  <2>2. open' = open
    BY <1>3 DEF Classify
  <2> QED BY <1>0, <2>1, <2>2, JobTypes DEF Decide, Take
<1>4. CASE Persist(t) \/ Mark(t) \/ EngineFails(t)
  BY <1>0, <1>4 DEF Persist, Mark, EngineFails
<1>5. CASE EndEngine(t) \/ EndChain(t)
  BY <1>0, <1>5, JobTypes DEF EndEngine, EndChain
<1>6. CASE \E m \in open[t] : Handle(t, m) \/ HandleFails(t, m)
  BY <1>0, <1>6 DEF Handle, HandleFails, Remove, EndPass
<1>7. CASE \E m \in open[t] : Repair(t, m)
  BY <1>0, <1>7 DEF Repair, Remove
<1>8. CASE Posted(t) \/ PostFails(t)
  BY <1>0, <1>8 DEF Posted, PostFails, NextMismatch
<1>9. CASE Awaited(t)
  BY <1>0, <1>9 DEF Awaited, NextMismatch
<1>10. CASE Resolved(t) \/ ResolvedFails(t)
  BY <1>0, <1>10 DEF Resolved, ResolvedFails, NextMismatch
<1>11. CASE ListSla(t) \/ EndResolver(t)
  BY <1>0, <1>11, JobTypes DEF ListSla, EndResolver, EndPass
<1>12. CASE \E m \in open[t] : EscalateLate(t, m)
  BY <1>0, <1>12 DEF EscalateLate, Remove
<1> HIDE DEF TaskTypes, OthersWait, Goto, task, Stages
<1> QED
  BY <1>1, <1>2, <1>3, <1>4, <1>5, <1>6, <1>7, <1>8, <1>9, <1>10, <1>11, <1>12
     DEF Busy, Step, EngineStep, ResolverStep, Fails

\* The stages at which a task holds a verdict or a mismatch.
Holding == {"persist", "mark", "effect", "await", "resolved"}

LEMMA HoldersHold ==
  ASSUME TypeOK, NEW t \in Tasks, Busy(t), stage'[t] \in Holding
  PROVE  cur'[t] \in Job
<1> USE DEF Goto, task, Holding, TypeOK
<1>1. CASE stage[t] \in Holding /\ cur'[t] = cur[t]
  BY <1>1
<1>2. CASE StartPoll(t) \/ StartRun(t)
  BY <1>2 DEF StartPoll, StartRun, Tasks
<1>3. ASSUME NEW e \in Events, Skip(t, e) \/ ChainMark(t, e) \/ ChainFails(t, e) PROVE cur'[t] \in Job
  BY <1>1, <1>3 DEF Skip, ChainMark, ChainFails
<1>4. ASSUME NEW e \in Events, Classify(t, e) PROVE cur'[t] \in Job
  <2>1. PICK c \in MismatchClass \cup {"match"} : Decide(t, e, c)
    BY <1>4, Verdicts DEF Classify, MismatchClass
  <2> QED BY <2>1, JobTypes DEF Decide
<1>5. CASE Persist(t) \/ Mark(t) \/ EngineFails(t) \/ EndEngine(t) \/ EndChain(t)
  BY <1>1, <1>5 DEF Persist, Mark, EngineFails, EndEngine, EndChain
<1>6. ASSUME NEW m \in open[t], Handle(t, m) \/ HandleFails(t, m) \/ EscalateLate(t, m)
      PROVE  cur'[t] \in Job
  BY <1>1, <1>6 DEF Handle, HandleFails, EscalateLate, EndPass
<1>7. ASSUME NEW m \in open[t], Repair(t, m) PROVE cur'[t] \in Job
  BY <1>7 DEF Repair
<1>8. CASE Posted(t) \/ PostFails(t) \/ Awaited(t) \/ Resolved(t) \/ ResolvedFails(t)
  BY <1>1, <1>8 DEF Posted, PostFails, Awaited, Resolved, ResolvedFails, NextMismatch
<1>9. CASE ListSla(t) \/ EndResolver(t)
  BY <1>1, <1>9 DEF ListSla, EndResolver, EndPass
<1> HIDE DEF Goto, task, Holding, TypeOK
<1> QED
  BY <1>2, <1>3, <1>4, <1>5, <1>6, <1>7, <1>8, <1>9 DEF Busy, Step, EngineStep, ResolverStep, Fails

\* What a process keeps in memory, and what the tables and the lock hold.
MemoryTypes ==
  /\ applied  \in [Procs -> SUBSET Events] /\ inFlight \in [Procs -> SUBSET Events]
  /\ absorbed \in [Procs -> Nat] /\ credits \in [Procs -> [Events -> Nat]]
  /\ lives \in [Procs -> Nat \ {0}] /\ windows \in Nat /\ mishaps \in Nat

TableTypes ==
  /\ ledger \in [Events -> {"absent", "pending", "matched", "unmatched"}]
  /\ lock \in Procs \cup {NoProc}
  /\ old \subseteq Events
  /\ notices \in [Events -> SUBSET Notice] /\ \A e \in Events : notices[e] \subseteq Notices[e]

LEMMA AddsOne ==
  ASSUME NEW P, NEW E, NEW f \in [P -> SUBSET E], NEW p \in P, NEW e \in E
  PROVE  [f EXCEPT ![p] = @ \cup {e}] \in [P -> SUBSET E]
OBVIOUS

LEMMA BusyTypes ==
  ASSUME TypeOK, NEW t \in Tasks, Busy(t)
  PROVE  MemoryTypes' /\ TableTypes'
<1> USE ReconciliationAssumption DEF MemoryTypes, TableTypes, memory, input
<1>0. MemoryTypes /\ TableTypes /\ ProcOf(t) \in Procs
      /\ (stage[t] \in Holding => cur[t] \in Job)
  BY ProcOfTask DEF TypeOK, Holding
<1>1. CASE StartPoll(t) \/ StartRun(t)
  <2>1. t[2] = "poll" => t[1] \in Procs
    BY DEF Tasks
  <2> QED BY <1>0, <1>1, <2>1 DEF StartPoll, StartRun
<1>2. CASE \E e \in Events : Skip(t, e) \/ ChainMark(t, e) \/ ChainFails(t, e)
  <2>1. PICK e \in Events : Skip(t, e) \/ ChainMark(t, e) \/ ChainFails(t, e)
    BY <1>2
  <2>2. CASE Skip(t, e) \/ ChainMark(t, e)
    BY <1>0, <2>2 DEF Skip, ChainMark
  <2>3. CASE ChainFails(t, e)
    BY <1>0, <2>3 DEF ChainFails
  <2> QED BY <2>1, <2>2, <2>3
<1>3. ASSUME NEW e \in Events, Classify(t, e) PROVE MemoryTypes' /\ TableTypes'
  <2>1. \/ UNCHANGED <<absorbed, windows>>
        \/ /\ absorbed' = [absorbed EXCEPT ![ProcOf(t)] = @ + Drift(e)] /\ Drift(e) \in Nat
           /\ windows' \in {windows, windows + 1}
    BY <1>3, Verdicts DEF Classify
  <2>2. UNCHANGED <<ledger, lock, input, applied, inFlight, credits, lives, mishaps>>
    BY <1>3 DEF Classify
  <2>3. absorbed[ProcOf(t)] \in Nat
    BY <1>0
  <2>4. \A d \in Nat : absorbed[ProcOf(t)] + d \in Nat
    BY <2>3
  <2>5. absorbed' \in [Procs -> Nat]
    BY <1>0, <2>1, <2>4
  <2>6. windows' \in Nat
    BY <1>0, <2>1
  <2> QED BY <1>0, <2>2, <2>5, <2>6
<1>4. CASE Persist(t) \/ EndEngine(t) \/ EndChain(t)
  BY <1>0, <1>4 DEF Persist, EndEngine, EndChain
<1>5. CASE Mark(t)
  <2>1. ledger' = [ledger EXCEPT ![cur[t].ev] = MarkAs(cur[t].class)]
        /\ UNCHANGED <<lock, input, memory, mishaps>>
    BY <1>5 DEF Mark
  <2>2. MarkAs(cur[t].class) \in {"matched", "unmatched"}
    BY DEF MarkAs
  <2> QED BY <1>0, <2>1, <2>2
<1>6. CASE EngineFails(t) \/ ResolvedFails(t)
  BY <1>0, <1>6 DEF EngineFails, ResolvedFails
<1>7. ASSUME NEW m \in open[t], Handle(t, m) \/ EscalateLate(t, m) PROVE MemoryTypes' /\ TableTypes'
  BY <1>0, <1>7 DEF Handle, EscalateLate
<1>8. ASSUME NEW m \in open[t], HandleFails(t, m) PROVE MemoryTypes' /\ TableTypes'
  BY <1>0, <1>8 DEF HandleFails, EndPass
<1>9. ASSUME NEW m \in open[t], Repair(t, m) PROVE MemoryTypes' /\ TableTypes'
  <2>1. m.ev \in Events
    BY DEF TypeOK, Job
  <2>2. inFlight' = inFlight \/ inFlight' = [inFlight EXCEPT ![ProcOf(t)] = @ \cup {m.ev}]
    BY <1>9 DEF Repair
  <2>3. UNCHANGED <<ledger, input, lock, applied, absorbed, credits, lives, windows, mishaps>>
    BY <1>9 DEF Repair
  <2>4. inFlight' \in [Procs -> SUBSET Events]
    <3>1. inFlight \in [Procs -> SUBSET Events] /\ ProcOf(t) \in Procs
      BY <1>0
    <3>2. [inFlight EXCEPT ![ProcOf(t)] = @ \cup {m.ev}] \in [Procs -> SUBSET Events]
      BY <2>1, <3>1, AddsOne
    <3> QED BY <2>2, <3>1, <3>2
  <2>5. MemoryTypes'
    BY <1>0, <2>3, <2>4
  <2>6. TableTypes'
    BY <1>0, <2>3
  <2> QED BY <2>5, <2>6
<1>10. CASE Posted(t) \/ PostFails(t)
  <2>1. cur[t].ev \in Events
    BY <1>0, <1>10 DEF Posted, PostFails, Holding, Job
  <2>2. CASE Posted(t)
    <3>1. credits' \in [Procs -> [Events -> Nat]]
      BY <1>0, <2>1, <2>2 DEF Posted
    <3>2. applied' \in [Procs -> SUBSET Events] /\ inFlight' \in [Procs -> SUBSET Events]
      BY <1>0, <2>1, <2>2 DEF Posted
    <3>3. UNCHANGED <<ledger, input, lock, absorbed, lives, windows, mishaps>>
      BY <2>2 DEF Posted
    <3> QED BY <1>0, <3>1, <3>2, <3>3
  <2>3. CASE PostFails(t)
    BY <1>0, <2>1, <2>3 DEF PostFails
  <2> QED BY <1>10, <2>2, <2>3
<1>11. CASE Awaited(t) \/ Resolved(t) \/ ListSla(t)
  BY <1>0, <1>11 DEF Awaited, Resolved, ListSla
<1>12. CASE EndResolver(t)
  BY <1>0, <1>12 DEF EndResolver, EndPass
<1> HIDE DEF MemoryTypes, TableTypes, memory, input
<1> QED
  BY <1>1, <1>2, <1>3, <1>4, <1>5, <1>6, <1>7, <1>8, <1>9, <1>10, <1>11, <1>12
     DEF Busy, Step, EngineStep, ResolverStep, Fails

\* The steps of nobody's pass.
LEMMA OtherTypes ==
  ASSUME TypeOK, [Next]_vars
  PROVE  \/ \E t \in Tasks : Busy(t)
         \/ \E p \in Procs : Crash(p)
         \/ MemoryTypes' /\ TableTypes' /\ UNCHANGED <<stage, work, open, cur, applied, inFlight, credits, lives>>
<1> USE ReconciliationAssumption DEF MemoryTypes, TableTypes, memory, input, task
<1>0. MemoryTypes /\ TableTypes
  BY DEF TypeOK
<1> DEFINE Quiet == MemoryTypes' /\ TableTypes' /\ UNCHANGED <<stage, work, open, cur, applied, inFlight, credits, lives>>
<1>1. ASSUME NEW e \in Events, IngestLedger(e) \/ WindowPasses(e) PROVE Quiet
  BY <1>0, <1>1 DEF IngestLedger, WindowPasses
<1>2. ASSUME NEW e \in Events, NEW n \in Notices[e], IngestProvider(e, n) PROVE Quiet
  BY <1>0, <1>2 DEF IngestProvider
<1>3. ASSUME NEW i \in DOMAIN mism, Close(i) PROVE Quiet
  BY <1>0, <1>3 DEF Close
<1>4. ASSUME NEW p \in Procs, WindowRolls(p) PROVE Quiet
  BY <1>0, <1>4 DEF WindowRolls
<1>5. ASSUME SessionCloses \/ UNCHANGED vars PROVE Quiet
  BY <1>0, <1>5 DEF SessionCloses, vars
<1> HIDE DEF Quiet, MemoryTypes, TableTypes, memory, input, task
<1>6. Quiet \/ (\E t \in Tasks : Busy(t)) \/ \E p \in Procs : Crash(p)
  BY <1>1, <1>2, <1>3, <1>4, <1>5 DEF Next, Busy
<1> QED BY <1>6 DEF Quiet

CrashOf(p) ==
  \A t \in Tasks :
    \/ stage'[t] = stage[t] /\ cur'[t] = cur[t] /\ open'[t] = open[t] /\ ProcOf(t) # p
    \/ stage'[t] \in {"idle", "over"} /\ open'[t] = {} /\ ProcOf(t) = p

LEMMA CrashTypes ==
  ASSUME TypeOK, NEW p \in Procs, Crash(p)
  PROVE  TaskTypes' /\ MemoryTypes' /\ TableTypes' /\ CrashOf(p)
<1> USE ReconciliationAssumption DEF Crash, input
<1>1. TaskTypes'
  BY DEF TypeOK, TaskTypes, Stages
<1>2. MemoryTypes'
  BY DEF TypeOK, MemoryTypes
<1>3. TableTypes'
  BY DEF TypeOK, TableTypes
<1>4. CrashOf(p)
  BY DEF CrashOf
<1> HIDE DEF Crash, input
<1> QED BY <1>1, <1>2, <1>3, <1>4

LEMMA TypeKept ==
  ASSUME TablesInv, [Next]_vars
  PROVE  TypeOK'
<1>0. TypeOK /\ TaskTypes
  BY DEF TablesInv, ReconInv, TypeOK, TaskTypes
<1>1. mism' \in Seq(Mismatch)
  BY RowsStay DEF RowsKept
<1> DEFINE Held == \A t \in Tasks : stage[t] \in Holding => cur[t] \in Job
<1>2. TaskTypes' /\ MemoryTypes' /\ TableTypes' /\ Held' => TypeOK'
  BY <1>1 DEF TypeOK, TaskTypes, MemoryTypes, TableTypes, Holding
<1>3. Held
  BY <1>0 DEF TypeOK, Holding
<1>4. ASSUME NEW t \in Tasks, Busy(t) PROVE TypeOK'
  <2>1. TaskTypes' /\ OthersWait(t) /\ MemoryTypes' /\ TableTypes'
    BY <1>0, <1>4, OneTaskMoves, BusyTypes
  <2>2. Held'
    BY <1>0, <1>3, <1>4, <2>1, HoldersHold DEF OthersWait
  <2> QED BY <2>1, <2>2, <1>2
<1>5. ASSUME NEW p \in Procs, Crash(p) PROVE TypeOK'
  BY <1>0, <1>2, <1>3, <1>5, CrashTypes DEF Holding, CrashOf
<1>6. CASE MemoryTypes' /\ TableTypes' /\ UNCHANGED <<stage, work, open, cur>>
  <2>1. TaskTypes' /\ Held'
    BY <1>0, <1>3, <1>6 DEF TaskTypes
  <2> QED BY <1>2, <1>6, <2>1
<1> QED BY <1>0, <1>4, <1>5, <1>6, OtherTypes

-----------------------------------------------------------------------------
(* The passes and the rows.                                                *)

\* What a busy task lists is open, what it repairs it has listed, and what it
\* files is a mismatch.
LEMMA BusyJobs ==
  ASSUME TypeOK, NEW t \in Tasks, Busy(t)
  PROVE  /\ \A m \in open'[t] : m \in open[t] \/ m \in OpenOnes
         /\ stage'[t] = "persist" => cur'[t].class \in MismatchClass \/ (stage[t] = "persist" /\ cur'[t] = cur[t])
         /\ stage'[t] \in {"effect", "await", "resolved"} =>
              \/ stage[t] \in {"effect", "await", "resolved"} /\ cur'[t] = cur[t]
              \/ \E m \in open[t] : Target(m) = "repair" /\ cur'[t] = m
<1> USE DEF Goto, task, TypeOK
<1> DEFINE Good ==
  /\ \A m \in open'[t] : m \in open[t] \/ m \in OpenOnes
  /\ stage'[t] = "persist" => cur'[t].class \in MismatchClass \/ (stage[t] = "persist" /\ cur'[t] = cur[t])
  /\ stage'[t] \in {"effect", "await", "resolved"} =>
       \/ stage[t] \in {"effect", "await", "resolved"} /\ cur'[t] = cur[t]
       \/ \E m \in open[t] : Target(m) = "repair" /\ cur'[t] = m
<1>1. ASSUME StartPoll(t) \/ StartRun(t) PROVE Good
  BY <1>1 DEF StartPoll, StartRun, Tasks
<1>2. ASSUME NEW e \in Events, Skip(t, e) \/ ChainMark(t, e) \/ ChainFails(t, e) PROVE Good
  BY <1>2 DEF Skip, ChainMark, ChainFails
<1>3. ASSUME NEW e \in Events, Classify(t, e) PROVE Good
  <2>1. PICK c \in MismatchClass \cup {"match"} : Decide(t, e, c)
    BY <1>3, Verdicts DEF Classify, MismatchClass
  <2>2. stage'[t] = "persist" => c \in MismatchClass
    BY <2>1 DEF Decide
  <2>3. cur'[t].class = c /\ stage'[t] \in {"mark", "persist"}
    BY <2>1 DEF Decide, Verdict
  <2>4. open' = open
    BY <1>3 DEF Classify
  <2> QED BY <2>2, <2>3, <2>4
<1>4. ASSUME Persist(t) \/ Mark(t) \/ EngineFails(t) \/ EndEngine(t) \/ EndChain(t) PROVE Good
  BY <1>4 DEF Persist, Mark, EngineFails, EndEngine, EndChain
<1>5. ASSUME NEW m \in open[t], Handle(t, m) \/ HandleFails(t, m) \/ EscalateLate(t, m) PROVE Good
  BY <1>5 DEF Handle, HandleFails, EscalateLate, EndPass, Remove
<1>6. ASSUME NEW m \in open[t], Repair(t, m) PROVE Good
  <2>1. cur'[t] = m /\ Target(m) = "repair" /\ stage'[t] # "persist"
    BY <1>6 DEF Repair
  <2>2. open'[t] \subseteq open[t]
    BY <1>6 DEF Repair, Remove
  <2> QED BY <2>1, <2>2
<1>7. ASSUME Posted(t) \/ PostFails(t) \/ Awaited(t) \/ Resolved(t) \/ ResolvedFails(t) PROVE Good
  BY <1>7 DEF Posted, PostFails, Awaited, Resolved, ResolvedFails, NextMismatch
<1>8. ASSUME ListSla(t) \/ EndResolver(t) PROVE Good
  BY <1>8 DEF ListSla, EndResolver, EndPass
<1> HIDE DEF Goto, task, TypeOK, Good
<1>9. EngineStep(t) => Good
  BY <1>2, <1>3, <1>4 DEF EngineStep
<1>10. ResolverStep(t) => Good
  BY <1>5, <1>6, <1>7, <1>8 DEF ResolverStep
<1>11. Fails(t) => Good
  BY <1>2, <1>4, <1>5, <1>7 DEF Fails
<1>12. Good
  BY <1>1, <1>9, <1>10, <1>11 DEF Busy, Step
<1> QED BY <1>12 DEF Good

LEMMA OpenOnesAreRows == \A m \in OpenOnes : SameRow(m)
BY DEF OpenOnes, Listed, SameRow

\* SameRow, of the rows after the step.
RowNext(m) == m.id \in DOMAIN mism' /\ mism'[m.id].class = m.class /\ mism'[m.id].ev = m.ev

LEMMA RepairsAreCredits ==
  ASSUME TypeOK, NEW m, SameRow(m), Target(m) = "repair"
  PROVE  m.class = "missing_credit"
<1>1. m.class \in MismatchClass
  <2>1. mism \in Seq(Mismatch) /\ m.id \in 1 .. Len(mism)
    BY LenProperties DEF TypeOK, SameRow
  <2>2. mism[m.id] \in Mismatch
    BY <2>1, ElementOfSeq
  <2> QED BY <2>2 DEF SameRow, Mismatch
<1> QED BY <1>1 DEF MismatchClass, Target

LEMMA JobsStay ==
  ASSUME TablesInv, [Next]_vars
  PROVE  JobsAreRows' /\ VerdictFiled'
<1>0. TypeOK /\ JobsAreRows /\ VerdictFiled /\ RowsKept
  BY RowsStay DEF TablesInv, ReconInv
<1> DEFINE Repairing == {"effect", "await", "resolved"}
           Fine(t) == /\ \A m \in open'[t] : RowNext(m)
                      /\ stage'[t] \in Repairing => RowNext(cur'[t]) /\ cur'[t].class = "missing_credit"
                      /\ stage'[t] = "persist" => cur'[t].class \in MismatchClass
<1>1. ASSUME NEW t \in Tasks, stage'[t] = stage[t], cur'[t] = cur[t], open'[t] = open[t]
      PROVE Fine(t)
  <2>1. \A m \in open[t] : RowNext(m)
    BY <1>0 DEF JobsAreRows, RowsKept, SameRow, RowNext
  <2>2. stage[t] \in Repairing => RowNext(cur[t]) /\ cur[t].class = "missing_credit"
    BY <1>0 DEF JobsAreRows, RowsKept, SameRow, RowNext
  <2> QED BY <1>0, <1>1, <2>1, <2>2 DEF VerdictFiled
<1>2. ASSUME NEW t \in Tasks, Busy(t) PROVE Fine(t)
  <2>1. ASSUME NEW m \in open'[t] PROVE RowNext(m)
    BY <1>0, <1>2, <2>1, BusyJobs, OpenOnesAreRows DEF JobsAreRows, RowsKept, SameRow, RowNext
  <2>2. ASSUME stage'[t] \in Repairing PROVE RowNext(cur'[t]) /\ cur'[t].class = "missing_credit"
    <3>1. CASE stage[t] \in Repairing /\ cur'[t] = cur[t]
      BY <1>0, <3>1 DEF JobsAreRows, RowsKept, SameRow, RowNext
    <3>2. ASSUME NEW m \in open[t], Target(m) = "repair", cur'[t] = m
          PROVE  RowNext(cur'[t]) /\ cur'[t].class = "missing_credit"
      <4>1. SameRow(m) /\ m.class = "missing_credit"
        BY <1>0, <3>2, RepairsAreCredits DEF JobsAreRows
      <4> QED BY <1>0, <3>2, <4>1 DEF RowsKept, SameRow, RowNext
    <3> QED BY <1>0, <1>2, <2>2, <3>1, <3>2, BusyJobs
  <2>3. ASSUME stage'[t] = "persist" PROVE cur'[t].class \in MismatchClass
    BY <1>0, <1>2, <2>3, BusyJobs DEF VerdictFiled
  <2> QED BY <2>1, <2>2, <2>3
<1>3. ASSUME NEW t \in Tasks, stage'[t] \in {"idle", "over"}, open'[t] = {} PROVE Fine(t)
  BY <1>3
<1> HIDE DEF Fine
<1>4. \A t \in Tasks : Fine(t)
  <2> SUFFICES ASSUME NEW t \in Tasks PROVE Fine(t)
    OBVIOUS
  <2>1. ASSUME NEW u \in Tasks, Busy(u) PROVE Fine(t)
    BY <1>0, <1>1, <1>2, <2>1, OneTaskMoves DEF OthersWait
  <2>2. ASSUME NEW p \in Procs, Crash(p) PROVE Fine(t)
    BY <1>0, <1>1, <1>3, <2>2, CrashTypes DEF CrashOf
  <2>3. CASE UNCHANGED <<stage, open, cur>>
    BY <1>1, <2>3
  <2> QED BY <1>0, <2>1, <2>2, <2>3, OtherTypes
<1> QED BY <1>4 DEF Fine, JobsAreRows, VerdictFiled, SameRow, RowNext

\* Who registers a repair, or ends one.
LEMMA FlightFrame ==
  ASSUME TypeOK, NEW t \in Tasks, Busy(t)
  PROVE  \/ Posted(t) \/ PostFails(t) \/ \E m \in open[t] : Repair(t, m)
         \/ UNCHANGED <<applied, inFlight>> /\ stage'[t] # "effect"
<1> USE DEF Goto, memory, TypeOK
<1> DEFINE Calm == UNCHANGED <<applied, inFlight>> /\ stage'[t] # "effect"
<1>1. ASSUME StartPoll(t) \/ StartRun(t) PROVE Calm
  BY <1>1 DEF StartPoll, StartRun, Tasks
<1>2. ASSUME NEW e \in Events, Skip(t, e) \/ ChainMark(t, e) \/ ChainFails(t, e) PROVE Calm
  BY <1>2 DEF Skip, ChainMark, ChainFails, task
<1>3. ASSUME NEW e \in Events, Classify(t, e) PROVE Calm
  <2>1. PICK c \in MismatchClass \cup {"match"} : Decide(t, e, c)
    BY <1>3, Verdicts DEF Classify, MismatchClass
  <2>2. UNCHANGED <<applied, inFlight>>
    BY <1>3 DEF Classify
  <2> QED BY <2>1, <2>2 DEF Decide
<1>4. ASSUME Persist(t) \/ Mark(t) \/ EngineFails(t) \/ EndEngine(t) \/ EndChain(t) PROVE Calm
  BY <1>4 DEF Persist, Mark, EngineFails, EndEngine, EndChain
<1>5. ASSUME NEW m \in open[t], Handle(t, m) \/ HandleFails(t, m) \/ EscalateLate(t, m) PROVE Calm
  BY <1>5 DEF Handle, HandleFails, EscalateLate, EndPass
<1>6. ASSUME Awaited(t) \/ Resolved(t) \/ ResolvedFails(t) PROVE Calm
  BY <1>6 DEF Awaited, Resolved, ResolvedFails, NextMismatch
<1>7. ASSUME ListSla(t) \/ EndResolver(t) PROVE Calm
  BY <1>7 DEF ListSla, EndResolver, EndPass
<1> HIDE DEF Goto, memory, TypeOK, Calm
<1> DEFINE Owned == Posted(t) \/ PostFails(t) \/ \E m \in open[t] : Repair(t, m)
<1>8. EngineStep(t) => Calm
  BY <1>2, <1>3, <1>4 DEF EngineStep
<1>9. ResolverStep(t) => Calm \/ Owned
  BY <1>5, <1>6, <1>7 DEF ResolverStep
<1>10. Fails(t) => Calm \/ Owned
  BY <1>2, <1>4, <1>5, <1>6 DEF Fails
<1>11. Calm \/ Owned
  BY <1>1, <1>8, <1>9, <1>10 DEF Busy, Step
<1> QED BY <1>11 DEF Calm

\* Repairs under way: who registers one finds none, and who ends one was alone.
LEMMA FlightStays ==
  ASSUME TypeOK, TypeOK', FlightOwned, [Next]_vars
  PROVE  FlightOwned'
<1> DEFINE Effect(t) == stage[t] = "effect"
           Next2(t) == stage'[t] = "effect"
<1>0. /\ \A t \in Tasks : Effect(t) =>
            /\ cur[t].ev \in inFlight[ProcOf(t)] \ applied[ProcOf(t)] /\ cur[t].ev \in Events
      /\ \A t, u \in Tasks : Effect(t) /\ Effect(u) /\ ProcOf(t) = ProcOf(u) /\ cur[t].ev = cur[u].ev => t = u
  BY DEF FlightOwned, TypeOK, Job
<1>1. CASE /\ \A t \in Tasks : Next2(t) => Effect(t) /\ cur'[t] = cur[t]
           /\ \A t \in Tasks : Next2(t) => /\ inFlight'[ProcOf(t)] = inFlight[ProcOf(t)]
                                         /\ applied'[ProcOf(t)] = applied[ProcOf(t)]
  BY <1>0, <1>1 DEF FlightOwned
<1>2. ASSUME NEW t \in Tasks, Posted(t) \/ PostFails(t) PROVE FlightOwned'
  <2>1. /\ Effect(t) /\ cur[t].ev \in Events /\ ProcOf(t) \in Procs
        /\ inFlight' = [inFlight EXCEPT ![ProcOf(t)] = @ \ {cur[t].ev}]
        /\ applied' \in {applied, [applied EXCEPT ![ProcOf(t)] = @ \cup {cur[t].ev}]}
    BY <1>0, <1>2, ProcOfTask DEF Posted, PostFails
  <2>2. /\ stage'[t] # "effect"
        /\ \A u \in Tasks \ {t} : stage'[u] = stage[u] /\ cur'[u] = cur[u]
    BY <1>2 DEF Posted, PostFails, NextMismatch, Goto, TypeOK
  <2>3. ASSUME NEW u \in Tasks, Next2(u)
        PROVE  Effect(u) /\ cur'[u] = cur[u] /\ cur[u].ev \in inFlight'[ProcOf(u)] \ applied'[ProcOf(u)]
    <3>1. u # t /\ Effect(u) /\ cur'[u] = cur[u] /\ ProcOf(u) \in Procs
      BY <2>2, <2>3, ProcOfTask
    <3>2. CASE ProcOf(u) # ProcOf(t)
      BY <1>0, <2>1, <3>1, <3>2 DEF TypeOK
    <3>3. CASE ProcOf(u) = ProcOf(t)
      <4>1. cur[u].ev # cur[t].ev
        BY <1>0, <2>1, <3>1, <3>3
      <4> QED BY <1>0, <2>1, <3>1, <3>3, <4>1 DEF TypeOK
    <3> QED BY <3>2, <3>3
  <2> QED BY <1>0, <2>3 DEF FlightOwned
<1>3. ASSUME NEW t \in Tasks, NEW m \in open[t], Repair(t, m) PROVE FlightOwned'
  <2>1. /\ UNCHANGED applied /\ cur'[t] = m /\ m.ev \in Events /\ ProcOf(t) \in Procs
        /\ \A u \in Tasks \ {t} : stage'[u] = stage[u] /\ cur'[u] = cur[u]
    BY <1>3, ProcOfTask DEF Repair, Goto, TypeOK, Job
  <2>2. CASE stage'[t] # "effect" /\ inFlight' = inFlight
    BY <1>0, <2>1, <2>2 DEF FlightOwned
  <2>3. CASE /\ stage'[t] = "effect" /\ m.ev \notin applied[ProcOf(t)] /\ m.ev \notin inFlight[ProcOf(t)]
             /\ inFlight' = [inFlight EXCEPT ![ProcOf(t)] = @ \cup {m.ev}]
    <3>1. m.ev \in inFlight'[ProcOf(t)] \ applied'[ProcOf(t)]
      BY <2>1, <2>3 DEF TypeOK
    <3>2. ASSUME NEW u \in Tasks \ {t}, Next2(u)
          PROVE  /\ Effect(u) /\ cur'[u] = cur[u]
                 /\ cur[u].ev \in inFlight'[ProcOf(u)] \ applied'[ProcOf(u)]
                 /\ ProcOf(u) = ProcOf(t) => cur[u].ev # m.ev
      <4>1. Effect(u) /\ cur'[u] = cur[u] /\ cur[u].ev \in inFlight[ProcOf(u)] \ applied[ProcOf(u)]
        BY <1>0, <2>1, <3>2
      <4>2. ProcOf(u) \in Procs
        BY ProcOfTask
      <4>3. inFlight[ProcOf(u)] \subseteq inFlight'[ProcOf(u)]
        BY <2>3, <4>2 DEF TypeOK
      <4> QED BY <2>1, <2>3, <4>1, <4>3
    <3>3. \A u \in Tasks : Next2(u) => cur'[u].ev \in inFlight'[ProcOf(u)] \ applied'[ProcOf(u)]
      BY <2>1, <3>1, <3>2
    <3>4. ASSUME NEW u \in Tasks, NEW v \in Tasks, Next2(u), Next2(v),
                 ProcOf(u) = ProcOf(v), cur'[u].ev = cur'[v].ev
          PROVE  u = v
      <4>1. CASE u # t /\ v # t
        BY <1>0, <3>2, <3>4, <4>1
      <4>2. CASE u = t \/ v = t
        BY <2>1, <3>2, <3>4, <4>2
      <4> QED BY <4>1, <4>2
    <3> QED BY <3>3, <3>4 DEF FlightOwned
  <2>4. t \in DOMAIN stage
    BY DEF TypeOK
  <2> QED BY <1>3, <2>2, <2>3, <2>4 DEF Repair, UnderWay, Goto
<1>4. ASSUME NEW t \in Tasks, Busy(t), UNCHANGED <<applied, inFlight>>, stage'[t] # "effect"
      PROVE FlightOwned'
  <2>1. \A u \in Tasks : Next2(u) => Effect(u) /\ cur'[u] = cur[u]
    BY <1>4, OneTaskMoves DEF OthersWait
  <2> QED BY <1>0, <1>4, <2>1 DEF FlightOwned
<1>5. ASSUME NEW p \in Procs, Crash(p) PROVE FlightOwned'
  <2>1. CrashOf(p) /\ \A q \in Procs \ {p} : inFlight'[q] = inFlight[q] /\ applied'[q] = applied[q]
    BY <1>5, CrashTypes DEF Crash, TypeOK
  <2>2. \A t \in Tasks : Next2(t) => Effect(t) /\ cur'[t] = cur[t] /\ ProcOf(t) \in Procs \ {p}
    BY <2>1, ProcOfTask DEF CrashOf
  <2> QED BY <1>1, <2>1, <2>2
<1>6. CASE UNCHANGED <<stage, cur, applied, inFlight>>
  BY <1>0, <1>6 DEF FlightOwned
<1>7. ASSUME NEW t \in Tasks, Busy(t)
      PROVE  \/ Posted(t) \/ PostFails(t) \/ \E m \in open[t] : Repair(t, m)
             \/ UNCHANGED <<applied, inFlight>> /\ stage'[t] # "effect"
  BY <1>7, FlightFrame
<1> HIDE DEF Next2, Effect
<1> QED BY <1>2, <1>3, <1>4, <1>5, <1>6, <1>7, OtherTypes

LEMMA TablesInvariant == Spec => []TablesInv
<1>1. Init => TablesInv
  <2> SUFFICES ASSUME Init PROVE TablesInv
    OBVIOUS
  <2>1. TypeOK
    <3>1. mism \in Seq(Mismatch)
      BY DEF Init
    <3> QED BY <3>1, ReconciliationAssumption DEF Init, TypeOK, Stages
  <2>2. FlightOwned /\ JobsAreRows /\ VerdictFiled
    BY DEF Init, FlightOwned, JobsAreRows, VerdictFiled
  <2> QED BY <2>1, <2>2 DEF TablesInv, ReconInv
<1>2. TablesInv /\ [Next]_vars => TablesInv'
  <2> SUFFICES ASSUME TablesInv, [Next]_vars PROVE TablesInv'
    OBVIOUS
  <2>1. TypeOK'
    BY TypeKept
  <2>2. FlightOwned'
    BY <2>1, FlightStays DEF TablesInv, ReconInv
  <2>3. JobsAreRows' /\ VerdictFiled'
    BY JobsStay
  <2> QED BY <2>1, <2>2, <2>3 DEF TablesInv, ReconInv
<1> QED BY <1>1, <1>2, PTL DEF Spec

\* The tables and the passes stay consistent.  That a repair is registered
\* before its effect is what keeps two passes of a process apart; that rows keep
\* their class and event is what makes a mismatch as listed still the row's.
THEOREM ReconciliationConsistent == Spec => []ReconInv
<1>1. TablesInv => ReconInv
  BY DEF TablesInv
<1> QED BY <1>1, TablesInvariant, PTL

-----------------------------------------------------------------------------
(* Credits.                                                                *)

\* Who posts a credit, and who takes a mismatch for resolved.
LEMMA CreditFrame ==
  ASSUME TypeOK, NEW t \in Tasks, Busy(t)
  PROVE  /\ Posted(t) \/ UNCHANGED <<credits, applied, lives>>
         /\ stage'[t] = "resolved" =>
              \/ stage[t] = "resolved" /\ cur'[t] = cur[t]
              \/ cur'[t].ev \in applied'[ProcOf(t)]
<1> USE DEF Goto, memory, TypeOK
<1> DEFINE Fine ==
  /\ UNCHANGED <<credits, applied, lives>>
  /\ stage'[t] = "resolved" =>
       \/ stage[t] = "resolved" /\ cur'[t] = cur[t]
       \/ cur'[t].ev \in applied'[ProcOf(t)]
<1>1. ASSUME StartPoll(t) \/ StartRun(t) PROVE Fine
  BY <1>1 DEF StartPoll, StartRun, Tasks
<1>2. ASSUME NEW e \in Events, Skip(t, e) \/ ChainMark(t, e) \/ ChainFails(t, e) PROVE Fine
  BY <1>2 DEF Skip, ChainMark, ChainFails, task
<1>3. ASSUME NEW e \in Events, Classify(t, e) PROVE Fine
  <2>1. PICK c \in MismatchClass \cup {"match"} : Decide(t, e, c)
    BY <1>3, Verdicts DEF Classify, MismatchClass
  <2>2. UNCHANGED <<applied, credits, lives>>
    BY <1>3 DEF Classify
  <2> QED BY <2>1, <2>2 DEF Decide
<1>4. ASSUME Persist(t) \/ Mark(t) \/ EngineFails(t) \/ EndEngine(t) \/ EndChain(t) PROVE Fine
  BY <1>4 DEF Persist, Mark, EngineFails, EndEngine, EndChain
<1>5. ASSUME NEW m \in open[t], Handle(t, m) \/ HandleFails(t, m) \/ EscalateLate(t, m) PROVE Fine
  BY <1>5 DEF Handle, HandleFails, EscalateLate, EndPass
<1>6. ASSUME Awaited(t) \/ Resolved(t) \/ ResolvedFails(t) \/ PostFails(t) PROVE Fine
  BY <1>6 DEF Awaited, Resolved, ResolvedFails, PostFails, NextMismatch
<1>7. ASSUME ListSla(t) \/ EndResolver(t) PROVE Fine
  BY <1>7 DEF ListSla, EndResolver, EndPass
<1>8. ASSUME NEW m \in open[t], Repair(t, m) PROVE Fine
  <2>1. cur'[t] = m /\ UNCHANGED <<credits, applied, lives>>
    BY <1>8 DEF Repair
  <2>2. stage'[t] = "resolved" => m.ev \in applied[ProcOf(t)]
    BY <1>8 DEF Repair
  <2> QED BY <2>1, <2>2
<1>9. ASSUME Posted(t) PROVE cur'[t].ev \in applied'[ProcOf(t)]
  <2>1. /\ ProcOf(t) \in Procs /\ cur' = cur
        /\ applied' = [applied EXCEPT ![ProcOf(t)] = @ \cup {cur[t].ev}]
    BY <1>9, ProcOfTask DEF Posted
  <2> QED BY <2>1
<1> HIDE DEF Goto, memory, TypeOK, Fine
<1>10. EngineStep(t) => Fine
  BY <1>2, <1>3, <1>4 DEF EngineStep
<1>11. ResolverStep(t) => Fine \/ Posted(t)
  BY <1>5, <1>6, <1>7, <1>8 DEF ResolverStep
<1>12. Fails(t) => Fine
  BY <1>2, <1>4, <1>5, <1>6 DEF Fails
<1>13. Fine \/ Posted(t)
  BY <1>1, <1>10, <1>11, <1>12 DEF Busy, Step
<1> QED BY <1>9, <1>13 DEF Fine

\* In a life of a process a credit is posted only when its key is recorded.
PerLife ==
  \A p \in Procs, e \in Events :
    credits[p][e] <= lives[p] - (IF e \in applied[p] THEN 0 ELSE 1)

\* The missing credit of an event is posted once in a life of a process.
THEOREM CreditOncePerLife == Spec => []OneCreditPerLife
<1>1. Init => PerLife
  <2> SUFFICES ASSUME Init, NEW p \in Procs, NEW e \in Events
               PROVE  credits[p][e] <= lives[p] - (IF e \in applied[p] THEN 0 ELSE 1)
    BY DEF PerLife
  <2>1. credits[p][e] = 0 /\ lives[p] = 1 /\ applied[p] = {}
    BY DEF Init
  <2> QED BY <2>1
<1>2. TablesInv /\ PerLife /\ [Next]_vars => PerLife'
  <2> SUFFICES ASSUME TablesInv, PerLife, [Next]_vars PROVE PerLife'
    OBVIOUS
  <2>0. TypeOK /\ FlightOwned
    BY DEF TablesInv, ReconInv
  <2>1. CASE UNCHANGED <<credits, applied, lives>>
    BY <2>1 DEF PerLife
  <2>2. ASSUME NEW t \in Tasks, Posted(t) PROVE PerLife'
    <3>1. /\ ProcOf(t) \in Procs /\ cur[t].ev \in Events /\ cur[t].ev \notin applied[ProcOf(t)]
      BY <2>0, <2>2, ProcOfTask DEF Posted, FlightOwned, TypeOK, Job
    <3>2. lives' = lives
      BY <2>2 DEF Posted
    <3>3. \A p \in Procs, e \in Events : p # ProcOf(t) \/ e # cur[t].ev =>
            credits'[p][e] = credits[p][e] /\ (e \in applied'[p] <=> e \in applied[p])
      BY <2>0, <2>2, <3>1 DEF Posted, TypeOK
    <3>4. /\ credits'[ProcOf(t)][cur[t].ev] = credits[ProcOf(t)][cur[t].ev] + 1
          /\ cur[t].ev \in applied'[ProcOf(t)]
      BY <2>0, <2>2, <3>1 DEF Posted, TypeOK
    <3>5. \A p \in Procs, e \in Events : credits[p][e] \in Nat /\ lives[p] \in Nat
      BY <2>0 DEF TypeOK
    <3> QED BY <3>1, <3>2, <3>3, <3>4, <3>5 DEF PerLife
  <2>3. ASSUME NEW p \in Procs, Crash(p) PROVE PerLife'
    <3>1. \A q \in Procs, e \in Events : credits[q][e] \in Nat /\ lives[q] \in Nat
      BY <2>0 DEF TypeOK
    <3>2. /\ credits' = credits /\ lives'[p] = lives[p] + 1 /\ applied'[p] = {}
          /\ \A q \in Procs \ {p} : lives'[q] = lives[q] /\ applied'[q] = applied[q]
      BY <2>0, <2>3 DEF Crash, TypeOK
    <3> QED BY <3>1, <3>2 DEF PerLife
  <2> QED BY <2>0, <2>1, <2>2, <2>3, OtherTypes, CreditFrame
<1>3. TablesInv /\ PerLife => OneCreditPerLife
  <2> SUFFICES ASSUME TablesInv, PerLife, NEW p \in Procs, NEW e \in Events
               PROVE credits[p][e] <= lives[p]
    BY DEF OneCreditPerLife
  <2>1. credits[p][e] \in Nat /\ lives[p] \in Nat
    BY DEF TablesInv, ReconInv, TypeOK
  <2> QED BY <2>1 DEF PerLife
<1> QED BY <1>1, <1>2, <1>3, TablesInvariant, PTL DEF Spec

\* What was posted stays posted, and whoever takes a credit for posted is right.
PaidInv ==
  /\ \A p \in Procs : \A e \in applied[p] : credits[p][e] > 0
  /\ \A t \in Tasks : stage[t] = "resolved" => \E p \in Procs : credits[p][cur[t].ev] > 0
  /\ ResolvedWasCredited

LEMMA CreditsGrow ==
  ASSUME TypeOK, [Next]_vars
  PROVE  \A p \in Procs, e \in Events : credits[p][e] > 0 => credits'[p][e] > 0
<1>1. ASSUME NEW t \in Tasks, Posted(t)
      PROVE  \A p \in Procs, e \in Events : credits[p][e] > 0 => credits'[p][e] > 0
  <2>1. /\ ProcOf(t) \in Procs /\ cur[t].ev \in Events
        /\ credits' = [credits EXCEPT ![ProcOf(t)][cur[t].ev] = @ + 1]
    BY <1>1, ProcOfTask DEF Posted, TypeOK, Job
  <2> SUFFICES ASSUME NEW p \in Procs, NEW e \in Events, credits[p][e] > 0 PROVE credits'[p][e] > 0
    OBVIOUS
  <2>2. credits[p][e] \in Nat /\ credits'[p][e] \in {credits[p][e], credits[p][e] + 1}
    BY <2>1 DEF TypeOK
  <2> QED BY <2>2
<1>2. ASSUME NEW p \in Procs, Crash(p) PROVE credits' = credits
  BY <1>2 DEF Crash
<1> QED BY <1>1, <1>2, OtherTypes, CreditFrame

\* A missing credit is resolved automatically only when it was posted.
THEOREM ResolvedCreditsWerePosted == Spec => []ResolvedWasCredited
<1>1. Init => PaidInv
  BY DEF Init, PaidInv, ResolvedWasCredited
<1>2. TablesInv /\ TablesInv' /\ PaidInv /\ [Next]_vars => PaidInv'
  <2> SUFFICES ASSUME TablesInv, TablesInv', PaidInv, [Next]_vars PROVE PaidInv'
    OBVIOUS
  <2>0. ReconInv /\ TypeOK /\ TypeOK'
    BY DEF TablesInv, ReconInv
  <2> DEFINE Paid(e) == \E p \in Procs : credits[p][e] > 0
             PaidNext(e) == \E p \in Procs : credits'[p][e] > 0
  <2>1. \A e \in Events : Paid(e) => PaidNext(e)
    BY <2>0, CreditsGrow
  <2>2. \A p \in Procs : \A e \in applied'[p] : credits'[p][e] > 0
    <3>1. CASE UNCHANGED <<credits, applied, lives>>
      BY <3>1 DEF PaidInv
    <3>2. ASSUME NEW t \in Tasks, Posted(t)
          PROVE \A p \in Procs : \A e \in applied'[p] : credits'[p][e] > 0
      <4>1. /\ ProcOf(t) \in Procs /\ cur[t].ev \in Events
        BY <2>0, <3>2, ProcOfTask DEF Posted, TypeOK, Job
      <4>2. /\ credits'[ProcOf(t)][cur[t].ev] = credits[ProcOf(t)][cur[t].ev] + 1
            /\ credits[ProcOf(t)][cur[t].ev] \in Nat
        BY <2>0, <3>2, <4>1 DEF Posted, TypeOK
      <4>3. \A p \in Procs : \A e \in applied'[p] : e \in applied[p] \/ (p = ProcOf(t) /\ e = cur[t].ev)
        BY <2>0, <3>2, <4>1 DEF Posted, TypeOK
      <4>4. \A p \in Procs : applied[p] \subseteq Events
        BY <2>0 DEF TypeOK
      <4>5. \A p \in Procs : \A e \in applied[p] : credits'[p][e] > 0
        BY <2>0, <4>4, CreditsGrow DEF PaidInv
      <4> QED BY <4>2, <4>3, <4>5
    <3>3. ASSUME NEW p \in Procs, Crash(p)
          PROVE \A q \in Procs : \A e \in applied'[q] : credits'[q][e] > 0
      <4>1. credits' = credits /\ \A q \in Procs : applied'[q] \subseteq applied[q]
        BY <2>0, <3>3 DEF Crash, TypeOK
      <4> QED BY <4>1 DEF PaidInv
    <3> QED BY <2>0, <3>1, <3>2, <3>3, OtherTypes, CreditFrame
  <2>3. ASSUME NEW t \in Tasks, stage'[t] = "resolved" PROVE PaidNext(cur'[t].ev)
    <3>1. cur'[t].ev \in Events
      BY <2>0, <2>3 DEF TypeOK, Job
    <3>2. CASE stage[t] = "resolved" /\ cur'[t] = cur[t]
      BY <2>1, <3>1, <3>2 DEF PaidInv
    <3>3. CASE cur'[t].ev \in applied'[ProcOf(t)]
      BY <2>2, <3>3, ProcOfTask
    <3>4. ASSUME NEW u \in Tasks, Busy(u)
          PROVE  (stage[t] = "resolved" /\ cur'[t] = cur[t]) \/ cur'[t].ev \in applied'[ProcOf(t)]
      BY <2>0, <2>3, <3>4, CreditFrame, OneTaskMoves DEF OthersWait
    <3>5. ASSUME NEW p \in Procs, Crash(p) PROVE stage[t] = "resolved" /\ cur'[t] = cur[t]
      BY <2>0, <2>3, <3>5, CrashTypes DEF CrashOf
    <3> HIDE DEF PaidNext
    <3> QED BY <2>0, <2>3, <3>2, <3>3, <3>4, <3>5, OtherTypes
  <2>4. ResolvedWasCredited'
    <3> DEFINE Due(i) == mism'[i].class = "missing_credit" /\ mism'[i].status = "auto_resolved"
    <3> SUFFICES ASSUME NEW i \in DOMAIN mism', Due(i) PROVE PaidNext(mism'[i].ev)
      BY DEF ResolvedWasCredited
    <3>1. \A j \in DOMAIN mism : mism[j].ev \in Events /\ mism[j].class \in MismatchClass
      <4>1. \A j \in DOMAIN mism : mism[j] \in Mismatch
        BY <2>0, ElementOfSeq, LenProperties DEF TypeOK
      <4> QED BY <4>1 DEF Mismatch
    <3>2. CASE i \in DOMAIN mism /\ mism'[i] = mism[i]
      BY <2>1, <3>1, <3>2 DEF PaidInv, ResolvedWasCredited
    <3>3. CASE mism' = mism
      BY <3>2, <3>3
    <3>4. ASSUME NEW j \in DOMAIN mism, Close(j) PROVE PaidNext(mism'[i].ev)
      <4>1. mism' = [mism EXCEPT ![j].status = "closed"]
        BY <3>4 DEF Close
      <4>2. DOMAIN mism' = DOMAIN mism /\ mism'[j].status = "closed"
            /\ \A k \in DOMAIN mism : k # j => mism'[k] = mism[k]
        BY <2>0, <4>1, StatusKeeps
      <4> QED BY <3>2, <4>2
    <3>5. ASSUME NEW t \in Tasks, Persist(t) PROVE PaidNext(mism'[i].ev)
      <4>1. cur[t].class \in MismatchClass
        BY <3>5 DEF TablesInv, VerdictFiled, Persist
      <4>2. /\ DOMAIN mism' = DOMAIN mism \cup {Len(mism) + 1}
            /\ mism'[Len(mism) + 1]
                 = [class |-> cur[t].class, ev |-> cur[t].ev, status |-> "open", attempts |-> 0]
            /\ \A j \in DOMAIN mism : mism'[j] = mism[j]
        BY <2>0, <3>5, <4>1, PersistKeeps
      <4>3. mism'[Len(mism) + 1].status = "open"
        BY <4>2
      <4> HIDE DEF PaidNext
      <4> QED BY <3>2, <4>2, <4>3
    <3>6. ASSUME NEW t \in Tasks, Resolved(t) PROVE PaidNext(mism'[i].ev)
      <4>1. /\ DOMAIN mism' = DOMAIN mism /\ SameRow(cur[t]) /\ stage[t] = "resolved"
            /\ RowsKept /\ \A j \in DOMAIN mism : j # cur[t].id => mism'[j] = mism[j]
        BY <2>0, <3>6, ResolvedKeeps DEF Resolved
      <4>2. CASE i = cur[t].id
        <5>1. mism'[i].ev = cur[t].ev /\ cur[t].ev \in Events
          BY <3>1, <4>1, <4>2 DEF SameRow, RowsKept
        <5> QED BY <2>1, <4>1, <5>1 DEF PaidInv
      <4> QED BY <3>2, <4>1, <4>2
    <3>7. ASSUME NEW t \in Tasks, NEW m \in open[t], Handle(t, m) PROVE PaidNext(mism'[i].ev)
      <4>1. /\ DOMAIN mism' = DOMAIN mism /\ SameRow(m) /\ RowsKept /\ mism'[m.id].status = Target(m)
            /\ \A j \in DOMAIN mism : j # m.id => mism'[j] = mism[j]
        BY <2>0, <3>7, HandleKeeps
      <4>2. CASE i = m.id
        <5>1. m.class = "missing_credit" /\ Target(m) = "auto_resolved"
          BY <4>1, <4>2 DEF SameRow, RowsKept
        <5>2. Target(m) # "auto_resolved"
          BY <5>1 DEF Target
        <5> QED BY <5>1, <5>2
      <4> QED BY <3>2, <4>1, <4>2
    <3>8. ASSUME NEW t \in Tasks, NEW m \in open[t], EscalateLate(t, m) PROVE PaidNext(mism'[i].ev)
      <4>1. DOMAIN mism' = DOMAIN mism /\ \A j \in DOMAIN mism : mism'[j] = mism[j] \/ mism'[j].status = "escalated"
        BY <2>0, <3>8, EscalateKeeps
      <4> QED BY <3>2, <4>1
    <3> HIDE DEF PaidNext
    <3> QED BY <3>3, <3>4, <3>5, <3>6, <3>7, <3>8, RowWriters
  <2> QED BY <2>2, <2>3, <2>4 DEF PaidInv
<1>3. PaidInv => ResolvedWasCredited
  BY DEF PaidInv
<1> QED BY <1>1, <1>2, <1>3, TablesInvariant, PTL DEF Spec

-----------------------------------------------------------------------------
(* Reports.                                                                *)

\* A verdict other than a match is marked when its mismatch is on file.
OnFile(e) == \E i \in DOMAIN mism : mism[i].ev = e

ReportInv ==
  /\ \A t \in Tasks : stage[t] = "mark" /\ cur[t].class # "match" => OnFile(cur[t].ev)
  /\ UnmatchedIsReported

LEMMA ReportFrame ==
  ASSUME TypeOK, NEW t \in Tasks, Busy(t)
  PROVE  /\ stage'[t] = "mark" =>
              \/ stage[t] = "mark" /\ cur'[t] = cur[t]
              \/ cur'[t].class = "match" /\ \E e \in Events : Classify(t, e)
              \/ Persist(t)
         /\ \/ ledger' = ledger
            \/ Mark(t)
            \/ \E e \in Events : ChainMark(t, e)
<1> USE DEF Goto, memory, TypeOK
<1> DEFINE Marked == stage'[t] = "mark" => stage[t] = "mark" /\ cur'[t] = cur[t]
           Fine == Marked /\ ledger' = ledger
<1>1. ASSUME StartPoll(t) \/ StartRun(t) PROVE Fine
  BY <1>1 DEF StartPoll, StartRun, Tasks
<1>2. ASSUME NEW e \in Events, Skip(t, e) \/ ChainFails(t, e) PROVE Fine
  BY <1>2 DEF Skip, ChainFails, task
<1>3. ASSUME NEW e \in Events, ChainMark(t, e) PROVE Marked
  BY <1>3 DEF ChainMark, task
<1>4. ASSUME EngineFails(t) \/ EndEngine(t) \/ EndChain(t) PROVE Fine
  BY <1>4 DEF EngineFails, EndEngine, EndChain
<1>5. ASSUME NEW m \in open[t], Handle(t, m) \/ HandleFails(t, m) \/ EscalateLate(t, m) PROVE Fine
  BY <1>5 DEF Handle, HandleFails, EscalateLate, EndPass
<1>6. ASSUME Posted(t) \/ Awaited(t) \/ Resolved(t) \/ ResolvedFails(t) \/ PostFails(t) PROVE Fine
  BY <1>6 DEF Posted, Awaited, Resolved, ResolvedFails, PostFails, NextMismatch
<1>7. ASSUME ListSla(t) \/ EndResolver(t) PROVE Fine
  BY <1>7 DEF ListSla, EndResolver, EndPass
<1>8. ASSUME NEW m \in open[t], Repair(t, m) PROVE Fine
  BY <1>8 DEF Repair
<1>9. ASSUME Persist(t) PROVE ledger' = ledger
  BY <1>9 DEF Persist
<1>10. ASSUME Mark(t) PROVE stage'[t] # "mark"
  BY <1>10 DEF Mark
<1>11. ASSUME NEW e \in Events, Classify(t, e)
       PROVE  ledger' = ledger /\ (stage'[t] = "mark" => cur'[t].class = "match")
  <2>1. PICK c \in MismatchClass \cup {"match"} : Decide(t, e, c)
    BY <1>11, Verdicts DEF Classify, MismatchClass
  <2>2. ledger' = ledger
    BY <1>11 DEF Classify
  <2> QED BY <2>1, <2>2 DEF Decide, Verdict
<1> HIDE DEF Goto, memory, TypeOK, Fine
<1> DEFINE Writes == Persist(t) \/ Mark(t) \/ \E e \in Events : ChainMark(t, e) \/ Classify(t, e)
<1>12. EngineStep(t) => Fine \/ Writes
  BY <1>2, <1>4 DEF EngineStep
<1>13. ResolverStep(t) => Fine
  BY <1>5, <1>6, <1>7, <1>8 DEF ResolverStep
<1>14. Fails(t) => Fine
  BY <1>2, <1>4, <1>5, <1>6 DEF Fails
<1>15. Fine \/ Writes
  BY <1>1, <1>12, <1>13, <1>14 DEF Busy, Step
<1> QED BY <1>3, <1>9, <1>10, <1>11, <1>15 DEF Fine

\* The steps of nobody's pass leave a status, or begin it as pending.
LEMMA LedgerFrame ==
  ASSUME [Next]_vars
  PROVE  \/ \E t \in Tasks : Busy(t)
         \/ ledger' = ledger
         \/ \E e \in Events : ledger' = [ledger EXCEPT ![e] = "pending"]
BY
   DEF Next, Busy, vars, IngestLedger, WindowPasses, IngestProvider, Close, SessionCloses,
       WindowRolls, Crash

\* The row of a mismatch is inserted before the status is written, and no row
\* goes away.
LEMMA ReportsFiled == Spec => []ReportInv
<1>1. Init => ReportInv
  BY DEF Init, ReportInv, UnmatchedIsReported
<1>2. TablesInv /\ ReportInv /\ [Next]_vars => ReportInv'
  <2> SUFFICES ASSUME TablesInv, ReportInv, [Next]_vars PROVE ReportInv'
    OBVIOUS
  <2>0. TypeOK
    BY DEF TablesInv, ReconInv
  <2> DEFINE FiledNext(e) == \E i \in DOMAIN mism' : mism'[i].ev = e
  <2>1. \A e : OnFile(e) => FiledNext(e)
    BY RowsStay DEF RowsKept, OnFile
  <2>2. ASSUME NEW t \in Tasks, stage'[t] = "mark", cur'[t].class # "match"
        PROVE  FiledNext(cur'[t].ev)
    <3>1. CASE stage[t] = "mark" /\ cur'[t] = cur[t]
      BY <2>1, <2>2, <3>1 DEF ReportInv
    <3>2. CASE Persist(t)
      <4>1. cur[t].class \in MismatchClass /\ cur' = cur
        BY <3>2 DEF TablesInv, VerdictFiled, Persist
      <4>2. /\ DOMAIN mism' = DOMAIN mism \cup {Len(mism) + 1}
            /\ mism'[Len(mism) + 1]
                 = [class |-> cur[t].class, ev |-> cur[t].ev, status |-> "open", attempts |-> 0]
        BY <2>0, <3>2, <4>1, PersistKeeps
      <4> QED BY <4>1, <4>2
    <3>3. ASSUME NEW u \in Tasks, Busy(u)
          PROVE  (stage[t] = "mark" /\ cur'[t] = cur[t]) \/ Persist(t)
      <4>1. CASE u = t
        BY <2>0, <2>2, <3>3, <4>1, ReportFrame
      <4>2. CASE u # t
        BY <2>0, <2>2, <3>3, <4>2, OneTaskMoves DEF OthersWait
      <4> QED BY <4>1, <4>2
    <3>4. ASSUME NEW p \in Procs, Crash(p) PROVE stage[t] = "mark" /\ cur'[t] = cur[t]
      BY <2>0, <2>2, <3>4, CrashTypes DEF CrashOf
    <3> HIDE DEF FiledNext
    <3> QED BY <2>0, <2>2, <3>1, <3>2, <3>3, <3>4, OtherTypes
  <2>3. ASSUME NEW e \in Events, ledger'[e] = "unmatched" PROVE FiledNext(e)
    <3>1. CASE ledger[e] = "unmatched"
      BY <2>1, <3>1 DEF ReportInv, UnmatchedIsReported, OnFile
    <3>2. ASSUME NEW t \in Tasks, Mark(t) PROVE FiledNext(e)
      <4>1. ledger' = [ledger EXCEPT ![cur[t].ev] = MarkAs(cur[t].class)] /\ stage[t] = "mark"
        BY <3>2 DEF Mark
      <4>2. CASE e # cur[t].ev
        BY <2>0, <2>3, <3>1, <4>1, <4>2 DEF TypeOK
      <4>3. CASE e = cur[t].ev
        <5>1. MarkAs(cur[t].class) = "unmatched"
          BY <2>0, <2>3, <4>1, <4>3 DEF TypeOK
        <5>2. cur[t].class # "match"
          BY <5>1 DEF MarkAs
        <5> QED BY <2>1, <4>1, <4>3, <5>2 DEF ReportInv
      <4> QED BY <4>2, <4>3
    <3>3. ASSUME NEW f \in Events, NEW s \in {"matched", "pending"}, ledger' = [ledger EXCEPT ![f] = s]
          PROVE  ledger[e] = "unmatched"
      BY <2>0, <2>3, <3>3 DEF TypeOK
    <3>4. CASE ledger' = ledger
      BY <2>3, <3>1, <3>4
    <3>5. ASSUME NEW t \in Tasks, NEW f \in Events, ChainMark(t, f) PROVE ledger[e] = "unmatched"
      BY <3>3, <3>5 DEF ChainMark
    <3> HIDE DEF FiledNext
    <3> QED BY <2>0, <3>1, <3>2, <3>3, <3>4, <3>5, LedgerFrame, ReportFrame
  <2> QED BY <2>2, <2>3 DEF ReportInv, UnmatchedIsReported, OnFile
<1> QED BY <1>1, <1>2, TablesInvariant, PTL DEF Spec

\* An event is unmatched only when its mismatch is on file.
THEOREM UnmatchedReported == Spec => []UnmatchedIsReported
<1>1. ReportInv => UnmatchedIsReported
  BY DEF ReportInv
<1> QED BY <1>1, ReportsFiled, PTL

-----------------------------------------------------------------------------
(* Leaders.                                                                *)

\* A process in a pass of its worker has the lock.
LeaderInv == Timely => \A p \in Procs : stage[<<p, "poll">>] # "idle" => lock = p

LEMMA LeaderFrame ==
  ASSUME TypeOK, NEW t \in Tasks, Busy(t)
  PROVE  \/ StartPoll(t) \/ EndPass(t)
         \/ lock' = lock /\ (t[2] = "poll" => stage[t] # "idle")
<1> DEFINE Calm == EndPass(t) \/ (lock' = lock /\ (t[2] = "poll" => stage[t] # "idle"))
<1>1. ASSUME StartRun(t) PROVE Calm
  BY <1>1 DEF StartRun
<1>2. ASSUME NEW e \in Events, Skip(t, e) \/ ChainMark(t, e) \/ ChainFails(t, e) \/ Classify(t, e) PROVE Calm
  BY <1>2 DEF Skip, ChainMark, ChainFails, Classify
<1>3. ASSUME Persist(t) \/ Mark(t) \/ EngineFails(t) \/ EndEngine(t) \/ EndChain(t) PROVE Calm
  BY <1>3 DEF Persist, Mark, EngineFails, EndEngine, EndChain
<1>4. ASSUME NEW m \in open[t], Handle(t, m) \/ HandleFails(t, m) \/ EscalateLate(t, m) \/ Repair(t, m) PROVE Calm
  BY <1>4 DEF Handle, HandleFails, EscalateLate, Repair
<1>5. ASSUME Posted(t) \/ Awaited(t) \/ Resolved(t) \/ ResolvedFails(t) \/ PostFails(t) PROVE Calm
  BY <1>5 DEF Posted, Awaited, Resolved, ResolvedFails, PostFails
<1>6. ASSUME ListSla(t) \/ EndResolver(t) PROVE Calm
  BY <1>6 DEF ListSla, EndResolver
<1> HIDE DEF Calm
<1>7. EngineStep(t) => Calm
  BY <1>2, <1>3 DEF EngineStep
<1>8. ResolverStep(t) => Calm
  BY <1>4, <1>5, <1>6 DEF ResolverStep
<1>9. Fails(t) => Calm
  BY <1>2, <1>3, <1>4, <1>5 DEF Fails
<1>10. Calm \/ StartPoll(t)
  BY <1>1, <1>7, <1>8, <1>9 DEF Busy, Step
<1> QED BY <1>10 DEF Calm

\* While sessions outlast the passes of their process, one process reconciles
\* at a time.
THEOREM LeadersExclude == Spec => []OneLeader
<1>1. Init => LeaderInv
  BY ReconciliationAssumption DEF Init, LeaderInv, Tasks
<1>2. TypeOK /\ LeaderInv /\ [Next]_vars => LeaderInv'
  <2> SUFFICES ASSUME TypeOK, LeaderInv, [Next]_vars, Timely,
                      NEW p \in Procs, stage'[<<p, "poll">>] # "idle"
               PROVE  lock' = p
    BY DEF LeaderInv
  <2>0. <<p, "poll">> \in Tasks /\ NoProc # p
    BY ReconciliationAssumption DEF Tasks
  <2>1. CASE stage[<<p, "poll">>] # "idle" /\ lock' = lock
    BY <2>1 DEF LeaderInv
  <2>2. ASSUME NEW t \in Tasks, Busy(t) PROVE lock' = p
    <3>1. CASE t = <<p, "poll">>
      <4>1. CASE StartPoll(t)
        BY <3>1, <4>1 DEF StartPoll
      <4>2. ~EndPass(t)
        BY <2>0, <3>1 DEF EndPass, Goto, TypeOK
      <4> QED BY <2>1, <2>2, <3>1, <4>1, <4>2, LeaderFrame
    <3>2. CASE t # <<p, "poll">>
      <4>1. stage[<<p, "poll">>] # "idle" /\ lock = p
        BY <2>0, <2>2, <3>2, OneTaskMoves DEF OthersWait, LeaderInv
      <4>2. t[2] = "poll" => t[1] # p
        BY <3>2 DEF Tasks
      <4>3. ~StartPoll(t)
        BY <2>0, <4>1, <4>2 DEF StartPoll, Lockable
      <4>4. EndPass(t) => lock' = lock
        BY <4>1, <4>2 DEF EndPass
      <4> QED BY <2>2, <4>1, <4>3, <4>4, LeaderFrame
    <3> QED BY <3>1, <3>2
  <2>3. ASSUME NEW q \in Procs, Crash(q) PROVE lock' = p
    <3>1. stage[<<p, "poll">>] # "idle" /\ q # p
      BY <2>0, <2>3 DEF Crash, ProcOf, TypeOK
    <3> QED BY <2>3, <3>1 DEF Crash, LeaderInv
  <2>4. CASE SessionCloses
    BY <2>0, <2>4 DEF SessionCloses, LeaderInv, task
  <2>5. CASE UNCHANGED <<stage, lock>>
    BY <2>5 DEF LeaderInv
  <2>6. \/ UNCHANGED <<stage, lock>> \/ SessionCloses
        \/ \E t \in Tasks : Busy(t)
        \/ \E q \in Procs : Crash(q)
    BY DEF Next, Busy, vars, task, IngestLedger, WindowPasses, IngestProvider, Close, WindowRolls
  <2> QED BY <2>2, <2>3, <2>4, <2>5, <2>6
<1>3. LeaderInv => OneLeader
  BY DEF LeaderInv, OneLeader
<1>4. TablesInv => TypeOK
  BY DEF TablesInv, ReconInv
<1> QED BY <1>1, <1>2, <1>3, <1>4, TablesInvariant, PTL DEF Spec

-----------------------------------------------------------------------------
(* What is matched away, and never reported.                               *)

\* A verdict of match that is still to be written.
Promised(t, e) == stage[t] = "mark" /\ cur[t].class = "match" /\ cur[t].ev = e

\* The events that are matched, or will be, although every notice of them
\* differs and no mismatch is on file.
Concealed ==
  {e \in Events \ OnChain :
     /\ ledger[e] = "matched" \/ \E t \in Tasks : Promised(t, e)
     /\ \A n \in notices[e] : n.diff > 0
     /\ ~OnFile(e)}

\* What the windows that were begun still absorb, unit by unit.
Room == {q \in Procs \X (1 .. Cap) : absorbed[q[1]] > 0 /\ absorbed[q[1]] < q[2]}

ChainListed == \A t \in Tasks : stage[t] = "chain" => work[t] \subseteq OnChain

\* A window pays for each event with at least one of its units.
LeakInv ==
  /\ ChainListed
  /\ IsFiniteSet(Concealed) /\ IsFiniteSet(Room)
  /\ Cardinality(Concealed) + Cardinality(Room) <= Cap * windows

\* A difference that the window absorbs.
Absorbs(t, e) ==
  Classify(t, e) /\ Class(notices[e]) = "match" /\ Drift(e) > 0 /\ Fits(ProcOf(t), Drift(e))

LEMMA LeakFrame ==
  ASSUME TypeOK, NEW t \in Tasks, Busy(t)
  PROVE  /\ notices' = notices
         /\ UNCHANGED <<absorbed, windows>> \/ \E e \in Events : Classify(t, e)
         /\ stage'[t] = "chain" =>
              (stage[t] = "chain" /\ work'[t] \subseteq work[t]) \/ work'[t] \subseteq OnChain
<1> USE DEF Goto, memory, input, task, TypeOK
<1> DEFINE Listed2 == stage'[t] = "chain" =>
                        (stage[t] = "chain" /\ work'[t] \subseteq work[t]) \/ work'[t] \subseteq OnChain
           Fine == notices' = notices /\ UNCHANGED <<absorbed, windows>> /\ Listed2
<1>1. ASSUME StartPoll(t) \/ StartRun(t) PROVE Fine
  BY <1>1 DEF StartPoll, StartRun, Tasks
<1>2. ASSUME NEW e \in Events, Skip(t, e) \/ ChainMark(t, e) \/ ChainFails(t, e) PROVE Fine
  BY <1>2 DEF Skip, ChainMark, ChainFails, Take
<1>3. ASSUME NEW e \in Events, Classify(t, e) PROVE notices' = notices /\ Listed2
  <2>1. PICK c \in MismatchClass \cup {"match"} : Decide(t, e, c)
    BY <1>3, Verdicts DEF Classify, MismatchClass
  <2>2. notices' = notices
    BY <1>3 DEF Classify
  <2> QED BY <2>1, <2>2 DEF Decide
<1>4. ASSUME Persist(t) \/ Mark(t) \/ EngineFails(t) PROVE Fine
  BY <1>4 DEF Persist, Mark, EngineFails
<1>5. ASSUME EndEngine(t) \/ EndChain(t) PROVE Fine
  BY <1>5 DEF EndEngine, EndChain
<1>6. ASSUME NEW m \in open[t], Handle(t, m) \/ HandleFails(t, m) \/ EscalateLate(t, m) PROVE Fine
  BY <1>6 DEF Handle, HandleFails, EscalateLate, EndPass
<1>7. ASSUME Posted(t) \/ Awaited(t) \/ Resolved(t) \/ ResolvedFails(t) \/ PostFails(t) PROVE Fine
  BY <1>7 DEF Posted, Awaited, Resolved, ResolvedFails, PostFails, NextMismatch
<1>8. ASSUME ListSla(t) \/ EndResolver(t) PROVE Fine
  BY <1>8 DEF ListSla, EndResolver, EndPass
<1>9. ASSUME NEW m \in open[t], Repair(t, m) PROVE Fine
  BY <1>9 DEF Repair
<1> HIDE DEF Goto, memory, input, task, TypeOK, Fine
<1>10. EngineStep(t) => Fine \/ \E e \in Events : Classify(t, e)
  BY <1>2, <1>4, <1>5 DEF EngineStep
<1>11. ResolverStep(t) => Fine
  BY <1>6, <1>7, <1>8, <1>9 DEF ResolverStep
<1>12. Fails(t) => Fine
  BY <1>2, <1>4, <1>6, <1>7 DEF Fails
<1>13. Fine \/ \E e \in Events : Classify(t, e)
  BY <1>1, <1>10, <1>11, <1>12 DEF Busy, Step
<1> QED BY <1>3, <1>13 DEF Fine

\* The other steps only add notices, and empty windows.
LEMMA LeakOthers ==
  ASSUME TypeOK, [Next]_vars
  PROVE  \/ \E t \in Tasks : Busy(t)
         \/ \E p \in Procs : Crash(p)
         \/ /\ UNCHANGED <<stage, work, cur, windows>>
            /\ \A e \in Events : notices[e] \subseteq notices'[e]
            /\ absorbed' = absorbed \/ \E p \in Procs : WindowRolls(p)
<1> DEFINE Quiet == /\ UNCHANGED <<stage, work, cur, windows>>
                    /\ \A e \in Events : notices[e] \subseteq notices'[e]
                    /\ absorbed' = absorbed \/ \E p \in Procs : WindowRolls(p)
<1> USE DEF memory, input, task
<1>1. ASSUME NEW e \in Events, IngestLedger(e) \/ WindowPasses(e) PROVE Quiet
  BY <1>1 DEF IngestLedger, WindowPasses
<1>2. ASSUME NEW e \in Events, NEW n \in Notices[e], IngestProvider(e, n) PROVE Quiet
  BY <1>2 DEF IngestProvider, TypeOK
<1>3. ASSUME NEW i \in DOMAIN mism, Close(i) PROVE Quiet
  BY <1>3 DEF Close
<1>4. ASSUME NEW p \in Procs, WindowRolls(p) PROVE Quiet
  BY <1>4 DEF WindowRolls
<1>5. ASSUME SessionCloses \/ UNCHANGED vars PROVE Quiet
  BY <1>5 DEF SessionCloses, vars
<1> HIDE DEF memory, input, task, Quiet
<1>6. Quiet \/ (\E t \in Tasks : Busy(t)) \/ \E p \in Procs : Crash(p)
  BY <1>1, <1>2, <1>3, <1>4, <1>5 DEF Next, Busy
<1> QED BY <1>6 DEF Quiet

LEMMA ChainKept ==
  ASSUME TypeOK, ChainListed, [Next]_vars
  PROVE  ChainListed'
<1> SUFFICES ASSUME NEW t \in Tasks, stage'[t] = "chain" PROVE work'[t] \subseteq OnChain
  BY DEF ChainListed
<1>1. CASE stage[t] = "chain" /\ work'[t] \subseteq work[t]
  BY <1>1 DEF ChainListed
<1>2. ASSUME NEW u \in Tasks, Busy(u) PROVE work'[t] \subseteq OnChain
  <2>1. CASE u = t
    BY <1>1, <1>2, <2>1, LeakFrame
  <2>2. CASE u # t
    BY <1>1, <1>2, <2>2, OneTaskMoves DEF OthersWait
  <2> QED BY <2>1, <2>2
<1>3. ASSUME NEW p \in Procs, Crash(p) PROVE work'[t] \subseteq OnChain
  <2>1. stage[t] = "chain" /\ work'[t] = work[t]
    BY <1>3 DEF Crash
  <2> QED BY <1>1, <2>1
<1>4. CASE UNCHANGED <<stage, work>>
  BY <1>1, <1>4
<1> QED BY <1>2, <1>3, <1>4, LeakOthers

\* An event is classified a match when the window absorbs its difference, or
\* when its settlement has none.
LEMMA MatchedHow ==
  ASSUME TypeOK, NEW t \in Tasks, NEW e \in Events, Classify(t, e), cur'[t].class = "match"
  PROVE  cur'[t].ev = e /\ (Absorbs(t, e) \/ \E n \in notices[e] : n.diff = 0)
<1>1. PICK c \in MismatchClass \cup {"match"} : Decide(t, e, c)
  BY Verdicts DEF Classify, MismatchClass
<1>2. cur'[t].ev = e /\ cur'[t].class = c
  BY <1>1 DEF Decide, Verdict, TypeOK
<1>3. CASE Absorbs(t, e)
  BY <1>2, <1>3
<1>4. CASE ~Absorbs(t, e)
  <2> DEFINE d == IF Class(notices[e]) = "match" /\ Drift(e) > 0 THEN "amount_mismatch"
                  ELSE Class(notices[e])
  <2>1. Decide(t, e, d)
    BY <1>4 DEF Absorbs, Classify
  <2>2. d = "match"
    BY <2>1 DEF Decide, Verdict, TypeOK
  <2>3. Class(notices[e]) = "match" /\ ~(Drift(e) > 0) /\ Drift(e) \in Nat
    BY <2>2, Verdicts
  <2>4. notices[e] # {}
    BY <2>3 DEF Class
  <2>5. Settlement(notices[e]) \in notices[e]
    BY <2>4, ReconciliationAssumption DEF Settlement, TypeOK
  <2> QED BY <1>2, <2>3, <2>5 DEF Drift
<1> QED BY <1>3, <1>4

\* Nothing is concealed anew but what a window absorbs.
LEMMA ConcealedFrom ==
  ASSUME TablesInv, ReportInv, ChainListed, [Next]_vars, NEW e \in Concealed'
  PROVE  e \in Concealed \/ \E t \in Tasks : Absorbs(t, e)
<1>0. TypeOK
  BY DEF TablesInv, ReconInv
<1>1. /\ e \in Events \ OnChain
      /\ ledger'[e] = "matched" \/ \E t \in Tasks : Promised(t, e)'
      /\ \A n \in notices'[e] : n.diff > 0
  BY DEF Concealed
<1>2. notices[e] \subseteq notices'[e]
  <2>1. \A p \in Procs : Crash(p) => notices' = notices
    BY DEF Crash, input
  <2> QED BY <1>0, <1>1, <2>1, LeakFrame, LeakOthers
<1>3. ~OnFile(e)
  <2>1. ~\E i \in DOMAIN mism' : mism'[i].ev = e
    BY DEF Concealed, OnFile
  <2> QED BY <2>1, RowsStay DEF RowsKept, OnFile
<1>4. CASE ledger[e] = "matched" \/ \E t \in Tasks : Promised(t, e)
  BY <1>1, <1>2, <1>3, <1>4 DEF Concealed
<1>5. ASSUME ledger'[e] = "matched" PROVE ledger[e] = "matched" \/ \E t \in Tasks : Promised(t, e)
  <2>1. CASE ledger' = ledger
    BY <1>5, <2>1
  <2>2. ASSUME NEW f \in Events, ledger' = [ledger EXCEPT ![f] = "pending"]
        PROVE ledger[e] = "matched"
    BY <1>0, <1>1, <1>5, <2>2 DEF TypeOK
  <2>3. ASSUME NEW t \in Tasks, Mark(t), ledger[e] # "matched" PROVE Promised(t, e)
    <3>1. cur[t].ev = e /\ stage[t] = "mark"
      BY <1>0, <1>1, <1>5, <2>3 DEF Mark, TypeOK
    <3> QED BY <1>3, <3>1 DEF ReportInv, Promised
  <2>4. ASSUME NEW t \in Tasks, NEW f \in Events, ChainMark(t, f) PROVE ledger[e] = "matched"
    <3>1. f \in OnChain
      BY <2>4 DEF ChainMark, ChainListed
    <3> QED BY <1>0, <1>1, <1>5, <2>4, <3>1 DEF ChainMark, TypeOK
  <2> QED BY <1>0, <2>1, <2>2, <2>3, <2>4, LedgerFrame, ReportFrame
<1>6. ASSUME NEW t \in Tasks, Promised(t, e)'
      PROVE  Promised(t, e) \/ Absorbs(t, e)
  <2>0. stage'[t] = "mark" /\ cur'[t].class = "match" /\ cur'[t].ev = e
    BY <1>6 DEF Promised
  <2>1. CASE stage[t] = "mark" /\ cur'[t] = cur[t]
    BY <2>0, <2>1 DEF Promised
  <2>2. ~Persist(t)
    <3>1. Persist(t) => cur[t].class \in MismatchClass /\ cur' = cur
      BY DEF TablesInv, VerdictFiled, Persist
    <3> QED BY <2>0, <3>1 DEF MismatchClass
  <2>3. ASSUME NEW f \in Events, Classify(t, f) PROVE Absorbs(t, e)
    <3>1. f = e /\ (Absorbs(t, f) \/ \E n \in notices[f] : n.diff = 0)
      BY <1>0, <2>0, <2>3, MatchedHow
    <3>2. \A n \in notices[e] : n.diff # 0
      BY <1>1, <1>2
    <3> QED BY <3>1, <3>2
  <2>4. ASSUME NEW u \in Tasks, Busy(u) PROVE Promised(t, e) \/ Absorbs(t, e)
    <3>1. CASE u = t
      BY <1>0, <2>0, <2>1, <2>2, <2>3, <2>4, <3>1, ReportFrame
    <3>2. CASE u # t
      BY <1>0, <2>0, <2>1, <2>4, <3>2, OneTaskMoves DEF OthersWait
    <3> QED BY <3>1, <3>2
  <2>5. ASSUME NEW p \in Procs, Crash(p) PROVE Promised(t, e)
    <3>1. CrashOf(p)
      BY <1>0, <2>5, CrashTypes
    <3>2. stage[t] = "mark" /\ cur'[t] = cur[t]
      BY <2>0, <3>1 DEF CrashOf
    <3> QED BY <2>0, <3>2 DEF Promised
  <2>6. CASE UNCHANGED <<stage, cur>>
    BY <2>0, <2>1, <2>6
  <2> QED BY <1>0, <2>4, <2>5, <2>6, LeakOthers
<1> QED BY <1>1, <1>4, <1>5, <1>6

\* One event at a time.
LEMMA AbsorbsOne ==
  ASSUME TypeOK, NEW t \in Tasks, NEW u \in Tasks, NEW e \in Events, NEW f \in Events,
         Absorbs(t, e), Absorbs(u, f)
  PROVE  f = e
<1>1. e \in work[t] /\ f \in work[u]
  BY DEF Absorbs, Classify
<1>2. work' = [work EXCEPT ![t] = @ \ {e}] /\ work' = [work EXCEPT ![u] = @ \ {f}]
  BY DEF Absorbs, Classify, Decide, Take
<1> QED BY <1>1, <1>2 DEF TypeOK

\* Otherwise a window stays as it is, or is emptied.
LEMMA WindowsElse ==
  ASSUME TypeOK, [Next]_vars
  PROVE  \/ \E t \in Tasks, e \in Events : Absorbs(t, e)
         \/ windows' = windows /\ \A p \in Procs : absorbed'[p] \in {absorbed[p], 0}
<1>1. ASSUME NEW t \in Tasks, NEW e \in Events, Classify(t, e)
      PROVE  Absorbs(t, e) \/ UNCHANGED <<absorbed, windows>>
  BY <1>1 DEF Absorbs, Classify
<1>2. ASSUME NEW p \in Procs, Crash(p) \/ WindowRolls(p)
      PROVE  windows' = windows /\ \A q \in Procs : absorbed'[q] \in {absorbed[q], 0}
  BY <1>2 DEF Crash, WindowRolls, TypeOK
<1>3. CASE UNCHANGED <<absorbed, windows>>
  BY <1>3
<1> QED BY <1>1, <1>2, <1>3, LeakFrame, LeakOthers

\* The units of one window above a sum, up to another.
LEMMA Strip ==
  ASSUME NEW p, NEW a \in Nat, NEW b \in Nat, a <= b
  PROVE  /\ IsFiniteSet({p} \X ((a + 1) .. b))
         /\ Cardinality({p} \X ((a + 1) .. b)) = b - a
<1> DEFINE I == (a + 1) .. b
<1>1. IsFiniteSet(I) /\ Cardinality(I) = b - a
  <2>1. a + 1 \in Int /\ b \in Int
    OBVIOUS
  <2>2. IsFiniteSet(I) /\ Cardinality(I) = IF a + 1 > b THEN 0 ELSE b - (a + 1) + 1
    BY <2>1, FS_Interval, Zenon
  <2> HIDE DEF I
  <2> QED BY <2>2
<1>2. IsFiniteSet({p}) /\ Cardinality({p}) = 1
  BY FS_Singleton
<1> HIDE DEF I
<1>3. IsFiniteSet({p} \X I) /\ Cardinality({p} \X I) = 1 * Cardinality(I)
  BY <1>1, <1>2, FS_Product
<1> QED BY <1>1, <1>3 DEF I

\* Sets that only lose members stay within the bound.
LEMMA LeakShrinks ==
  ASSUME LeakInv, TypeOK, ChainListed', Concealed' \subseteq Concealed, Room' \subseteq Room,
         windows' = windows
  PROVE  LeakInv'
<1> DEFINE C == Cardinality(Concealed)
           D == Cardinality(Concealed')
           R == Cardinality(Room)
           S == Cardinality(Room')
           Limit == Cap * windows
<1>1. IsFiniteSet(Concealed') /\ D <= C /\ D \in Nat /\ C \in Nat
  BY FS_Subset, FS_CardinalityType DEF LeakInv
<1>2. IsFiniteSet(Room') /\ S <= R /\ S \in Nat /\ R \in Nat
  BY FS_Subset, FS_CardinalityType DEF LeakInv
<1>3. C + R <= Limit /\ Limit \in Nat
  BY ReconciliationAssumption DEF LeakInv, TypeOK
<1> HIDE DEF C, D, R, S, Limit
<1>4. D + S <= Limit
  BY <1>1, <1>2, <1>3
<1> QED BY <1>1, <1>2, <1>4 DEF LeakInv, D, S, Limit

\* What a difference takes of the room of its process: the units it uses, out
\* of those of a window that it may begin.
LEMMA RoomAbsorbed ==
  ASSUME TypeOK, LeakInv, NEW t \in Tasks, NEW e \in Events, Absorbs(t, e)
  PROVE  /\ IsFiniteSet(Room')
         /\ Cardinality(Room') + 1 + Cap * windows <= Cardinality(Room) + Cap * windows'
<1> DEFINE p == ProcOf(t)
           d == Drift(e)
           a == absorbed[p]
<1>1. /\ p \in Procs /\ a \in Nat /\ d \in Nat /\ d >= 1 /\ a + d <= Cap /\ Cap \in Nat
      /\ windows \in Nat
  BY ProcOfTask, Verdicts, ReconciliationAssumption DEF Absorbs, Fits, TypeOK
<1>2. /\ absorbed' = [absorbed EXCEPT ![p] = a + d]
      /\ windows' = IF a = 0 THEN windows + 1 ELSE windows
  BY DEF Absorbs, Classify
<1>3. absorbed[p] = a /\ absorbed'[p] = a + d /\ \A q \in Procs \ {p} : absorbed'[q] = absorbed[q]
  BY <1>1, <1>2 DEF TypeOK
<1> HIDE DEF p, d, a
<1>4. IsFiniteSet(Room) /\ Cardinality(Room) \in Nat
  BY FS_CardinalityType DEF LeakInv
<1>5. CASE a = 0
  <2> DEFINE New == {p} \X ((d + 1) .. Cap)
  <2>1. IsFiniteSet(New) /\ Cardinality(New) = Cap - d
    <3>1. d <= Cap
      BY <1>1
    <3> QED BY <1>1, <3>1, Strip
  <2>2. Room' \subseteq Room \cup New
    <3> SUFFICES ASSUME NEW q \in Room' PROVE q \in Room \cup New
      OBVIOUS
    <3>1. q \in Procs \X (1 .. Cap) /\ absorbed'[q[1]] > 0 /\ absorbed'[q[1]] < q[2]
      BY DEF Room
    <3>2. CASE q[1] = p
      BY <1>1, <1>3, <1>5, <3>1, <3>2
    <3>3. CASE q[1] # p
      BY <1>3, <3>1, <3>3 DEF Room
    <3> QED BY <3>2, <3>3
  <2> DEFINE U == Room \cup New
  <2>3. IsFiniteSet(Room \cap New)
    BY <1>4, FS_Subset
  <2>4. Cardinality(Room \cap New) \in Nat
    BY <2>3, FS_CardinalityType
  <2> HIDE DEF New
  <2>5. IsFiniteSet(U) /\ Cardinality(U) = Cardinality(Room) + Cardinality(New) - Cardinality(Room \cap New)
    BY <1>4, <2>1, FS_Union
  <2>6. Room' \subseteq U
    BY <2>2
  <2> HIDE DEF U
  <2>7. IsFiniteSet(Room') /\ Cardinality(Room') <= Cardinality(U)
    BY <2>5, <2>6, FS_Subset
  <2>8. Cardinality(Room') \in Nat /\ Cardinality(U) \in Nat
    BY <2>5, <2>7, FS_CardinalityType
  <2>9. Cardinality(Room') <= Cardinality(Room) + (Cap - d)
    BY <1>1, <1>4, <2>1, <2>4, <2>5, <2>7, <2>8
  <2>10. Cap * windows' = Cap * windows + Cap /\ Cap * windows \in Nat
    BY <1>1, <1>2, <1>5
  <2> QED BY <1>1, <1>4, <2>7, <2>8, <2>9, <2>10
<1>6. CASE a # 0
  <2> DEFINE Used == {p} \X ((a + 1) .. (a + d))
             Rest == Room \ Used
  <2>1. IsFiniteSet(Used) /\ Cardinality(Used) = d
    <3>1. a + d \in Nat /\ a <= a + d /\ (a + d) - a = d
      BY <1>1
    <3> QED BY <1>1, <3>1, Strip
  <2>2. Used \subseteq Room
    <3> SUFFICES ASSUME NEW q \in Used PROVE q \in Room
      OBVIOUS
    <3>1. q[1] = p /\ q[2] \in (a + 1) .. (a + d) /\ q = <<q[1], q[2]>>
      OBVIOUS
    <3>2. q[2] \in 1 .. Cap /\ a < q[2] /\ a > 0
      BY <1>1, <1>6, <3>1
    <3> QED BY <1>1, <1>3, <3>1, <3>2 DEF Room
  <2>3. Room' \subseteq Rest
    <3> SUFFICES ASSUME NEW q \in Room' PROVE q \in Rest
      OBVIOUS
    <3>1. q \in Procs \X (1 .. Cap) /\ absorbed'[q[1]] > 0 /\ absorbed'[q[1]] < q[2]
      BY DEF Room
    <3>2. CASE q[1] = p
      <4>1. q[2] \in Nat /\ a + d < q[2]
        BY <1>3, <3>1, <3>2
      <4>2. absorbed[q[1]] > 0 /\ absorbed[q[1]] < q[2] /\ q[2] \notin (a + 1) .. (a + d)
        BY <1>1, <1>3, <1>6, <3>2, <4>1
      <4> QED BY <3>1, <4>2 DEF Room
    <3>3. CASE q[1] # p
      BY <1>3, <3>1, <3>3 DEF Room
    <3> QED BY <3>2, <3>3
  <2>4. Room \cap Used = Used
    BY <2>2
  <2> HIDE DEF Used
  <2>5. IsFiniteSet(Rest) /\ Cardinality(Rest) = Cardinality(Room) - Cardinality(Room \cap Used)
    BY <1>4, FS_Difference
  <2> HIDE DEF Rest
  <2>6. IsFiniteSet(Room') /\ Cardinality(Room') <= Cardinality(Rest)
    BY <2>3, <2>5, FS_Subset
  <2>7. Cardinality(Room') \in Nat /\ Cardinality(Rest) \in Nat
    BY <2>5, <2>6, FS_CardinalityType
  <2>8. Cap * windows' = Cap * windows /\ Cap * windows \in Nat
    BY <1>1, <1>2, <1>6
  <2>9. Cardinality(Room') <= Cardinality(Room) - d
    BY <2>1, <2>4, <2>5, <2>6, <2>7
  <2> QED BY <1>1, <1>4, <2>6, <2>7, <2>8, <2>9
<1> QED BY <1>5, <1>6

\* An event that is matched away is paid for by a unit of its window.
LEMMA LeakAbsorbed ==
  ASSUME TablesInv, ReportInv, LeakInv, [Next]_vars, ChainListed',
         NEW t \in Tasks, NEW e \in Events, Absorbs(t, e)
  PROVE  LeakInv'
<1> DEFINE C == Cardinality(Concealed)
           D == Cardinality(Concealed')
           R == Cardinality(Room)
           S == Cardinality(Room')
           Before == Cap * windows
           After  == Cap * windows'
           More   == Concealed \cup {e}
<1>0. TypeOK /\ ChainListed
  BY DEF TablesInv, ReconInv, LeakInv
<1>1. Concealed' \subseteq More
  <2> SUFFICES ASSUME NEW f \in Concealed', f \notin Concealed PROVE f = e
    OBVIOUS
  <2>1. f \in Events
    BY DEF Concealed
  <2>2. PICK u \in Tasks : Absorbs(u, f)
    BY <1>0, ConcealedFrom
  <2> QED BY <1>0, <2>1, <2>2, AbsorbsOne
<1>2. IsFiniteSet(Concealed) /\ C \in Nat
  BY FS_CardinalityType DEF LeakInv
<1>3. IsFiniteSet(More) /\ Cardinality(More) \in Nat /\ Cardinality(More) <= C + 1
  <2>1. IsFiniteSet(More) /\ Cardinality(More) = IF e \in Concealed THEN C ELSE C + 1
    BY <1>2, FS_AddElement
  <2> QED BY <1>2, <2>1
<1> HIDE DEF More
<1>4. IsFiniteSet(Concealed') /\ D <= Cardinality(More) /\ D \in Nat
  BY <1>1, <1>3, FS_Subset, FS_CardinalityType
<1>5. IsFiniteSet(Room') /\ S + 1 + Before <= R + After
  BY <1>0, RoomAbsorbed
<1>6. S \in Nat /\ R \in Nat
  BY <1>5, FS_CardinalityType DEF LeakInv
<1>7. C + R <= Before
  BY DEF LeakInv
<1>8. Before \in Nat /\ After \in Nat
  BY <1>0, ReconciliationAssumption DEF TypeOK, Absorbs, Classify
<1> HIDE DEF C, D, R, S, Before, After
<1>9. D + S <= After
  BY <1>2, <1>3, <1>4, <1>5, <1>6, <1>7, <1>8
<1> QED BY <1>4, <1>5, <1>9 DEF LeakInv, D, S, After

LEMMA LeakStep == TablesInv /\ ReportInv /\ LeakInv /\ [Next]_vars => LeakInv'
<1> SUFFICES ASSUME TablesInv, ReportInv, LeakInv, [Next]_vars PROVE LeakInv'
  OBVIOUS
<1>0. TypeOK /\ ChainListed
  BY DEF TablesInv, ReconInv, LeakInv
<1>1. ChainListed'
  BY <1>0, ChainKept
<1>2. CASE \E t \in Tasks, e \in Events : Absorbs(t, e)
  BY <1>1, <1>2, LeakAbsorbed
<1>3. CASE ~\E t \in Tasks, e \in Events : Absorbs(t, e)
  <2>1. Concealed' \subseteq Concealed
    <3>1. \A e \in Concealed' : e \in Events
      BY DEF Concealed
    <3> QED BY <1>0, <1>3, <3>1, ConcealedFrom
  <2>2. windows' = windows /\ \A p \in Procs : absorbed'[p] \in {absorbed[p], 0}
    BY <1>0, <1>3, WindowsElse
  <2>3. Room' \subseteq Room
    BY <2>2 DEF Room
  <2> QED BY <1>0, <1>1, <2>1, <2>2, <2>3, LeakShrinks
<1> QED BY <1>2, <1>3

LEMMA InitLeak == Init => LeakInv
<1> SUFFICES ASSUME Init PROVE LeakInv
  OBVIOUS
<1>1. ChainListed /\ Concealed = {} /\ Room = {}
  BY DEF Init, ChainListed, Concealed, Promised, Room
<1>2. Cap * windows = 0
  BY ReconciliationAssumption DEF Init
<1> QED BY <1>1, <1>2, FS_EmptySet DEF LeakInv

\* The events that were matched although all their notices differ, without a
\* report, are no more than the windows that were begun may absorb: a window
\* counts each difference against the cap before the event is marked.
THEOREM LeakIsCapped == Spec => []LeakBounded
<1>1. TablesInv /\ LeakInv => LeakBounded
  <2> SUFFICES ASSUME TablesInv, LeakInv PROVE LeakBounded
    OBVIOUS
  <2> DEFINE hidden == {e \in Events \ OnChain :
                          /\ ledger[e] = "matched" /\ notices[e] # {}
                          /\ \A n \in notices[e] : n.diff > 0
                          /\ ~\E i \in DOMAIN mism : mism[i].ev = e}
             H == Cardinality(hidden)
             C == Cardinality(Concealed)
             R == Cardinality(Room)
             Limit == Cap * windows
  <2>1. hidden \subseteq Concealed
    BY DEF Concealed, OnFile
  <2>2. H <= C /\ H \in Nat /\ C \in Nat /\ R \in Nat
    BY <2>1, FS_Subset, FS_CardinalityType DEF LeakInv
  <2>3. C + R <= Limit /\ Limit \in Nat
    BY ReconciliationAssumption DEF LeakInv, TablesInv, ReconInv, TypeOK
  <2>4. H <= Limit => LeakBounded
    BY DEF LeakBounded
  <2> HIDE DEF H, C, R, Limit
  <2> QED BY <2>2, <2>3, <2>4
<1> QED BY <1>1, InitLeak, LeakStep, TablesInvariant, ReportsFiled, PTL DEF Spec

=============================================================================
