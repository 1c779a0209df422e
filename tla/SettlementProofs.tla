-------------------------- MODULE SettlementProofs --------------------------
(***************************************************************************)
(* The settlement outbox keeps the events of a paid instalment, excludes   *)
(* two ticks from one event until an admin replays it, leaves a done event *)
(* done, bounds how often one is executed, and does not find a row again   *)
(* that a dead process had claimed: for any numbers of instalments, ticks, *)
(* crashes and replays.                                                    *)
(***************************************************************************)
EXTENDS SettlementProps, FiniteSetTheorems, TLAPS

\* A tick that holds an event with no replay keeps its row 'processing'.
HeldIsProcessing ==
  \A t \in Ticks, k \in Keys :
    Holds(t, k) /\ replays[k] = 0 => row[k].status = "processing"

\* The inductive invariant of the two theorems on claims.
ExclusionInv == TypeOK /\ HeldIsProcessing /\ ClaimExclusive

LEMMA RowTypes ==
  /\ NoRow \in Row
  /\ \A id \in Nat : Fresh(id) \in Row
BY DEF NoRow, Fresh, Row

\* The statement of a tick leaves a row or replaces it.
LEMMA WriteTypes ==
  ASSUME TypeOK, NEW t \in Ticks, pc[t] # "idle", NEW r \in Row, WriteMine(t, r)
  PROVE  /\ row' \in [Keys -> Row]
         /\ cur[t].key \in Keys
         /\ \A k \in Keys : k # cur[t].key => row'[k] = row[k]
         /\ row'[cur[t].key] \in {row[cur[t].key], r}
<1>1. cur[t] \in Claimed
  BY DEF TypeOK
<1>2. cur[t].key \in Keys
  BY <1>1 DEF Claimed
<1>3. CASE Mine(t)
  <2>1. row' = [row EXCEPT ![cur[t].key] = r]
    BY <1>3 DEF WriteMine
  <2> QED BY <2>1, <1>2 DEF TypeOK
<1>4. CASE ~Mine(t)
  <2>1. row' = row
    BY <1>4 DEF WriteMine
  <2> QED BY <2>1, <1>2 DEF TypeOK
<1> QED BY <1>3, <1>4

\* The rows that the statements of a tick write.
LEMMA WrittenTypes ==
  ASSUME TypeOK, NEW t \in Ticks, pc[t] # "idle"
  PROVE  /\ [row[cur[t].key] EXCEPT !.status = "done"] \in Row
         /\ [row[cur[t].key] EXCEPT !.status = "pending",
               !.attempts = cur[t].attempts + 1, !.due = FALSE] \in Row
<1>1. cur[t] \in Claimed
  BY DEF TypeOK
<1>2. cur[t].key \in Keys /\ cur[t].attempts + 1 \in Nat
  BY <1>1 DEF Claimed
<1>3. row[cur[t].key] \in Row
  BY <1>2 DEF TypeOK
<1> QED BY <1>2, <1>3 DEF Row

\* Where the tick stops, or its process dies.
LEMMA StopTypes ==
  ASSUME TypeOK
  PROVE  /\ \A t \in Ticks : Stop(t) =>
              /\ pc' \in [Ticks -> PC] /\ cur' \in [Ticks -> Claimed \cup {NoClaim}]
              /\ \A s \in Ticks : pc'[s] # "idle" =>
                   s # t /\ pc[s] = pc'[s] /\ cur'[s] = cur[s] /\ cur'[s] \in Claimed
         /\ \A D \in SUBSET Busy : Die(D) =>
              /\ pc' \in [Ticks -> PC] /\ cur' \in [Ticks -> Claimed \cup {NoClaim}]
              /\ \A s \in Ticks : pc'[s] # "idle" =>
                   pc[s] = pc'[s] /\ cur'[s] = cur[s] /\ cur'[s] \in Claimed
<1>1. ASSUME NEW t \in Ticks, Stop(t)
      PROVE  /\ pc' \in [Ticks -> PC] /\ cur' \in [Ticks -> Claimed \cup {NoClaim}]
             /\ \A s \in Ticks : pc'[s] # "idle" =>
                  s # t /\ pc[s] = pc'[s] /\ cur'[s] = cur[s] /\ cur'[s] \in Claimed
  BY <1>1 DEF Stop, TypeOK, PC
<1>2. ASSUME NEW D \in SUBSET Busy, Die(D)
      PROVE  /\ pc' \in [Ticks -> PC] /\ cur' \in [Ticks -> Claimed \cup {NoClaim}]
             /\ \A s \in Ticks : pc'[s] # "idle" =>
                  pc[s] = pc'[s] /\ cur'[s] = cur[s] /\ cur'[s] \in Claimed
  BY <1>2 DEF Die, TypeOK, PC
<1> QED BY <1>1, <1>2

LEMMA InitTypes == Init => TypeOK
BY RowTypes, SettlementAssumption
   DEF Init, TypeOK, PC, NoClaim, Claimed

\* A tick moves on with the claim it has.
LEMMA GotoTypes ==
  ASSUME TypeOK, NEW t \in Ticks, pc[t] # "idle", NEW l \in PC, Goto(t, l)
  PROVE  /\ pc' \in [Ticks -> PC] /\ cur' = cur /\ pc'[t] = l
         /\ \A s \in Ticks : s # t => pc'[s] = pc[s]
         /\ \A s \in Ticks : pc'[s] # "idle" => pc[s] # "idle"
BY DEF Goto, TypeOK, PC

LEMMA StepTypes ==
  ASSUME TypeOK, NEW t \in Ticks, Step(t)
  PROVE  TypeOK'
<1> USE DEF audit, local
<1>0. pc[t] # "idle" /\ cur[t] \in Claimed /\ cur[t].key \in Keys
  <2>1. pc[t] # "idle"
    BY DEF Step, Execute, ExecuteFails, MarkDone, MarkDoneFails, Retry, Bury, Delete,
           BuriedBefore
  <2> QED BY <2>1 DEF TypeOK, Claimed
<1>1. CASE Execute(t)
  <2>1. Goto(t, "markDone") /\ "markDone" \in PC
    BY <1>1 DEF Execute, PC
  <2> QED BY <1>0, <1>1, <2>1, GotoTypes DEF Execute, TypeOK
<1>2. CASE ExecuteFails(t)
  <2>1. Goto(t, "failed") /\ "failed" \in PC
    BY <1>2 DEF ExecuteFails, PC
  <2> QED BY <1>0, <1>2, <2>1, GotoTypes DEF ExecuteFails, TypeOK
<1>3. CASE MarkDone(t)
  <2>1. row' \in [Keys -> Row]
    BY <1>0, <1>3, WriteTypes, WrittenTypes DEF MarkDone
  <2>2. Stop(t)
    BY <1>3 DEF MarkDone
  <2> QED BY <1>3, <2>1, <2>2, StopTypes DEF MarkDone, TypeOK
<1>4. CASE MarkDoneFails(t)
  <2>1. Goto(t, "failed") /\ "failed" \in PC
    BY <1>4 DEF MarkDoneFails, PC
  <2> QED BY <1>0, <1>4, <2>1, GotoTypes DEF MarkDoneFails, TypeOK
<1>5. CASE Retry(t)
  <2>1. row' \in [Keys -> Row]
    BY <1>0, <1>5, WriteTypes, WrittenTypes DEF Retry
  <2>2. Stop(t)
    BY <1>5 DEF Retry
  <2> QED BY <1>5, <2>1, <2>2, StopTypes DEF Retry, TypeOK
<1>6. CASE Bury(t)
  <2>1. Goto(t, "delete") /\ "delete" \in PC
    BY <1>6 DEF Bury, PC
  <2>2. dlq' \in [Keys -> SUBSET Nat]
    BY <1>0, <1>6 DEF Bury, TypeOK, Claimed
  <2> QED BY <1>0, <1>6, <2>1, <2>2, GotoTypes DEF Bury, TypeOK
<1>7. CASE Delete(t)
  <2>1. row' \in [Keys -> Row]
    BY <1>0, <1>7, WriteTypes, RowTypes DEF Delete
  <2>2. Stop(t)
    BY <1>7 DEF Delete
  <2> QED BY <1>7, <2>1, <2>2, StopTypes DEF Delete, TypeOK
<1>8. CASE BuriedBefore(t)
  <2>1. PICK D \in SUBSET Busy : Die(D)
    BY <1>8 DEF BuriedBefore
  <2> QED BY <1>8, <2>1, StopTypes DEF BuriedBefore, TypeOK
<1> QED BY <1>1, <1>2, <1>3, <1>4, <1>5, <1>6, <1>7, <1>8 DEF Step

LEMMA ClaimTypes ==
  ASSUME TypeOK, NEW t \in Ticks, NEW k \in Keys, Claim(t, k)
  PROVE  TypeOK'
<1> DEFINE c == [key |-> k, id |-> row[k].id, attempts |-> row[k].attempts]
<1>1. c \in Claimed /\ [row[k] EXCEPT !.status = "processing"] \in Row
  BY DEF TypeOK, Row, Claimed
<1>2. row' \in [Keys -> Row] /\ cur' \in [Ticks -> Claimed \cup {NoClaim}]
  BY <1>1 DEF Claim, TypeOK
<1>3. cur'[t] = c /\ \A s \in Ticks : s # t => cur'[s] = cur[s] /\ pc'[s] = pc[s]
  BY DEF Claim, TypeOK
<1> HIDE DEF c
<1> QED BY <1>1, <1>2, <1>3 DEF Claim, TypeOK, PC, audit

\* The instalment, the clock, the admin, the crash.
LEMMA MarkPaidTypes ==
  ASSUME TypeOK, NEW i \in Items, MarkPaid(i)
  PROVE  TypeOK'
<1>1. \A k \in Keys : Enqueued(k) \in Row /\ lastId[k] + 1 \in Nat
  BY RowTypes DEF Enqueued, TypeOK
<1>2. row' \in [Keys -> Row] /\ lastId' \in [Keys -> Nat]
  BY <1>1 DEF MarkPaid, TypeOK
<1> QED BY <1>2 DEF MarkPaid, TypeOK, local, audit

LEMMA OtherTypes ==
  ASSUME TypeOK,
         \/ \E i \in Items : MarkUnpaid(i)
         \/ \E k \in Keys : BackoffEnds(k) \/ Replay(k)
         \/ Crash
  PROVE  TypeOK'
<1> USE DEF local, audit
<1>1. CASE \E i \in Items : MarkUnpaid(i)
  BY <1>1 DEF MarkUnpaid, TypeOK
<1>2. ASSUME NEW k \in Keys, BackoffEnds(k) PROVE TypeOK'
  <2>1. [row[k] EXCEPT !.due = TRUE] \in Row
    BY DEF TypeOK, Row
  <2> QED BY <1>2, <2>1 DEF BackoffEnds, TypeOK
<1>3. ASSUME NEW k \in Keys, Replay(k) PROVE TypeOK'
  <2>1. row[k].id \in Nat /\ lastId[k] + 1 \in Nat /\ replays[k] + 1 \in Nat
    BY DEF TypeOK, Row
  <2>2. /\ row' \in [Keys -> Row] /\ lastId' \in [Keys -> Nat]
        /\ replays' \in [Keys -> Nat]
    BY <1>3, <2>1, RowTypes DEF Replay, TypeOK
  <2> QED BY <1>3, <2>2 DEF Replay, TypeOK
<1>4. CASE Crash
  <2>1. PICK D \in SUBSET Busy : Die(D)
    BY <1>4 DEF Crash
  <2> QED BY <1>4, <2>1, StopTypes DEF Crash, TypeOK
<1> QED BY <1>1, <1>2, <1>3, <1>4

LEMMA NextTypes == TypeOK /\ [Next]_vars => TypeOK'
<1> SUFFICES ASSUME TypeOK, [Next]_vars PROVE TypeOK'
  OBVIOUS
<1>1. CASE UNCHANGED vars
  BY <1>1 DEF vars, TypeOK
<1>2. CASE Next
  BY <1>2, MarkPaidTypes, OtherTypes, StepTypes, ClaimTypes DEF Next
<1> QED BY <1>1, <1>2

\* Every variable keeps its type.
THEOREM TypeCorrect == Spec => []TypeOK
BY InitTypes, NextTypes, PTL DEF Spec

-----------------------------------------------------------------------------
(* What has been enqueued is kept.                                         *)

LEMMA InitKept == Init => KeptInv
BY InitTypes DEF Init, KeptInv, PaidEventsKept, DeleteAfterBurial

\* The dead-letter table only grows, and who deletes has buried.
LEMMA BurialStep ==
  ASSUME KeptInv, [Next]_vars
  PROVE  /\ \A k \in Keys : dlq[k] \subseteq dlq'[k]
         /\ DeleteAfterBurial'
<1> USE DEF KeptInv, local, audit
<1>0. TypeOK /\ TypeOK' /\ DeleteAfterBurial
  BY NextTypes
<1>1. CASE UNCHANGED vars
  BY <1>0, <1>1 DEF vars, DeleteAfterBurial
<1>2. ASSUME NEW t \in Ticks, Bury(t)
      PROVE  (\A k \in Keys : dlq[k] \subseteq dlq'[k]) /\ DeleteAfterBurial'
  <2>1. cur[t].key \in Keys /\ pc[t] # "idle"
    BY <1>0, <1>2 DEF Bury, TypeOK, Claimed
  <2>2. cur' = cur /\ \A s \in Ticks : s # t => pc'[s] = pc[s]
    BY <1>0, <1>2 DEF Bury, Goto, TypeOK
  <2>3. \A k \in Keys : dlq[k] \subseteq dlq'[k]
    BY <1>0, <1>2 DEF Bury, TypeOK
  <2>4. cur[t].id \in dlq'[cur[t].key]
    BY <1>0, <1>2, <2>1 DEF Bury, TypeOK
  <2>5. \A s \in Ticks : pc[s] # "idle" => cur[s].key \in Keys
    BY <1>0 DEF TypeOK, Claimed
  <2>6. ASSUME NEW s \in Ticks, s # t, pc'[s] = "delete"
        PROVE  cur'[s].id \in dlq'[cur'[s].key]
    BY <1>0, <2>2, <2>3, <2>5, <2>6 DEF DeleteAfterBurial
  <2> QED BY <2>2, <2>3, <2>4, <2>6 DEF DeleteAfterBurial
<1>3. ASSUME dlq' = dlq,
             \A s \in Ticks : pc'[s] = "delete" => pc[s] = "delete" /\ cur'[s] = cur[s]
      PROVE  (\A k \in Keys : dlq[k] \subseteq dlq'[k]) /\ DeleteAfterBurial'
  BY <1>0, <1>3 DEF DeleteAfterBurial
<1>4. ASSUME NEW t \in Ticks, Step(t), ~Bury(t)
      PROVE  dlq' = dlq /\ \A s \in Ticks :
               pc'[s] = "delete" => pc[s] = "delete" /\ cur'[s] = cur[s]
  <2>1. CASE Execute(t) \/ ExecuteFails(t) \/ MarkDoneFails(t)
    BY <1>0, <2>1 DEF Execute, ExecuteFails, MarkDoneFails, Goto, TypeOK
  <2>2. CASE MarkDone(t) \/ Retry(t) \/ Delete(t)
    BY <1>0, <2>2 DEF MarkDone, Retry, Delete, Stop, TypeOK
  <2>3. CASE BuriedBefore(t)
    <3>1. PICK D \in SUBSET Busy : Die(D)
      BY <2>3 DEF BuriedBefore
    <3> QED BY <1>0, <2>3, <3>1 DEF BuriedBefore, Die, TypeOK
  <2> QED BY <1>4, <2>1, <2>2, <2>3 DEF Step
<1>5. ASSUME NEW t \in Ticks, NEW k \in Keys, Claim(t, k)
      PROVE  dlq' = dlq /\ \A s \in Ticks :
               pc'[s] = "delete" => pc[s] = "delete" /\ cur'[s] = cur[s]
  BY <1>0, <1>5 DEF Claim, TypeOK
<1>6. CASE Crash
  <2>1. PICK D \in SUBSET Busy : Die(D)
    BY <1>6 DEF Crash
  <2> QED BY <1>0, <1>3, <1>6, <2>1 DEF Crash, Die, TypeOK
<1>7. CASE \E i \in Items : MarkPaid(i) \/ MarkUnpaid(i)
  BY <1>3, <1>7 DEF MarkPaid, MarkUnpaid
<1>8. CASE \E k \in Keys : BackoffEnds(k) \/ Replay(k)
  BY <1>3, <1>8 DEF BackoffEnds, Replay
<1> QED BY <1>1, <1>2, <1>3, <1>4, <1>5, <1>6, <1>7, <1>8 DEF Next

\* A row goes away only when its tick has buried it.
LEMMA RowStep ==
  ASSUME KeptInv, [Next]_vars, NEW k \in Keys, Kept(k)
  PROVE  Kept(k)'
<1> USE DEF KeptInv, local, audit
<1>0. TypeOK /\ DeleteAfterBurial /\ dlq[k] \subseteq dlq'[k]
  BY BurialStep
<1>1. SUFFICES ASSUME dlq[k] = {}
               PROVE  row'[k].status # "absent"
  BY <1>0 DEF Kept
<1>2. row[k].status # "absent"
  BY <1>1 DEF Kept
<1>3. CASE UNCHANGED vars
  BY <1>2, <1>3 DEF vars
<1>4. ASSUME NEW t \in Ticks, Step(t)
      PROVE  row'[k].status # "absent"
  <2>1. CASE MarkDone(t) \/ Retry(t)
    <3>1. /\ [row[cur[t].key] EXCEPT !.status = "done"].status = "done"
          /\ [row[cur[t].key] EXCEPT !.status = "pending",
                !.attempts = cur[t].attempts + 1, !.due = FALSE].status = "pending"
      BY <1>0, <2>1, WrittenTypes DEF MarkDone, Retry, Row, TypeOK, Claimed
    <3>2. pc[t] # "idle"
      BY <2>1 DEF MarkDone, Retry
    <3>3. CASE MarkDone(t)
      BY <1>0, <1>2, <3>1, <3>2, <3>3, WriteTypes, WrittenTypes DEF MarkDone
    <3>4. CASE Retry(t)
      BY <1>0, <1>2, <3>1, <3>2, <3>4, WriteTypes, WrittenTypes DEF Retry
    <3> QED BY <2>1, <3>3, <3>4
  <2>2. CASE Delete(t)
    <3>1. pc[t] # "idle" /\ cur[t].id \in dlq[cur[t].key]
      BY <1>0, <2>2 DEF Delete, DeleteAfterBurial
    <3>2. cur[t].key # k
      BY <1>1, <3>1
    <3> QED BY <1>0, <1>2, <2>2, <3>1, <3>2, WriteTypes, RowTypes DEF Delete
  <2>3. CASE Execute(t) \/ ExecuteFails(t) \/ MarkDoneFails(t) \/ Bury(t) \/ BuriedBefore(t)
    <3>1. row' = row
      BY <2>3 DEF Execute, ExecuteFails, MarkDoneFails, Bury, BuriedBefore
    <3> QED BY <1>2, <3>1
  <2> QED BY <1>4, <2>1, <2>2, <2>3 DEF Step
<1>5. ASSUME NEW t \in Ticks, NEW j \in Keys, Claim(t, j)
      PROVE  row'[k].status # "absent"
  BY <1>0, <1>2, <1>5 DEF Claim, TypeOK, Row
<1>6. CASE \E i \in Items : MarkPaid(i)
  BY <1>0, <1>2, <1>6 DEF MarkPaid, Enqueued, TypeOK
<1>7. CASE Crash \/ \E i \in Items : MarkUnpaid(i)
  BY <1>2, <1>7 DEF Crash, MarkUnpaid
<1>8. ASSUME NEW j \in Keys, BackoffEnds(j)
      PROVE  row'[k].status # "absent"
  BY <1>0, <1>2, <1>8 DEF BackoffEnds, TypeOK, Row
<1>9. ASSUME NEW j \in Keys, Replay(j)
      PROVE  row'[k].status # "absent"
  <2>1. row' \in [Keys -> Row] /\ \A n \in Keys : n # j => row'[n] = row[n]
    BY <1>0, <1>9, NextTypes DEF Replay, TypeOK
  <2>2. row'[j] \in {Fresh(lastId[j] + 1), Fresh(row[j].id)}
    BY <1>0, <1>9 DEF Replay, TypeOK
  <2>3. row'[j].status = "pending"
    BY <2>2 DEF Fresh
  <2> QED BY <1>2, <2>1, <2>3
<1> QED BY <1>3, <1>4, <1>5, <1>6, <1>7, <1>8, <1>9 DEF Next

LEMMA KeptStep == KeptInv /\ [Next]_vars => KeptInv'
<1> SUFFICES ASSUME KeptInv, [Next]_vars PROVE KeptInv'
  OBVIOUS
<1>1. TypeOK /\ TypeOK' /\ DeleteAfterBurial' /\ PaidEventsKept
  BY NextTypes, BurialStep DEF KeptInv
<1>2. ASSUME NEW i \in Items, NEW e \in EventTypes, i \in paid
      PROVE  Kept(<<i, e>>)'
  BY <1>1, <1>2, RowStep DEF PaidEventsKept, Keys
<1>3. ASSUME NEW i \in Items, NEW e \in EventTypes, i \in paid', i \notin paid
      PROVE  Kept(<<i, e>>)'
  <2>a. ASSUME NEW t \in Ticks, Step(t) PROVE paid' = paid
    BY <2>a DEF Step, Execute, ExecuteFails, MarkDone, MarkDoneFails, Retry, Bury, Delete,
       BuriedBefore
  <2>b. ASSUME NEW t \in Ticks, NEW k \in Keys, Claim(t, k) PROVE paid' = paid
    BY <2>b DEF Claim
  <2>c. ASSUME NEW k \in Keys, BackoffEnds(k) \/ Replay(k) PROVE paid' = paid
    BY <2>c DEF BackoffEnds, Replay
  <2>d. ASSUME Crash \/ UNCHANGED vars PROVE paid' = paid
    BY <2>d DEF Crash, vars
  <2>e. PICK j \in Items : MarkPaid(j) \/ MarkUnpaid(j)
    BY <1>3, <2>a, <2>b, <2>c, <2>d DEF Next
  <2>1. MarkPaid(i)
    BY <1>3, <2>e DEF MarkPaid, MarkUnpaid
  <2>2. <<i, e>> \in Keys /\ <<i, e>>[1] = i
    BY DEF Keys
  <2>3. row'[<<i, e>>] = Enqueued(<<i, e>>)
    BY <2>1, <2>2 DEF MarkPaid
  <2>4. Enqueued(<<i, e>>).status # "absent"
    BY <1>1, <2>2 DEF Enqueued, Fresh
  <2> QED BY <2>3, <2>4 DEF Kept
<1> QED BY <1>1, <1>2, <1>3 DEF KeptInv, PaidEventsKept, TypeOK

\* Every event of an instalment that is paid is in the outbox or in the
\* dead-letter table, in whatever order ticks, crashes and admins step.
THEOREM EventsAreKept == Spec => []KeptInv
BY InitKept, KeptStep, PTL DEF Spec

-----------------------------------------------------------------------------
(* Claims exclude one another.                                             *)

LEMMA InitExclusion == Init => ExclusionInv
BY InitTypes DEF Init, ExclusionInv, HeldIsProcessing, ClaimExclusive, Holds

\* A step that only ends claims and writes no row.
LEMMA QuietExclusion ==
  ASSUME ExclusionInv, row' = row, replays' = replays,
         \A s \in Ticks : pc'[s] # "idle" => pc[s] # "idle" /\ cur'[s] = cur[s]
  PROVE  HeldIsProcessing' /\ ClaimExclusive'
BY DEF ExclusionInv, HeldIsProcessing, ClaimExclusive, Holds

\* A tick writes the row it holds and lets it go.
LEMMA WriteExclusion ==
  ASSUME ExclusionInv, NEW t \in Ticks, pc[t] # "idle", NEW r \in Row,
         WriteMine(t, r), Stop(t), replays' = replays
  PROVE  HeldIsProcessing' /\ ClaimExclusive'
<1>1. /\ cur[t].key \in Keys
      /\ \A k \in Keys : k # cur[t].key => row'[k] = row[k]
  BY WriteTypes DEF ExclusionInv
<1>2. \A s \in Ticks : pc'[s] # "idle" =>
        s # t /\ pc[s] # "idle" /\ cur'[s] = cur[s]
  BY StopTypes DEF ExclusionInv
<1>3. ASSUME NEW s \in Ticks, NEW k \in Keys, Holds(s, k)', replays'[k] = 0
      PROVE  Holds(s, k) /\ k # cur[t].key
  <2>1. Holds(s, k) /\ s # t
    BY <1>2, <1>3 DEF Holds
  <2>2. Holds(t, cur[t].key)
    BY DEF Holds
  <2> QED BY <1>3, <2>1, <2>2 DEF ExclusionInv, ClaimExclusive
<1> QED BY <1>1, <1>3 DEF ExclusionInv, HeldIsProcessing, ClaimExclusive

LEMMA ClaimExclusion ==
  ASSUME ExclusionInv, NEW t \in Ticks, NEW k \in Keys, Claim(t, k)
  PROVE  HeldIsProcessing' /\ ClaimExclusive'
<1> USE DEF audit
<1>0. TypeOK
  BY DEF ExclusionInv
<1>1. /\ row'[k].status = "processing" /\ replays' = replays
      /\ \A j \in Keys : j # k => row'[j] = row[j]
  BY <1>0 DEF Claim, TypeOK, Row
<1>2. /\ cur'[t].key = k
      /\ \A s \in Ticks : s # t => pc'[s] = pc[s] /\ cur'[s] = cur[s]
  BY <1>0 DEF Claim, TypeOK
<1>3. \A s \in Ticks : Holds(s, k) => replays[k] # 0
  BY DEF ExclusionInv, HeldIsProcessing, Claim, Claimable
<1>4. \A s \in Ticks, j \in Keys :
        Holds(s, j)' => \/ s = t /\ j = k
                        \/ s # t /\ Holds(s, j)
  BY <1>2 DEF Holds
<1>5. HeldIsProcessing'
  BY <1>1, <1>3, <1>4 DEF ExclusionInv, HeldIsProcessing
<1>6. ClaimExclusive'
  BY <1>1, <1>3, <1>4 DEF ExclusionInv, ClaimExclusive
<1> QED BY <1>5, <1>6

\* No tick moves, and the rows that are held without a replay stay.
LEMMA RowExclusion ==
  ASSUME ExclusionInv, pc' = pc, cur' = cur,
         \A k \in Keys : replays'[k] = 0 =>
           replays[k] = 0 /\ (row[k].status = "processing" => row'[k] = row[k])
  PROVE  HeldIsProcessing' /\ ClaimExclusive'
BY DEF ExclusionInv, HeldIsProcessing, ClaimExclusive, Holds

LEMMA StepExclusion ==
  ASSUME ExclusionInv, NEW t \in Ticks, Step(t)
  PROVE  HeldIsProcessing' /\ ClaimExclusive'
<1> USE DEF audit
<1>0. TypeOK
  BY DEF ExclusionInv
<1>1. CASE Execute(t) \/ ExecuteFails(t) \/ MarkDoneFails(t) \/ Bury(t)
  <2>1. pc[t] # "idle" /\ row' = row /\ replays' = replays /\ cur' = cur
    BY <1>1 DEF Execute, ExecuteFails, MarkDoneFails, Bury, Goto
  <2>2. \A s \in Ticks : s # t => pc'[s] = pc[s]
    BY <1>0, <1>1 DEF Execute, ExecuteFails, MarkDoneFails, Bury, Goto, TypeOK
  <2> QED BY <2>1, <2>2, QuietExclusion
<1>2. CASE MarkDone(t)
  <2>1. pc[t] # "idle" /\ replays' = replays /\ Stop(t)
    BY <1>2 DEF MarkDone
  <2> QED BY <1>0, <1>2, <2>1, WrittenTypes, WriteExclusion DEF MarkDone
<1>3. CASE Retry(t)
  <2>1. pc[t] # "idle" /\ replays' = replays /\ Stop(t)
    BY <1>3 DEF Retry
  <2> QED BY <1>0, <1>3, <2>1, WrittenTypes, WriteExclusion DEF Retry
<1>4. CASE Delete(t)
  <2>1. pc[t] # "idle" /\ replays' = replays /\ Stop(t)
    BY <1>4 DEF Delete
  <2> QED BY <1>4, <2>1, RowTypes, WriteExclusion DEF Delete
<1>5. CASE BuriedBefore(t)
  <2>1. PICK D \in SUBSET Busy : Die(D)
    BY <1>5 DEF BuriedBefore
  <2>2. \A s \in Ticks : pc'[s] # "idle" => pc[s] # "idle" /\ cur'[s] = cur[s]
    BY <1>0, <2>1, StopTypes
  <2> QED BY <1>5, <2>2, QuietExclusion DEF BuriedBefore
<1> QED BY <1>1, <1>2, <1>3, <1>4, <1>5 DEF Step

LEMMA ExclusionStep == ExclusionInv /\ [Next]_vars => ExclusionInv'
<1> SUFFICES ASSUME ExclusionInv, [Next]_vars
             PROVE  HeldIsProcessing' /\ ClaimExclusive'
  BY NextTypes DEF ExclusionInv
<1> USE DEF local, audit
<1>0. TypeOK
  BY DEF ExclusionInv
<1>1. CASE UNCHANGED vars
  BY <1>1, QuietExclusion DEF vars
<1>2. ASSUME NEW i \in Items, MarkPaid(i)
      PROVE  HeldIsProcessing' /\ ClaimExclusive'
  <2>1. \A k \in Keys : row[k].status = "processing" => row'[k] = row[k]
    BY <1>0, <1>2 DEF MarkPaid, Enqueued, TypeOK
  <2> QED BY <1>2, <2>1, RowExclusion DEF MarkPaid
<1>3. ASSUME NEW i \in Items, MarkUnpaid(i)
      PROVE  HeldIsProcessing' /\ ClaimExclusive'
  BY <1>3, RowExclusion DEF MarkUnpaid
<1>4. ASSUME NEW k \in Keys, BackoffEnds(k)
      PROVE  HeldIsProcessing' /\ ClaimExclusive'
  <2>1. \A j \in Keys : row[j].status = "processing" => row'[j] = row[j]
    BY <1>0, <1>4 DEF BackoffEnds, TypeOK
  <2> QED BY <1>4, <2>1, RowExclusion DEF BackoffEnds
<1>5. ASSUME NEW k \in Keys, Replay(k)
      PROVE  HeldIsProcessing' /\ ClaimExclusive'
  <2>1. replays'[k] = replays[k] + 1 /\ replays[k] \in Nat
    BY <1>0, <1>5 DEF Replay, TypeOK
  <2>2. \A j \in Keys : j # k => row'[j] = row[j] /\ replays'[j] = replays[j]
    BY <1>0, <1>5 DEF Replay, TypeOK
  <2>3. replays'[k] # 0
    BY <2>1
  <2> QED BY <1>5, <2>2, <2>3, RowExclusion DEF Replay
<1>6. CASE Crash
  <2>1. PICK D \in SUBSET Busy : Die(D)
    BY <1>6 DEF Crash
  <2>2. \A s \in Ticks : pc'[s] # "idle" => pc[s] # "idle" /\ cur'[s] = cur[s]
    BY <1>0, <2>1, StopTypes
  <2> QED BY <1>6, <2>2, QuietExclusion DEF Crash
<1> QED BY <1>1, <1>2, <1>3, <1>4, <1>5, <1>6, StepExclusion, ClaimExclusion DEF Next

\* Two ticks, of whatever servers, never work on the same event before an
\* admin replays it.
THEOREM ClaimsExclude == Spec => []ClaimExclusive
<1>1. ExclusionInv => ClaimExclusive
  BY DEF ExclusionInv
<1> QED BY <1>1, InitExclusion, ExclusionStep, PTL DEF Spec

\* An event that is done is held by nobody, and pending for nobody.
LEMMA DoneStep ==
  ASSUME ExclusionInv, [Next]_vars, NEW k \in Keys,
         row[k].status = "done", row'[k] # row[k]
  PROVE  replays'[k] > 0
<1> USE DEF local, audit
<1>0. TypeOK /\ TypeOK'
  BY NextTypes DEF ExclusionInv
<1>1. SUFFICES ASSUME replays'[k] = 0 PROVE FALSE
  BY <1>0 DEF TypeOK
<1>2. \A t \in Ticks : Holds(t, k) => replays[k] # 0
  BY DEF ExclusionInv, HeldIsProcessing
<1>3. CASE UNCHANGED vars
  BY <1>3 DEF vars
<1>4. ASSUME NEW t \in Ticks, NEW r \in Row, pc[t] # "idle", WriteMine(t, r), replays' = replays
      PROVE  FALSE
  BY <1>0, <1>1, <1>2, <1>4, WriteTypes DEF Holds
<1>5. ASSUME NEW t \in Ticks, Step(t)
      PROVE  FALSE
  <2>1. CASE MarkDone(t)
    BY <1>0, <1>4, <2>1, WrittenTypes DEF MarkDone
  <2>2. CASE Retry(t)
    BY <1>0, <1>4, <2>2, WrittenTypes DEF Retry
  <2>3. CASE Delete(t)
    BY <1>4, <2>3, RowTypes DEF Delete
  <2>4. CASE Execute(t) \/ ExecuteFails(t) \/ MarkDoneFails(t) \/ Bury(t) \/ BuriedBefore(t)
    <3>1. row' = row
      BY <2>4 DEF Execute, ExecuteFails, MarkDoneFails, Bury, BuriedBefore
    <3> QED BY <3>1
  <2> QED BY <1>5, <2>1, <2>2, <2>3, <2>4 DEF Step
<1>6. ASSUME NEW t \in Ticks, NEW j \in Keys, Claim(t, j)
      PROVE  FALSE
  BY <1>0, <1>6 DEF Claim, Claimable, TypeOK
<1>7. ASSUME NEW i \in Items, MarkPaid(i)
      PROVE  FALSE
  BY <1>0, <1>7 DEF MarkPaid, Enqueued, TypeOK
<1>8. CASE Crash \/ \E i \in Items : MarkUnpaid(i)
  BY <1>8 DEF Crash, MarkUnpaid
<1>9. ASSUME NEW j \in Keys, BackoffEnds(j)
      PROVE  FALSE
  BY <1>0, <1>9 DEF BackoffEnds, TypeOK
<1>10. ASSUME NEW j \in Keys, Replay(j)
       PROVE  FALSE
  <2>1. j = k
    BY <1>0, <1>10 DEF Replay, TypeOK
  <2>2. replays'[k] = replays[k] + 1 /\ replays[k] \in Nat
    BY <1>0, <1>10, <2>1 DEF Replay, TypeOK
  <2> QED BY <1>1, <2>2
<1> QED BY <1>3, <1>5, <1>6, <1>7, <1>8, <1>9, <1>10 DEF Next

\* An event that is done stays done until an admin replays it.
THEOREM DoneStaysDone == Spec => DoneIsFinal
<1>1. ExclusionInv /\ [Next]_vars =>
        [\A k \in Keys : row[k].status = "done" /\ row'[k] # row[k] => replays'[k] > 0]_vars
  BY DoneStep
<1> QED BY <1>1, InitExclusion, ExclusionStep, PTL DEF Spec, DoneIsFinal

-----------------------------------------------------------------------------
(* Executions are paid for.                                                *)

\* The attempts a tick has used up of the row it holds.
Spent(t) == IF pc[t] = "execute" THEN cur[t].attempts ELSE cur[t].attempts + 1

\* The attempts that the ticks holding an event may still make, and those left
\* to its row while it waits.
Tokens(k) == {p \in Ticks \X (1..MaxAttempts) : Holds(p[1], k) /\ Spent(p[1]) < p[2]}

RowLeft(k) == IF row[k].status = "pending" THEN MaxAttempts - row[k].attempts ELSE 0

\* Rows that wait and rows that are held have an attempt left.
AttemptsLeft ==
  /\ \A k \in Keys : row[k].status = "pending" => row[k].attempts < MaxAttempts
  /\ \A t \in Ticks : pc[t] # "idle" => cur[t].attempts < MaxAttempts

\* After a replay several ticks may hold one event, each with a count of its
\* own: what was executed and what they may still execute is what was paid for.
BudgetOK(k) ==
  /\ IsFiniteSet(Tokens(k))
  /\ executed[k] + Cardinality(Tokens(k)) + RowLeft(k) <= MaxAttempts * (lastId[k] + replays[k])

BudgetInv == TypeOK /\ AttemptsLeft /\ \A k \in Keys : BudgetOK(k)

\* The attempts of one tick.
LEMMA OwnTokens ==
  ASSUME NEW t, NEW a \in Nat, a <= MaxAttempts
  PROVE  /\ IsFiniteSet({t} \X ((a + 1)..MaxAttempts))
         /\ Cardinality({t} \X ((a + 1)..MaxAttempts)) = MaxAttempts - a
<1> DEFINE I == (a + 1)..MaxAttempts
<1>1. MaxAttempts \in Nat
  BY SettlementAssumption DEF SettlementAssumption
<1>2. IsFiniteSet(I) /\ Cardinality(I) = MaxAttempts - a
  <2>1. a + 1 \in Int /\ MaxAttempts \in Int
    BY <1>1
  <2>2. /\ IsFiniteSet(I)
        /\ Cardinality(I) = IF a + 1 > MaxAttempts THEN 0 ELSE MaxAttempts - (a + 1) + 1
    BY <2>1, FS_Interval, Zenon
  <2> HIDE DEF I
  <2>3. QED
    BY <1>1, <2>2
<1>3. IsFiniteSet({t}) /\ Cardinality({t}) = 1
  BY FS_Singleton
<1> HIDE DEF I
<1>4. IsFiniteSet({t} \X I) /\ Cardinality({t} \X I) = 1 * Cardinality(I)
  BY <1>2, <1>3, FS_Product
<1>5. QED
  BY <1>1, <1>2, <1>4 DEF I

\* Another row or replay pays for as many executions as there are attempts.
LEMMA PaidAgain ==
  ASSUME NEW x \in Nat, NEW y \in Nat, y > x
  PROVE  MaxAttempts * x + MaxAttempts <= MaxAttempts * y
<1>1. MaxAttempts \in Nat
  BY SettlementAssumption DEF SettlementAssumption
<1>2. PICK d \in Nat : y = x + 1 + d
  <2>1. y - x - 1 \in Nat /\ y = x + 1 + (y - x - 1)
    OBVIOUS
  <2>2. QED
    BY <2>1
<1>3. MaxAttempts * y = MaxAttempts * x + MaxAttempts + MaxAttempts * d
  BY <1>1, <1>2
<1>4. MaxAttempts * d \in Nat /\ MaxAttempts * x \in Nat
  BY <1>1
<1>5. QED
  BY <1>1, <1>3, <1>4

\* The numbers that the budget adds up.
LEMMA BudgetTypes ==
  ASSUME TypeOK, AttemptsLeft, NEW k \in Keys, BudgetOK(k)
  PROVE  /\ Cardinality(Tokens(k)) \in Nat /\ RowLeft(k) \in Nat /\ RowLeft(k) <= MaxAttempts
         /\ executed[k] \in Nat /\ lastId[k] + replays[k] \in Nat
         /\ MaxAttempts \in Nat /\ MaxAttempts * (lastId[k] + replays[k]) \in Nat
<1>1. MaxAttempts \in Nat
  BY SettlementAssumption DEF SettlementAssumption
<1>2. Cardinality(Tokens(k)) \in Nat
  BY FS_CardinalityType DEF BudgetOK
<1>3. row[k].attempts \in Nat /\ (row[k].status = "pending" => row[k].attempts < MaxAttempts)
  BY DEF TypeOK, AttemptsLeft, Row
<1>4. executed[k] \in Nat /\ lastId[k] + replays[k] \in Nat
  BY DEF TypeOK
<1>5. MaxAttempts * (lastId[k] + replays[k]) \in Nat
  BY <1>1, <1>4
<1>6. QED
  BY <1>1, <1>2, <1>3, <1>4, <1>5 DEF RowLeft

\* Ticks that hold nothing new and get no attempt back have no new attempts.
LEMMA TokensShrink ==
  ASSUME TypeOK, TypeOK', NEW k \in Keys,
         \A s \in Ticks : Holds(s, k)' => Holds(s, k) /\ Spent(s)' >= Spent(s)
  PROVE  Tokens(k)' \subseteq Tokens(k)
<1>1. \A s \in Ticks :
        (pc[s] # "idle" => Spent(s) \in Nat) /\ (pc'[s] # "idle" => Spent(s)' \in Nat)
  BY DEF TypeOK, Claimed, Spent
<1>2. ASSUME NEW p \in Tokens(k)'
      PROVE  p \in Tokens(k)
  <2>1. p \in Ticks \X (1..MaxAttempts) /\ Holds(p[1], k)' /\ Spent(p[1])' < p[2]
    BY <1>2 DEF Tokens
  <2>2. p[1] \in Ticks /\ p[2] \in Nat
    BY <2>1
  <2>3. Holds(p[1], k) /\ Spent(p[1])' >= Spent(p[1])
    BY <2>1, <2>2
  <2>4. Spent(p[1]) \in Nat /\ Spent(p[1])' \in Nat
    BY <1>1, <2>1, <2>2, <2>3 DEF Holds
  <2>5. Spent(p[1]) < p[2]
    BY <2>1, <2>2, <2>3, <2>4
  <2>6. QED
    BY <2>1, <2>3, <2>5 DEF Tokens
<1>3. QED
  BY <1>2

\* A step that executes nothing, and leaves no attempt that was not there.
LEMMA BudgetShrinks ==
  ASSUME TypeOK, TypeOK', AttemptsLeft, AttemptsLeft', NEW k \in Keys, BudgetOK(k),
         executed'[k] = executed[k], lastId'[k] = lastId[k], replays'[k] = replays[k],
         \A s \in Ticks : Holds(s, k)' => Holds(s, k) /\ Spent(s)' >= Spent(s),
         RowLeft(k)' <= RowLeft(k)
  PROVE  BudgetOK(k)'
<1>1. Tokens(k)' \subseteq Tokens(k)
  BY TokensShrink
<1>2. /\ IsFiniteSet(Tokens(k)') /\ Cardinality(Tokens(k)') <= Cardinality(Tokens(k))
      /\ Cardinality(Tokens(k)') \in Nat
  BY <1>1, FS_Subset, FS_CardinalityType DEF BudgetOK
<1>3. RowLeft(k)' \in Int
  BY BudgetTypes DEF TypeOK, RowLeft, Row
<1> DEFINE Limit == MaxAttempts * (lastId[k] + replays[k])
<1>4. Limit \in Nat /\ executed[k] + Cardinality(Tokens(k)) + RowLeft(k) <= Limit
  BY BudgetTypes DEF BudgetOK
<1>5. Limit = MaxAttempts * (lastId'[k] + replays'[k])
  OBVIOUS
<1> HIDE DEF Limit
<1>6. executed'[k] + Cardinality(Tokens(k)') + RowLeft(k)' <= Limit
  BY <1>2, <1>3, <1>4, BudgetTypes
<1>7. QED
  BY <1>2, <1>5, <1>6 DEF BudgetOK

\* A row that is inserted, or reset by a replay, brings attempts of its own.
LEMMA BudgetPaid ==
  ASSUME TypeOK, TypeOK', AttemptsLeft, AttemptsLeft', NEW k \in Keys, BudgetOK(k),
         executed'[k] = executed[k], lastId'[k] + replays'[k] > lastId[k] + replays[k],
         UNCHANGED <<pc, cur>>
  PROVE  BudgetOK(k)'
<1>1. Tokens(k)' = Tokens(k)
  BY DEF Tokens, Holds, Spent
<1> DEFINE C == Cardinality(Tokens(k))
           Before == MaxAttempts * (lastId[k] + replays[k])
           After  == MaxAttempts * (lastId'[k] + replays'[k])
<1>2. /\ C \in Nat /\ executed[k] \in Nat /\ RowLeft(k) \in Nat /\ MaxAttempts \in Nat
      /\ Before \in Nat /\ executed[k] + C + RowLeft(k) <= Before
  BY BudgetTypes DEF BudgetOK
<1>3. After \in Nat /\ Before + MaxAttempts <= After
  <2>1. lastId[k] + replays[k] \in Nat /\ lastId'[k] + replays'[k] \in Nat
    BY DEF TypeOK
  <2>2. After \in Nat
    BY <1>2, <2>1
  <2>3. QED
    BY <2>1, <2>2, PaidAgain
<1>4. RowLeft(k)' \in Nat /\ RowLeft(k)' <= MaxAttempts
  BY <1>2 DEF TypeOK, AttemptsLeft, Row, RowLeft
<1> HIDE DEF C, Before, After
<1>5. executed'[k] + C + RowLeft(k)' <= After
  BY <1>2, <1>3, <1>4
<1>6. QED
  BY <1>1, <1>5 DEF BudgetOK, C, After

\* The attempts of a row that is claimed go to the tick.
LEMMA BudgetClaimed ==
  ASSUME TypeOK, TypeOK', AttemptsLeft, AttemptsLeft', NEW k \in Keys, BudgetOK(k),
         NEW t \in Ticks, Claim(t, k)
  PROVE  BudgetOK(k)'
<1> DEFINE a == row[k].attempts
           Own == {t} \X ((a + 1)..MaxAttempts)
           Limit == MaxAttempts * (lastId[k] + replays[k])
<1>1. /\ row[k].status = "pending" /\ a \in Nat /\ a < MaxAttempts
      /\ executed' = executed /\ lastId' = lastId /\ replays' = replays
  BY DEF Claim, Claimable, TypeOK, AttemptsLeft, Row, audit
<1>2. IsFiniteSet(Own) /\ Cardinality(Own) = MaxAttempts - a
  <2>1. a <= MaxAttempts
    BY <1>1, BudgetTypes
  <2>2. QED
    BY <1>1, <2>1, OwnTokens
<1>3. /\ pc'[t] = "execute" /\ cur'[t].attempts = a /\ Spent(t)' = a
      /\ \A s \in Ticks : s # t => pc'[s] = pc[s] /\ cur'[s] = cur[s]
  BY DEF Claim, TypeOK, Spent
<1>4. Tokens(k)' \subseteq Tokens(k) \cup Own
  <2>1. SUFFICES ASSUME NEW p \in Tokens(k)' PROVE p \in Tokens(k) \cup Own
    OBVIOUS
  <2>2. p \in Ticks \X (1..MaxAttempts) /\ Holds(p[1], k)' /\ Spent(p[1])' < p[2]
    BY <2>1 DEF Tokens
  <2>3. CASE p[1] = t
    <3>1. p[2] \in (a + 1)..MaxAttempts
      BY <1>1, <1>3, <2>2, <2>3, BudgetTypes
    <3>2. QED
      BY <2>2, <2>3, <3>1
  <2>4. CASE p[1] # t
    BY <1>3, <2>2, <2>4 DEF Tokens, Holds, Spent
  <2>5. QED
    BY <2>3, <2>4
<1>5. RowLeft(k) = MaxAttempts - a /\ RowLeft(k)' = 0
  BY <1>1 DEF RowLeft, Claim, TypeOK, Row
<1>6. /\ IsFiniteSet(Tokens(k)') /\ Cardinality(Tokens(k)') \in Nat
      /\ Cardinality(Tokens(k)') <= Cardinality(Tokens(k)) + (MaxAttempts - a)
  <2> DEFINE T == Tokens(k)
             U == T \cup Own
  <2>1. IsFiniteSet(T) /\ Cardinality(T) \in Nat
    BY FS_CardinalityType DEF BudgetOK
  <2>2. IsFiniteSet(T \cap Own)
    BY <2>1, FS_Subset
  <2>3. Cardinality(T \cap Own) \in Nat
    BY <2>2, FS_CardinalityType
  <2> HIDE DEF T, Own
  <2>4. /\ IsFiniteSet(U)
        /\ Cardinality(U) = Cardinality(T) + Cardinality(Own) - Cardinality(T \cap Own)
    BY <1>2, <2>1, FS_Union
  <2>5. Cardinality(U) \in Nat
    BY <2>4, FS_CardinalityType
  <2> HIDE DEF U
  <2>6. Tokens(k)' \in SUBSET U
    BY <1>4 DEF U, T
  <2>7. IsFiniteSet(Tokens(k)') /\ Cardinality(Tokens(k)') <= Cardinality(U)
    BY <2>4, <2>6, FS_Subset
  <2>8. Cardinality(Tokens(k)') \in Nat
    BY <2>7, FS_CardinalityType
  <2>9. Cardinality(U) <= Cardinality(T) + (MaxAttempts - a)
    BY <1>1, <1>2, <2>1, <2>3, <2>4, BudgetTypes
  <2>10. QED
    BY <1>1, <2>1, <2>5, <2>7, <2>8, <2>9, BudgetTypes DEF T
<1>7. Limit \in Nat /\ executed[k] + Cardinality(Tokens(k)) + RowLeft(k) <= Limit
  BY BudgetTypes DEF BudgetOK
<1>8. Limit = MaxAttempts * (lastId'[k] + replays'[k])
  BY <1>1
<1> HIDE DEF a, Own, Limit
<1>9. executed'[k] + Cardinality(Tokens(k)') + RowLeft(k)' <= Limit
  BY <1>1, <1>5, <1>6, <1>7, BudgetTypes
<1>10. QED
  BY <1>6, <1>8, <1>9 DEF BudgetOK

\* An execution takes one attempt from the tick.
LEMMA BudgetExecuted ==
  ASSUME TypeOK, TypeOK', AttemptsLeft, AttemptsLeft', NEW k \in Keys, BudgetOK(k),
         NEW t \in Ticks, Execute(t), cur[t].key = k
  PROVE  BudgetOK(k)'
<1> DEFINE tok == <<t, cur[t].attempts + 1>>
           Limit == MaxAttempts * (lastId[k] + replays[k])
<1>1. /\ pc[t] = "execute" /\ cur[t].attempts \in Nat /\ cur[t].attempts < MaxAttempts
      /\ cur' = cur /\ pc' = [pc EXCEPT ![t] = "markDone"]
      /\ row' = row /\ lastId' = lastId /\ replays' = replays
  BY DEF Execute, Goto, TypeOK, AttemptsLeft, Claimed
<1>2. executed'[k] = executed[k] + 1
  BY DEF Execute, TypeOK
<1>3. pc'[t] = "markDone" /\ \A s \in Ticks : s # t => pc'[s] = pc[s]
  BY <1>1 DEF TypeOK
<1>4. tok \in Tokens(k)
  <2>1. cur[t].attempts + 1 \in 1..MaxAttempts
    BY <1>1, BudgetTypes
  <2>2. QED
    BY <1>1, <2>1 DEF Tokens, Holds, Spent
<1>5. Tokens(k)' \subseteq Tokens(k) \ {tok}
  <2>1. \A s \in Ticks : Holds(s, k)' => Holds(s, k)
    BY <1>1, <1>3 DEF Holds
  <2>2. Spent(t) = cur[t].attempts /\ Spent(t)' = cur[t].attempts + 1
    BY <1>1, <1>3 DEF Spent
  <2>3. \A s \in Ticks : s # t => Spent(s)' = Spent(s)
    BY <1>1, <1>3 DEF Spent
  <2>4. \A s \in Ticks : Holds(s, k)' => (Spent(s)' >= Spent(s))
    <3>1. ASSUME NEW s \in Ticks, Holds(s, k)' PROVE Spent(s)' >= Spent(s)
      <4>1. cur[s].attempts \in Nat
        BY <2>1, <3>1 DEF TypeOK, Claimed, Holds
      <4>2. QED
        BY <1>1, <2>2, <2>3, <4>1 DEF Spent
    <3>2. QED
      BY <3>1
  <2>5. Tokens(k)' \subseteq Tokens(k)
    BY <2>1, <2>4, TokensShrink
  <2>6. tok \notin Tokens(k)'
    BY <1>1, <2>2 DEF Tokens
  <2>7. QED
    BY <2>5, <2>6
<1>6. /\ IsFiniteSet(Tokens(k)') /\ Cardinality(Tokens(k)') \in Nat
      /\ Cardinality(Tokens(k)') <= Cardinality(Tokens(k)) - 1
  <2> DEFINE V == Tokens(k) \ {tok}
  <2>1. IsFiniteSet(V) /\ Cardinality(V) = Cardinality(Tokens(k)) - 1
    BY <1>4, FS_RemoveElement DEF BudgetOK
  <2>2. Tokens(k)' \in SUBSET V
    BY <1>5
  <2> HIDE DEF V
  <2>3. IsFiniteSet(Tokens(k)') /\ Cardinality(Tokens(k)') <= Cardinality(V)
    BY <2>1, <2>2, FS_Subset
  <2>4. QED
    BY <2>1, <2>3, FS_CardinalityType
<1>7. Limit \in Nat /\ executed[k] + Cardinality(Tokens(k)) + RowLeft(k) <= Limit
  BY BudgetTypes DEF BudgetOK
<1>8. Limit = MaxAttempts * (lastId'[k] + replays'[k]) /\ RowLeft(k)' = RowLeft(k)
  BY <1>1 DEF RowLeft
<1> HIDE DEF Limit
<1>9. executed'[k] + Cardinality(Tokens(k)') + RowLeft(k)' <= Limit
  BY <1>2, <1>6, <1>7, <1>8, BudgetTypes
<1>10. QED
  BY <1>6, <1>8, <1>9 DEF BudgetOK

\* A tick gives the attempts it has left back to the row.
LEMMA BudgetReturned ==
  ASSUME TypeOK, TypeOK', AttemptsLeft, AttemptsLeft', NEW k \in Keys, BudgetOK(k),
         NEW t \in Ticks, Retry(t), cur[t].key = k, Mine(t)
  PROVE  BudgetOK(k)'
<1> DEFINE a == cur[t].attempts + 1
           Own == {t} \X ((a + 1)..MaxAttempts)
           Limit == MaxAttempts * (lastId[k] + replays[k])
<1>1. /\ pc[t] = "failed" /\ cur[t].attempts \in Nat /\ a \in Nat /\ a < MaxAttempts
      /\ executed' = executed /\ lastId' = lastId /\ replays' = replays
  BY BudgetTypes DEF Retry, LastAttempt, TypeOK, Claimed, audit
<1>2. IsFiniteSet(Own) /\ Cardinality(Own) = MaxAttempts - a
  <2>1. a <= MaxAttempts
    BY <1>1, BudgetTypes
  <2>2. QED
    BY <1>1, <2>1, OwnTokens
<1>3. /\ pc'[t] = "idle"
      /\ \A s \in Ticks : pc'[s] # "idle" => s # t /\ pc[s] = pc'[s] /\ cur'[s] = cur[s]
  BY DEF Retry, Stop, TypeOK
<1>4. Own \subseteq Tokens(k)
  <2>1. Spent(t) = a /\ Holds(t, k)
    BY <1>1 DEF Spent, Holds
  <2>2. \A n \in (a + 1)..MaxAttempts : n \in 1..MaxAttempts /\ a < n
    BY <1>1, BudgetTypes
  <2> HIDE DEF a
  <2>3. QED
    BY <2>1, <2>2 DEF Tokens
<1>5. Tokens(k)' \subseteq Tokens(k) \ Own
  <2>1. \A s \in Ticks : Holds(s, k)' => s # t /\ Holds(s, k) /\ Spent(s)' = Spent(s)
    BY <1>3 DEF Holds, Spent
  <2>2. QED
    BY <2>1 DEF Tokens
<1>6. RowLeft(k)' = MaxAttempts - a
  <2>1. row' = [row EXCEPT ![k] = [row[k] EXCEPT
                  !.status = "pending", !.attempts = a, !.due = FALSE]]
    BY DEF Retry, WriteMine
  <2>2. row'[k].status = "pending" /\ row'[k].attempts = a
    <3> HIDE DEF a
    <3>1. QED
      BY <2>1 DEF TypeOK, Row
  <2>3. QED
    BY <2>2 DEF RowLeft
<1> HIDE DEF a, Own
<1>7. /\ IsFiniteSet(Tokens(k)') /\ Cardinality(Tokens(k)') \in Nat
      /\ Cardinality(Tokens(k)') <= Cardinality(Tokens(k)) - (MaxAttempts - a)
  <2> DEFINE V == Tokens(k) \ Own
  <2>1. Tokens(k) \cap Own = Own
    BY <1>4
  <2>2. IsFiniteSet(V) /\ Cardinality(V) = Cardinality(Tokens(k)) - Cardinality(Own)
    <3>1. IsFiniteSet(Tokens(k))
      BY DEF BudgetOK
    <3>2. /\ IsFiniteSet(V)
          /\ Cardinality(V) = Cardinality(Tokens(k)) - Cardinality(Tokens(k) \cap Own)
      BY <3>1, FS_Difference, Zenon
    <3>3. QED
      BY <2>1, <3>2, Zenon
  <2>3. Tokens(k)' \in SUBSET V
    BY <1>5
  <2> HIDE DEF V
  <2>4. IsFiniteSet(Tokens(k)') /\ Cardinality(Tokens(k)') <= Cardinality(V)
    BY <2>2, <2>3, FS_Subset
  <2>5. QED
    BY <1>2, <2>2, <2>4, FS_CardinalityType
<1>8. Limit \in Nat /\ executed[k] + Cardinality(Tokens(k)) + RowLeft(k) <= Limit
  BY BudgetTypes DEF BudgetOK
<1>9. Limit = MaxAttempts * (lastId'[k] + replays'[k])
  BY <1>1
<1> HIDE DEF Limit
<1>10. executed'[k] + Cardinality(Tokens(k)') + RowLeft(k)' <= Limit
  BY <1>1, <1>6, <1>7, <1>8, BudgetTypes
<1>11. QED
  BY <1>7, <1>9, <1>10 DEF BudgetOK

\* Nothing waits and nothing is held without an attempt left.
LEMMA AttemptsStep ==
  ASSUME TypeOK, AttemptsLeft, [Next]_vars
  PROVE  AttemptsLeft'
<1> USE DEF local, audit
<1>1. TypeOK' /\ MaxAttempts \in Nat \ {0}
  BY NextTypes, SettlementAssumption DEF SettlementAssumption
<1>2. ASSUME \A k \in Keys : row'[k] = row[k] \/ row'[k].status # "pending" \/ row'[k].attempts = 0,
             \A t \in Ticks : pc'[t] # "idle" => pc[t] # "idle" /\ cur'[t] = cur[t]
      PROVE  AttemptsLeft'
  BY <1>1, <1>2 DEF AttemptsLeft
<1>3. CASE UNCHANGED vars
  BY <1>2, <1>3 DEF vars
<1>4. ASSUME NEW t \in Ticks, Step(t) PROVE AttemptsLeft'
  <2>1. CASE Execute(t) \/ ExecuteFails(t) \/ MarkDoneFails(t) \/ Bury(t)
    <3>1. row' = row /\ cur' = cur /\ pc[t] # "idle"
      BY <2>1 DEF Execute, ExecuteFails, MarkDoneFails, Bury, Goto
    <3>2. \A s \in Ticks : pc'[s] # "idle" => pc[s] # "idle"
      BY <2>1, <3>1 DEF Execute, ExecuteFails, MarkDoneFails, Bury, Goto, TypeOK
    <3>3. QED
      BY <1>2, <3>1, <3>2
  <2>2. CASE MarkDone(t) \/ Delete(t)
    <3>1. pc[t] # "idle" /\ Stop(t)
      BY <2>2 DEF MarkDone, Delete
    <3>2. [row[cur[t].key] EXCEPT !.status = "done"].status = "done" /\ NoRow.status = "absent"
      BY <3>1, WrittenTypes DEF NoRow, Row, TypeOK, Claimed
    <3>3. \A k \in Keys : row'[k] = row[k] \/ row'[k].status # "pending"
      BY <2>2, <3>1, <3>2, WriteTypes, WrittenTypes, RowTypes DEF MarkDone, Delete
    <3>4. QED
      BY <1>2, <3>1, <3>3, StopTypes
  <2>3. CASE Retry(t)
    <3>1. pc[t] # "idle" /\ Stop(t) /\ cur[t].attempts \in Nat /\ cur[t].attempts + 1 < MaxAttempts
      BY <1>1, <2>3 DEF Retry, LastAttempt, TypeOK, Claimed
    <3>2. [row[cur[t].key] EXCEPT !.status = "pending", !.attempts = cur[t].attempts + 1,
             !.due = FALSE].attempts = cur[t].attempts + 1
      BY <3>1 DEF Row, TypeOK, Claimed
    <3>3. \A k \in Keys : row'[k] = row[k] \/ row'[k].attempts = cur[t].attempts + 1
      BY <2>3, <3>1, <3>2, WriteTypes, WrittenTypes DEF Retry
    <3>4. \A s \in Ticks : pc'[s] # "idle" => pc[s] # "idle" /\ cur'[s] = cur[s]
      BY <3>1, StopTypes
    <3>5. QED
      BY <3>1, <3>3, <3>4 DEF AttemptsLeft
  <2>4. CASE BuriedBefore(t)
    BY <1>2, <2>4, StopTypes DEF BuriedBefore
  <2>5. QED
    BY <1>4, <2>1, <2>2, <2>3, <2>4 DEF Step
<1>5. ASSUME NEW t \in Ticks, NEW k \in Keys, Claim(t, k) PROVE AttemptsLeft'
  <2>1. /\ row[k].status = "pending" /\ cur'[t].attempts = row[k].attempts
        /\ \A s \in Ticks : s # t => pc'[s] = pc[s] /\ cur'[s] = cur[s]
    BY <1>5 DEF Claim, Claimable, TypeOK
  <2>2. \A j \in Keys : row'[j] = row[j] \/ row'[j].status # "pending"
    BY <1>5 DEF Claim, TypeOK, Row
  <2>3. QED
    BY <2>1, <2>2 DEF AttemptsLeft
<1>6. ASSUME NEW i \in Items, MarkPaid(i) \/ MarkUnpaid(i) PROVE AttemptsLeft'
  BY <1>2, <1>6 DEF MarkPaid, MarkUnpaid, Enqueued, Fresh
<1>7. ASSUME NEW k \in Keys, BackoffEnds(k) PROVE AttemptsLeft'
  <2>1. \A j \in Keys : row'[j].status = row[j].status /\ row'[j].attempts = row[j].attempts
    BY <1>7 DEF BackoffEnds, TypeOK, Row
  <2>2. QED
    BY <1>7, <2>1 DEF AttemptsLeft, BackoffEnds
<1>8. ASSUME NEW k \in Keys, Replay(k) PROVE AttemptsLeft'
  <2>1. \A j \in Keys : row'[j] = row[j] \/ row'[j].attempts = 0
    BY <1>8 DEF Replay, Fresh, TypeOK
  <2>2. QED
    BY <1>2, <1>8, <2>1 DEF Replay
<1>9. CASE Crash
  BY <1>2, <1>9, StopTypes DEF Crash
<1>10. QED
  BY <1>3, <1>4, <1>5, <1>6, <1>7, <1>8, <1>9 DEF Next

\* A step of one tick keeps the budget of every event.
LEMMA StepBudget ==
  ASSUME BudgetInv, TypeOK', AttemptsLeft', NEW t \in Ticks, Step(t), NEW k \in Keys
  PROVE  BudgetOK(k)'
<1> USE DEF audit
<1>1. TypeOK /\ AttemptsLeft /\ BudgetOK(k) /\ MaxAttempts \in Nat
  BY BudgetTypes DEF BudgetInv
<1>2. pc[t] # "idle" /\ lastId' = lastId /\ replays' = replays
  BY DEF Step, Execute, ExecuteFails, MarkDone, MarkDoneFails, Retry, Bury, Delete, BuriedBefore
<1>3. /\ cur[t].attempts \in Nat /\ cur[t].key \in Keys
      /\ \A s \in Ticks : pc[s] # "idle" => Spent(s) \in Nat
  BY <1>1, <1>2 DEF TypeOK, Claimed, Spent
<1>4. CASE Execute(t) /\ cur[t].key = k
  BY <1>1, <1>4, BudgetExecuted
<1>5. CASE \/ Execute(t) /\ cur[t].key # k
           \/ ExecuteFails(t) \/ MarkDoneFails(t) \/ Bury(t)
  <2>1. cur' = cur /\ row' = row /\ executed'[k] = executed[k]
    BY <1>1, <1>3, <1>5 DEF Execute, ExecuteFails, MarkDoneFails, Bury, Goto, TypeOK
  <2>2. /\ pc'[t] # "execute" /\ \A s \in Ticks : s # t => pc'[s] = pc[s]
    BY <1>1, <1>5 DEF Execute, ExecuteFails, MarkDoneFails, Bury, Goto, TypeOK
  <2>3. \A s \in Ticks : Holds(s, k)' => Holds(s, k)
    BY <1>2, <2>1, <2>2 DEF Holds
  <2>4. Spent(t)' = cur[t].attempts + 1 /\ \A s \in Ticks : s # t => Spent(s)' = Spent(s)
    BY <2>1, <2>2 DEF Spent
  <2>5. Spent(t)' >= Spent(t)
    BY <1>3, <2>4 DEF Spent
  <2>6. \A s \in Ticks : Holds(s, k)' => Holds(s, k) /\ Spent(s)' >= Spent(s)
    BY <1>3, <2>3, <2>4, <2>5 DEF Holds
  <2>7. RowLeft(k)' <= RowLeft(k)
    BY <1>1, <2>1, BudgetTypes DEF RowLeft
  <2>8. QED
    BY <1>1, <1>2, <2>1, <2>6, <2>7, BudgetShrinks
<1>6. CASE Retry(t) /\ Mine(t) /\ cur[t].key = k
  BY <1>1, <1>6, BudgetReturned
<1>7. ASSUME \A s \in Ticks : pc'[s] # "idle" => pc[s] = pc'[s] /\ cur'[s] = cur[s],
             executed' = executed, row'[k] = row[k] \/ row'[k].status # "pending"
      PROVE  BudgetOK(k)'
  <2>1. \A s \in Ticks : Holds(s, k)' => Holds(s, k) /\ Spent(s)' = Spent(s)
    BY <1>7 DEF Holds, Spent
  <2>2. \A s \in Ticks : Holds(s, k)' => Holds(s, k) /\ Spent(s)' >= Spent(s)
    BY <1>3, <2>1 DEF Holds
  <2>3. RowLeft(k)' <= RowLeft(k)
    BY <1>1, <1>7, BudgetTypes DEF RowLeft
  <2>4. QED
    BY <1>1, <1>2, <1>7, <2>2, <2>3, BudgetShrinks
<1>8. CASE Retry(t) /\ ~(Mine(t) /\ cur[t].key = k)
  <2>1. row'[k] = row[k]
    BY <1>1, <1>3, <1>8 DEF Retry, WriteMine, TypeOK
  <2>2. QED
    BY <1>1, <1>7, <1>8, <2>1, StopTypes DEF Retry
<1>9. CASE MarkDone(t) \/ Delete(t)
  <2>1. [row[cur[t].key] EXCEPT !.status = "done"].status = "done" /\ NoRow.status = "absent"
    BY <1>1, <1>3 DEF NoRow, Row, TypeOK
  <2>2. row'[k] = row[k] \/ row'[k].status # "pending"
    BY <1>1, <1>2, <1>9, <2>1, WriteTypes, WrittenTypes, RowTypes DEF MarkDone, Delete
  <2>3. QED
    BY <1>1, <1>7, <1>9, <2>2, StopTypes DEF MarkDone, Delete
<1>10. CASE BuriedBefore(t)
  BY <1>1, <1>7, <1>10, StopTypes DEF BuriedBefore
<1>11. QED
  BY <1>4, <1>5, <1>6, <1>8, <1>9, <1>10 DEF Step

\* The budget of every event holds, whoever steps.
LEMMA BudgetStep == BudgetInv /\ [Next]_vars => BudgetInv'
<1> SUFFICES ASSUME BudgetInv, [Next]_vars PROVE BudgetInv'
  OBVIOUS
<1> USE DEF local, audit
<1>1. TypeOK /\ TypeOK' /\ AttemptsLeft /\ AttemptsLeft' /\ MaxAttempts \in Nat
  BY NextTypes, AttemptsStep, SettlementAssumption DEF BudgetInv, SettlementAssumption
<1>2. SUFFICES ASSUME NEW k \in Keys PROVE BudgetOK(k)'
  BY <1>1 DEF BudgetInv
<1>3. BudgetOK(k)
  BY DEF BudgetInv
<1>4. \A s \in Ticks : pc[s] # "idle" => Spent(s) \in Nat
  BY <1>1 DEF TypeOK, Claimed, Spent
<1>5. ASSUME \A s \in Ticks : Holds(s, k)' => pc'[s] = pc[s] /\ cur'[s] = cur[s],
             UNCHANGED <<executed, lastId, replays>>, RowLeft(k)' <= RowLeft(k)
      PROVE  BudgetOK(k)'
  <2>1. \A s \in Ticks : Holds(s, k)' => Holds(s, k) /\ Spent(s)' = Spent(s)
    BY <1>5 DEF Holds, Spent
  <2>2. \A s \in Ticks : Holds(s, k)' => Holds(s, k) /\ Spent(s)' >= Spent(s)
    BY <1>4, <2>1 DEF Holds
  <2>3. QED
    BY <1>1, <1>3, <1>5, <2>2, BudgetShrinks
<1>6. row'[k] = row[k] => RowLeft(k)' <= RowLeft(k)
  BY <1>1, <1>3, BudgetTypes DEF RowLeft
<1>7. CASE UNCHANGED vars
  BY <1>5, <1>6, <1>7 DEF vars
<1>8. ASSUME NEW t \in Ticks, NEW j \in Keys, Claim(t, j) PROVE BudgetOK(k)'
  <2>1. CASE j = k
    BY <1>1, <1>3, <1>8, <2>1, BudgetClaimed
  <2>2. CASE j # k
    <3>1. row'[k] = row[k] /\ UNCHANGED <<executed, lastId, replays>>
      BY <1>1, <1>8, <2>2 DEF Claim, TypeOK
    <3>2. cur'[t].key = j /\ \A s \in Ticks : s # t => pc'[s] = pc[s] /\ cur'[s] = cur[s]
      BY <1>1, <1>8 DEF Claim, TypeOK
    <3>3. QED
      BY <1>5, <1>6, <2>2, <3>1, <3>2 DEF Holds
  <2>3. QED
    BY <2>1, <2>2
<1>9. ASSUME NEW i \in Items, MarkPaid(i) PROVE BudgetOK(k)'
  <2>1. UNCHANGED <<pc, cur, executed, replays>> /\ lastId[k] \in Nat /\ replays[k] \in Nat
    BY <1>1, <1>9 DEF MarkPaid, TypeOK
  <2>2. CASE k[1] = i /\ row[k].status = "absent"
    <3>1. lastId'[k] = lastId[k] + 1
      BY <1>9, <2>2 DEF MarkPaid
    <3>2. lastId'[k] + replays'[k] > lastId[k] + replays[k]
      BY <2>1, <3>1
    <3>3. QED
      BY <1>1, <1>3, <2>1, <3>2, BudgetPaid
  <2>3. CASE ~(k[1] = i /\ row[k].status = "absent")
    <3>1. lastId'[k] = lastId[k] /\ row'[k] = row[k]
      BY <1>9, <2>3 DEF MarkPaid, Enqueued
    <3>2. RowLeft(k)' <= RowLeft(k)
      BY <1>6, <3>1
    <3>3. \A s \in Ticks : Holds(s, k)' => Holds(s, k) /\ Spent(s)' >= Spent(s)
      BY <1>4, <2>1 DEF Holds, Spent
    <3>4. QED
      BY <1>1, <1>3, <2>1, <3>1, <3>2, <3>3, BudgetShrinks
  <2>4. QED
    BY <2>2, <2>3
<1>10. ASSUME NEW i \in Items, MarkUnpaid(i) PROVE BudgetOK(k)'
  BY <1>5, <1>6, <1>10 DEF MarkUnpaid
<1>11. ASSUME NEW j \in Keys, BackoffEnds(j) PROVE BudgetOK(k)'
  <2>1. row'[k].status = row[k].status /\ row'[k].attempts = row[k].attempts
    BY <1>1, <1>11 DEF BackoffEnds, TypeOK, Row
  <2>2. RowLeft(k)' <= RowLeft(k)
    BY <1>1, <1>3, <2>1, BudgetTypes DEF RowLeft
  <2>3. QED
    BY <1>5, <1>11, <2>2 DEF BackoffEnds
<1>12. ASSUME NEW j \in Keys, Replay(j) PROVE BudgetOK(k)'
  <2>1. UNCHANGED <<pc, cur, executed>> /\ lastId[k] \in Nat /\ replays[k] \in Nat
    BY <1>1, <1>12 DEF Replay, TypeOK
  <2>2. CASE j = k
    <3>1. replays'[k] = replays[k] + 1 /\ lastId'[k] \in {lastId[k], lastId[k] + 1}
      BY <1>1, <1>12, <2>2 DEF Replay, TypeOK
    <3>2. lastId'[k] + replays'[k] > lastId[k] + replays[k]
      BY <2>1, <3>1
    <3>3. QED
      BY <1>1, <1>3, <2>1, <3>2, BudgetPaid
  <2>3. CASE j # k
    <3>1. row'[k] = row[k] /\ lastId'[k] = lastId[k] /\ replays'[k] = replays[k]
      BY <1>1, <1>12, <2>3 DEF Replay, TypeOK
    <3>2. RowLeft(k)' <= RowLeft(k)
      BY <1>6, <3>1
    <3>3. \A s \in Ticks : Holds(s, k)' => Holds(s, k) /\ Spent(s)' >= Spent(s)
      BY <1>4, <2>1 DEF Holds, Spent
    <3>4. QED
      BY <1>1, <1>3, <2>1, <3>1, <3>2, <3>3, BudgetShrinks
  <2>4. QED
    BY <2>2, <2>3
<1>13. CASE Crash
  <2>1. \A s \in Ticks : pc'[s] # "idle" => pc[s] = pc'[s] /\ cur'[s] = cur[s]
    BY <1>1, <1>13, StopTypes DEF Crash
  <2>2. QED
    BY <1>5, <1>6, <1>13, <2>1 DEF Crash, Holds
<1>14. ASSUME NEW t \in Ticks, Step(t) PROVE BudgetOK(k)'
  BY <1>1, <1>14, StepBudget
<1>15. QED
  BY <1>7, <1>8, <1>9, <1>10, <1>11, <1>12, <1>13, <1>14 DEF Next

LEMMA InitBudget == Init => BudgetInv
<1> SUFFICES ASSUME Init PROVE BudgetInv
  OBVIOUS
<1>1. TypeOK /\ AttemptsLeft
  BY InitTypes DEF Init, AttemptsLeft, NoRow
<1>2. ASSUME NEW k \in Keys PROVE BudgetOK(k)
  <2>1. Tokens(k) = {}
    BY DEF Init, Tokens, Holds
  <2>2. IsFiniteSet(Tokens(k)) /\ Cardinality(Tokens(k)) = 0
    BY <2>1, FS_EmptySet
  <2>3. RowLeft(k) = 0 /\ executed[k] = 0 /\ lastId[k] = 0 /\ replays[k] = 0
    BY <1>2 DEF Init, RowLeft, NoRow
  <2>4. MaxAttempts \in Nat
    BY SettlementAssumption DEF SettlementAssumption
  <2>5. MaxAttempts * (lastId[k] + replays[k]) = 0
    BY <2>3, <2>4
  <2>6. QED
    BY <2>2, <2>3, <2>5 DEF BudgetOK
<1>3. QED
  BY <1>1, <1>2 DEF BudgetInv

\* Each insertion of a row and each replay pays for MAX_ATTEMPTS executions,
\* however many ticks a replay lets work on one event at once.
THEOREM ExecutionsArePaid == Spec => []ExecutionsBounded
<1>1. BudgetInv => ExecutionsBounded
  <2>1. SUFFICES ASSUME BudgetInv, NEW k \in Keys
                 PROVE  executed[k] <= MaxAttempts * (lastId[k] + replays[k])
    BY DEF ExecutionsBounded
  <2> DEFINE Limit == MaxAttempts * (lastId[k] + replays[k])
  <2>2. TypeOK /\ AttemptsLeft /\ BudgetOK(k)
    BY <2>1 DEF BudgetInv
  <2>3. Limit \in Nat /\ executed[k] + Cardinality(Tokens(k)) + RowLeft(k) <= Limit
    BY <2>2, BudgetTypes DEF BudgetOK
  <2> HIDE DEF Limit
  <2>4. executed[k] <= Limit
    BY <2>2, <2>3, BudgetTypes
  <2>5. QED
    BY <2>4 DEF Limit
<1>2. QED
  BY <1>1, InitBudget, BudgetStep, PTL DEF Spec

-----------------------------------------------------------------------------
(* The rows of the dead.                                                   *)

\* Who works on other events neither writes the row of this one, nor buries
\* it, nor takes it up.
LEMMA StepElsewhere ==
  ASSUME TypeOK, NEW t \in Ticks, NEW k \in Keys, ~Holds(t, k), Step(t)
  PROVE  /\ row'[k] = row[k] /\ dlq'[k] = dlq[k]
         /\ \A s \in Ticks : Holds(s, k)' => Holds(s, k)
<1> USE DEF local, audit
<1>1. pc[t] # "idle" /\ cur[t].key # k
  BY DEF Holds, Step, Execute, ExecuteFails, MarkDone, MarkDoneFails, Retry, Bury, Delete,
         BuriedBefore
<1>2. ASSUME NEW r \in Row, WriteMine(t, r) PROVE row'[k] = row[k]
  BY <1>1, <1>2, WriteTypes
<1>3. row'[k] = row[k]
  <2>1. CASE MarkDone(t)
    BY <1>1, <1>2, <2>1, WrittenTypes DEF MarkDone
  <2>2. CASE Retry(t)
    BY <1>1, <1>2, <2>2, WrittenTypes DEF Retry
  <2>3. CASE Delete(t)
    BY <1>2, <2>3, RowTypes DEF Delete
  <2>4. CASE Execute(t) \/ ExecuteFails(t) \/ MarkDoneFails(t) \/ Bury(t) \/ BuriedBefore(t)
    BY <2>4 DEF Execute, ExecuteFails, MarkDoneFails, Bury, BuriedBefore
  <2> QED BY <2>1, <2>2, <2>3, <2>4 DEF Step
<1>4. dlq'[k] = dlq[k]
  <2>1. CASE Bury(t)
    BY <1>1, <2>1 DEF Bury, TypeOK
  <2>2. CASE ~Bury(t)
    BY <2>2 DEF Step, Execute, ExecuteFails, MarkDone, MarkDoneFails, Retry, Delete,
                BuriedBefore
  <2> QED BY <2>1, <2>2
<1>5. ASSUME NEW s \in Ticks, Holds(s, k)' PROVE Holds(s, k)
  <2>1. CASE BuriedBefore(t)
    <3>1. PICK D \in SUBSET Busy : Die(D)
      BY <2>1 DEF BuriedBefore
    <3>2. s \notin D
      BY <1>5, <3>1 DEF Die, Holds
    <3> QED BY <1>5, <3>1, <3>2 DEF Die, Holds
  <2>2. CASE s = t
    <3>1. CASE MarkDone(t) \/ Retry(t) \/ Delete(t)
      BY <1>5, <2>2, <3>1 DEF MarkDone, Retry, Delete, Stop, Holds, TypeOK
    <3>2. CASE Execute(t) \/ ExecuteFails(t) \/ MarkDoneFails(t) \/ Bury(t)
      BY <1>1, <1>5, <2>2, <3>2
         DEF Execute, ExecuteFails, MarkDoneFails, Bury, Goto, Holds, TypeOK
    <3> QED BY <2>1, <3>1, <3>2 DEF Step, BuriedBefore
  <2>3. CASE s # t /\ ~BuriedBefore(t)
    <3>1. pc'[s] = pc[s] /\ cur'[s] = cur[s]
      BY <2>3 DEF Step, Execute, ExecuteFails, MarkDone, MarkDoneFails, Retry, Bury, Delete,
                  Stop, Goto, TypeOK
    <3> QED BY <1>5, <3>1 DEF Holds
  <2> QED BY <2>1, <2>2, <2>3
<1> QED BY <1>3, <1>4, <1>5

LEMMA AbandonedStep ==
  ASSUME TypeOK, [Next]_vars, NEW k \in Keys, Abandoned(k)
  PROVE  Abandoned(k)'
<1> USE DEF local, audit
<1>1. /\ row[k].status = "processing" /\ dlq[k] = {}
      /\ \A s \in Ticks : ~Holds(s, k)
  BY DEF Abandoned, Stranded
<1>2. SUFFICES /\ row'[k].status = "processing" /\ dlq'[k] = {}
               /\ \A s \in Ticks : ~Holds(s, k)'
  BY DEF Abandoned, Stranded
<1>3. CASE UNCHANGED vars
  BY <1>1, <1>3 DEF vars, Holds
<1>4. ASSUME NEW t \in Ticks, Step(t)
      PROVE  /\ row'[k].status = "processing" /\ dlq'[k] = {}
             /\ \A s \in Ticks : ~Holds(s, k)'
  BY <1>1, <1>4, StepElsewhere
<1>5. ASSUME NEW t \in Ticks, NEW j \in Keys, Claim(t, j)
      PROVE  /\ row'[k].status = "processing" /\ dlq'[k] = {}
             /\ \A s \in Ticks : ~Holds(s, k)'
  <2>1. j # k
    BY <1>1, <1>5 DEF Claim, Claimable
  <2>2. row'[k] = row[k] /\ dlq' = dlq
    BY <1>5, <2>1 DEF Claim, TypeOK
  <2>3. /\ cur'[t].key = j
        /\ \A s \in Ticks \ {t} : pc'[s] = pc[s] /\ cur'[s] = cur[s]
    BY <1>5 DEF Claim, TypeOK
  <2> QED BY <1>1, <2>1, <2>2, <2>3 DEF Holds
<1>6. ASSUME NEW i \in Items, MarkPaid(i) \/ MarkUnpaid(i)
      PROVE  /\ row'[k].status = "processing" /\ dlq'[k] = {}
             /\ \A s \in Ticks : ~Holds(s, k)'
  <2>1. row'[k] = row[k] /\ dlq' = dlq /\ pc' = pc /\ cur' = cur
    BY <1>1, <1>6 DEF MarkPaid, MarkUnpaid, Enqueued, TypeOK
  <2> QED BY <1>1, <2>1 DEF Holds
<1>7. ASSUME NEW j \in Keys, BackoffEnds(j) \/ Replay(j)
      PROVE  /\ row'[k].status = "processing" /\ dlq'[k] = {}
             /\ \A s \in Ticks : ~Holds(s, k)'
  <2>1. j # k
    BY <1>1, <1>7 DEF BackoffEnds, Replay
  <2>2. row'[k] = row[k]
    BY <1>7, <2>1 DEF BackoffEnds, Replay, TypeOK
  <2>3. dlq' = dlq /\ pc' = pc /\ cur' = cur
    BY <1>7 DEF BackoffEnds, Replay
  <2> QED BY <1>1, <2>2, <2>3 DEF Holds
<1>8. CASE Crash
  <2>1. PICK D \in SUBSET Busy : Die(D)
    BY <1>8 DEF Crash
  <2>2. row' = row /\ dlq' = dlq
    BY <1>8 DEF Crash
  <2>3. ASSUME NEW s \in Ticks PROVE ~Holds(s, k)'
    BY <1>1, <2>1 DEF Die, Holds
  <2> QED BY <1>1, <2>2, <2>3
<1> QED BY <1>3, <1>4, <1>5, <1>6, <1>7, <1>8 DEF Next

\* A row left 'processing' by a process that died, of an event that has no dead
\* letter, stays so: no tick claims it, marking the instalment paid again
\* conflicts with it, and no admin can replay it.
THEOREM AbandonedRowsStay == Spec => AbandonedForGood
<1>1. TypeOK /\ [Next]_vars => [\A k \in Keys : Abandoned(k) => Abandoned(k)']_vars
  BY AbandonedStep
<1> QED BY <1>1, TypeCorrect, PTL DEF Spec, AbandonedForGood

=============================================================================
