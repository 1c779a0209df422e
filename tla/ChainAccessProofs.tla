-------------------------- MODULE ChainAccessProofs --------------------------
(***************************************************************************)
(* The indexers pass over no receipt, and show a transaction behind the    *)
(* chain only for a reason that is named, for any numbers of processes,    *)
(* ledgers and mishaps.  The breaker around their polls, and around the    *)
(* other calls, keeps its invariant, for any callers and thresholds.       *)
(* The theorems are of two specifications, Spec and BreakerSpec.           *)
(***************************************************************************)
EXTENDS IndexersProps, CircuitBreakerProps, FiniteSetTheorems, WellFoundedInduction, TLAPS

-----------------------------------------------------------------------------
(* The greatest of some ledgers.                                           *)

\* Every set of natural numbers has a least one.
LEMMA LeastOf ==
  ASSUME NEW T, T \subseteq Nat, T # {}
  PROVE  \E x \in T : \A y \in T : x <= y
<1> DEFINE R == OpToRel(<, Nat)
<1>1. IsWellFoundedOn(R, Nat)
  BY NatLessThanWellFounded
<1>2. \A x, y \in Nat : x < y => <<x, y>> \in R
  BY DEF OpToRel
<1> HIDE DEF R
<1>3. PICK x \in T : \A y \in T : ~(<<y, x>> \in R)
  BY <1>1, WFMin
<1>4. \A y \in T : ~(y < x)
  BY <1>2, <1>3, Zenon
<1> QED BY <1>4

\* The least of the upper bounds is a member.
LEMMA MaxOf ==
  ASSUME NEW n \in Nat, NEW S, S \subseteq 0 .. n, S # {}
  PROVE  Max(S) \in S /\ \A y \in S : y <= Max(S)
<1> DEFINE T == {m \in Nat : \A y \in S : y <= m}
<1>1. T \subseteq Nat /\ n \in T
  OBVIOUS
<1> HIDE DEF T
<1>2. PICK m \in T : \A k \in T : m <= k
  BY <1>1, LeastOf
<1>3. m \in Nat /\ \A y \in S : y <= m
  BY <1>2 DEF T
<1>4. m \in S
  <2> SUFFICES ASSUME m \notin S PROVE FALSE
    OBVIOUS
  <2>1. \A y \in S : y <= m - 1 /\ y \in Nat
    BY <1>3
  <2>2. m - 1 \in Nat
    <3>1. PICK y \in S : TRUE
      OBVIOUS
    <3> QED BY <1>3, <2>1, <3>1
  <2>3. m - 1 \in T
    BY <2>1, <2>2 DEF T
  <2> QED BY <1>2, <1>3, <2>3
<1>5. \E x \in S : \A y \in S : x >= y
  BY <1>3, <1>4
<1> QED BY <1>5 DEF Max

\* A page that is not empty has a last event, up to which it is saved.
LEMMA PageMax ==
  ASSUME TypeOK, NEW i \in Indexers, page[i] # {}
  PROVE  /\ Max(page[i]) \in page[i] /\ \A l \in page[i] : l <= Max(page[i])
         /\ Max(page[i]) \in Ledgers
<1>1. page[i] \subseteq Ledgers /\ page[i] \subseteq 0 .. MaxLedger /\ MaxLedger \in Nat
  BY IndexersAssumption DEF TypeOK, Ledgers
<1> QED BY <1>1, MaxOf

-----------------------------------------------------------------------------
(* The chain, and the pages that are read of it.                           *)

IsEvent(k, l) == IF k = "receipt" THEN l \in receipts ELSE ops[l] # "none"

\* A transaction is queued once, and over once after that; nothing is on the
\* chain above its last ledger.
ChainInv ==
  /\ receipts \subseteq 1 .. latest
  /\ \A l \in Ledgers : ops[l] # "none" => l <= latest
  /\ \A l, m \in Ledgers : ops[l] # "none" /\ ops[m] = ops[l] => l = m
  /\ \A l, m \in Ledgers : ops[l] = "queued" /\ ops[m] = "over" => l < m
  /\ \A m \in Ledgers : ops[m] = "over" => \E l \in Ledgers : ops[l] = "queued"

PlaceInv ==
  /\ \A k \in Kinds : checkpoint[k] <= latest
  /\ \A i \in Indexers : last[i] <= latest

\* A page has every event above what was seen, up to any of its own; those that
\* were applied come before those still to be.
PageOK(i) ==
  /\ stage[i] \in {"off", "wait"} => page[i] = {}
  /\ stage[i] \in {"store", "save"} => page[i] # {}
  /\ \A l \in page[i] : IsEvent(i[2], l) /\ last[i] < l
  /\ \A l \in Ledgers, m \in page[i] :
       IsEvent(i[2], l) /\ last[i] < l /\ l <= m => l \in page[i]
  /\ todo[i] \subseteq page[i]
  /\ stage[i] # "store" \/ i[2] = "receipt" => todo[i] = {}
  /\ \A l \in page[i] \ todo[i], m \in todo[i] : l < m

WalkInv == TypeOK /\ ChainInv /\ PlaceInv /\ \A i \in Indexers : PageOK(i)

\* What the newest event up to a ledger says.
LEMMA StatusSays ==
  ASSUME TypeOK, ChainInv, NEW l \in 0 .. MaxLedger
  PROVE  /\ StatusAt(l) \in OpTypes
         /\ StatusAt(l) = "over" <=> \E m \in Ledgers : m <= l /\ ops[m] = "over"
         /\ StatusAt(l) = "none" <=> \A m \in Ledgers : m <= l => ops[m] = "none"
<1> DEFINE past == {m \in 1 .. l : ops[m] # "none"}
           top == Max(past)
<1>1. past \subseteq Ledgers /\ past \subseteq 0 .. l /\ l \in Nat
      /\ \A m \in Ledgers : m <= l <=> m \in 1 .. l
  BY IndexersAssumption DEF Ledgers
<1>2. \A m \in Ledgers : ops[m] \in OpTypes
  BY DEF TypeOK
<1>3. StatusAt(l) = IF past = {} THEN "none" ELSE ops[top]
  BY DEF StatusAt
<1>4. \A m \in Ledgers : m <= l => (m \in past <=> ops[m] # "none")
  BY <1>1
<1>5. CASE past = {}
  BY <1>3, <1>4, <1>5 DEF OpTypes
<1>6. CASE past # {}
  <2>1. top \in past /\ \A m \in past : m <= top
    BY <1>1, <1>6, MaxOf
  <2>2. top \in Ledgers /\ top <= l /\ ops[top] # "none"
    BY <1>1, <2>1
  <2> HIDE DEF past, top
  <2>3. ASSUME NEW m \in Ledgers, m <= l, ops[m] = "over" PROVE ops[top] = "over"
    <3>1. m <= top
      BY <1>4, <2>1, <2>3
    <3>2. ~(top < m)
      BY <2>2, <2>3, <3>1, IndexersAssumption DEF Ledgers
    <3>3. ops[top] # "queued"
      BY <2>2, <2>3, <3>2 DEF ChainInv
    <3> QED BY <1>2, <2>2, <3>3 DEF OpTypes
  <2> QED BY <1>2, <1>3, <1>6, <2>2, <2>3
<1> QED BY <1>5, <1>6

LEMMA InitWalk == Init => WalkInv
<1> SUFFICES ASSUME Init PROVE WalkInv
  OBVIOUS
<1>0. 0 \in 0 .. MaxLedger /\ 0 \in 0 .. MaxFailures - 1 /\ 0 \in 0 .. MaxMishaps
  BY IndexersAssumption
<1>1. TypeOK
  BY <1>0 DEF Init, TypeOK, OpTypes
<1>2. ChainInv
  BY DEF Init, ChainInv
<1>3. PlaceInv /\ \A i \in Indexers : PageOK(i)
  BY DEF Init, PlaceInv, PageOK
<1> QED BY <1>1, <1>2, <1>3 DEF WalkInv

-----------------------------------------------------------------------------
(* What moves when.                                                        *)

\* A step of one indexer leaves the others where they are.
OthersStay(i) ==
  \A j \in Indexers \ {i} :
    stage'[j] = stage[j] /\ last'[j] = last[j] /\ page'[j] = page[j] /\ todo'[j] = todo[j]

\* A poll that fails, of a process that lives on.
Retries(i) ==
  /\ stage[i] \in {"wait", "save"} \/ (i[2] = "receipt" /\ stage[i] = "store")
  /\ Goto(i, "wait")
  /\ page' = [page EXCEPT ![i] = {}]
  /\ failures' = failures
     \/ (failures[i[1]] + 1 < MaxFailures /\ failures' = [failures EXCEPT ![i[1]] = @ + 1])
  /\ UNCHANGED <<chain, tables, last, todo, skipped, abandoned>>

Moves(i) ==
  \/ Start(i) \/ Read(i) \/ StoreReceipts(i) \/ Save(i) \/ Retries(i)
  \/ \E l \in todo[i] : Apply(i, l) \/ ApplyFails(i, l)

\* Every step but the death of a process is one of the chain, or of one indexer.
LEMMA Steps ==
  ASSUME TypeOK, [Next]_vars
  PROVE  \/ UNCHANGED vars
         \/ \E r \in BOOLEAN, op \in OpTypes : LedgerCloses(r, op)
         \/ \E i \in Indexers : Moves(i) /\ mishaps' \in 0 .. MaxMishaps
         \/ \E p \in Procs : Dies(p) /\ mishaps' \in 0 .. MaxMishaps
<1>1. mishaps \in 0 .. MaxMishaps /\ MaxMishaps \in Nat /\ MaxFailures \in Nat
  BY IndexersAssumption DEF TypeOK
<1>2. Mishap => mishaps' \in 0 .. MaxMishaps
  BY <1>1 DEF Mishap
<1>3. ASSUME NEW i \in Indexers, PollFails(i)
      PROVE  mishaps' \in 0 .. MaxMishaps /\ (Retries(i) \/ \E p \in Procs : Dies(p))
  <2>1. i[1] \in Procs /\ failures[i[1]] \in Nat
    BY IndexersAssumption DEF Indexers, TypeOK
  <2>2. CASE i[2] = "receipt" /\ failures[i[1]] + 1 >= MaxFailures
    BY <1>2, <1>3, <2>1, <2>2 DEF PollFails
  <2>3. CASE ~(i[2] = "receipt" /\ failures[i[1]] + 1 >= MaxFailures)
    <3>1. i[2] = "receipt" => failures[i[1]] + 1 < MaxFailures
      BY <1>1, <2>1, <2>3
    <3> QED BY <1>2, <1>3, <2>3, <3>1 DEF PollFails, Retries
  <2> QED BY <2>2, <2>3
<1>4. ASSUME NEW i \in Indexers, Step(i) PROVE Moves(i) /\ mishaps' \in 0 .. MaxMishaps
  BY <1>1, <1>4 DEF Step, Moves, Start, Read, StoreReceipts, Save, Apply, history
<1>5. ASSUME NEW i \in Indexers, NEW l \in todo[i], ApplyFails(i, l)
      PROVE  Moves(i) /\ mishaps' \in 0 .. MaxMishaps
  BY <1>2, <1>5 DEF Moves, ApplyFails
<1>6. ASSUME NEW p \in Procs, Crash(p) PROVE Dies(p) /\ mishaps' \in 0 .. MaxMishaps
  BY <1>2, <1>6 DEF Crash
<1> QED BY <1>3, <1>4, <1>5, <1>6 DEF Next, Moves

\* What a step of an indexer does to its own place and page, and to the tables.
LEMMA OneMoves ==
  ASSUME WalkInv, NEW i \in Indexers, Moves(i)
  PROVE  /\ OthersStay(i) /\ UNCHANGED chain
         /\ stage'[i] \in {"off", "wait", "store", "save"}
         /\ stage' \in [Indexers -> {"off", "wait", "store", "save"}]
         /\ last' \in [Indexers -> 0 .. MaxLedger]
         /\ page' \in [Indexers -> SUBSET Ledgers] /\ todo' \in [Indexers -> SUBSET Ledgers]
<1> USE DEF Goto, chain, OthersStay
<1>0. /\ stage \in [Indexers -> {"off", "wait", "store", "save"}]
      /\ last \in [Indexers -> 0 .. MaxLedger] /\ checkpoint \in [Kinds -> 0 .. MaxLedger]
      /\ page \in [Indexers -> SUBSET Ledgers] /\ todo \in [Indexers -> SUBSET Ledgers]
      /\ i[2] \in Kinds /\ latest \in 0 .. MaxLedger /\ MaxLedger \in Nat
  BY IndexersAssumption DEF WalkInv, TypeOK, Indexers
<1>1. CASE Start(i)
  BY <1>0, <1>1 DEF Start
<1>2. CASE Read(i)
  <2>1. EventsAbove(i) \subseteq Ledgers
    <3>1. last[i] \in Nat /\ latest \in Nat /\ latest <= MaxLedger
      BY <1>0
    <3> QED BY <1>0, <3>1 DEF EventsAbove, Ledgers
  <2> QED BY <1>0, <1>2, <2>1 DEF Read
<1>3. CASE StoreReceipts(i) \/ Retries(i)
  BY <1>0, <1>3 DEF StoreReceipts, Retries
<1>4. CASE Save(i)
  <2>1. page[i] # {}
    BY <1>4 DEF Save, WalkInv, PageOK
  <2>2. Max(page[i]) \in 0 .. MaxLedger
    BY <1>0, <2>1, PageMax DEF WalkInv, Ledgers
  <2> QED BY <1>0, <1>4, <2>2 DEF Save
<1>5. ASSUME NEW l \in todo[i], Apply(i, l) \/ ApplyFails(i, l)
      PROVE  /\ OthersStay(i) /\ UNCHANGED chain
             /\ stage' \in [Indexers -> {"off", "wait", "store", "save"}]
             /\ last' = last /\ page' = page /\ todo' \in [Indexers -> SUBSET Ledgers]
  BY <1>0, <1>5 DEF Apply, ApplyFails, NextEvent
<1> HIDE DEF Goto, chain, OthersStay
<1> QED BY <1>0, <1>1, <1>2, <1>3, <1>4, <1>5 DEF Moves

LEMMA TypesKept ==
  ASSUME WalkInv, [Next]_vars
  PROVE  TypeOK'
<1>0. /\ TypeOK /\ MaxLedger \in Nat /\ MaxFailures \in Nat \ {0}
      /\ 0 \in 0 .. MaxLedger /\ 0 \in 0 .. MaxFailures - 1
  BY IndexersAssumption DEF WalkInv
<1>1. ASSUME NEW r \in BOOLEAN, NEW op \in OpTypes, LedgerCloses(r, op) PROVE TypeOK'
  <2>1. latest' \in Ledgers /\ latest' \in 0 .. MaxLedger
    BY <1>0, <1>1 DEF LedgerCloses, TypeOK, Ledgers
  <2>2. receipts' \subseteq Ledgers /\ ops' \in [Ledgers -> OpTypes]
    BY <1>0, <1>1, <2>1 DEF LedgerCloses, TypeOK
  <2> QED BY <1>0, <1>1, <2>1, <2>2 DEF LedgerCloses, TypeOK, tables, history
<1>2. ASSUME NEW i \in Indexers, Moves(i), mishaps' \in 0 .. MaxMishaps PROVE TypeOK'
  <2>1. i[1] \in Procs /\ i[2] \in Kinds
    BY DEF Indexers
  <2>2. stored' \subseteq Ledgers /\ row' \in OpTypes /\ checkpoint' \in [Kinds -> 0 .. MaxLedger]
    <3>1. CASE Start(i) \/ Read(i) \/ Retries(i)
      BY <1>0, <3>1 DEF Start, Read, Retries, TypeOK, tables
    <3>2. CASE StoreReceipts(i)
      BY <1>0, <3>2 DEF StoreReceipts, TypeOK
    <3>3. CASE Save(i)
      <4>1. Max(page[i]) \in 0 .. MaxLedger
        BY <1>0, <3>3, PageMax DEF Save, WalkInv, PageOK, Ledgers
      <4> QED BY <1>0, <2>1, <3>3, <4>1 DEF Save, TypeOK
    <3>4. ASSUME NEW l \in todo[i], Apply(i, l) \/ ApplyFails(i, l)
          PROVE  /\ stored' \subseteq Ledgers /\ row' \in OpTypes
                 /\ checkpoint' \in [Kinds -> 0 .. MaxLedger]
      BY <1>0, <3>4 DEF Apply, ApplyFails, TypeOK, tables
    <3> QED BY <1>2, <3>1, <3>2, <3>3, <3>4 DEF Moves
  <2>3. failures' \in [Procs -> 0 .. MaxFailures - 1]
    <3>1. failures \in [Procs -> 0 .. MaxFailures - 1]
      BY <1>0 DEF TypeOK
    <3>2. Succeeds(i) => failures' \in [Procs -> 0 .. MaxFailures - 1]
      BY <1>0, <2>1, <3>1 DEF Succeeds
    <3>3. Retries(i) => failures' \in [Procs -> 0 .. MaxFailures - 1]
      BY <1>0, <2>1, <3>1 DEF Retries
    <3> QED BY <1>2, <3>1, <3>2, <3>3 DEF Moves, Start, Read, StoreReceipts, Save, Apply, ApplyFails
  <2>4. skipped' \subseteq Ledgers /\ abandoned' \in BOOLEAN
    BY <1>0, <1>2
       DEF Moves, Start, Read, StoreReceipts, Save, Apply, ApplyFails, Retries, TypeOK, history
  <2>5. /\ stage' \in [Indexers -> {"off", "wait", "store", "save"}]
        /\ last' \in [Indexers -> 0 .. MaxLedger]
        /\ page' \in [Indexers -> SUBSET Ledgers] /\ todo' \in [Indexers -> SUBSET Ledgers]
        /\ UNCHANGED chain
    BY <1>2, OneMoves
  <2> QED BY <1>0, <1>2, <2>2, <2>3, <2>4, <2>5 DEF TypeOK, chain
<1>3. ASSUME NEW p \in Procs, Dies(p), mishaps' \in 0 .. MaxMishaps PROVE TypeOK'
  <2>1. /\ stage' \in [Indexers -> {"off", "wait", "store", "save"}]
        /\ last' \in [Indexers -> 0 .. MaxLedger]
        /\ page' \in [Indexers -> SUBSET Ledgers] /\ todo' \in [Indexers -> SUBSET Ledgers]
    BY <1>0, <1>3 DEF Dies, TypeOK
  <2>2. failures' \in [Procs -> 0 .. MaxFailures - 1]
    BY <1>0, <1>3 DEF Dies, TypeOK
  <2>3. abandoned' \in BOOLEAN /\ UNCHANGED <<chain, tables, skipped>>
    BY <1>0, <1>3 DEF Dies, TypeOK, Overtaken
  <2> QED BY <1>0, <1>3, <2>1, <2>2, <2>3 DEF TypeOK, chain, tables
<1>4. CASE UNCHANGED vars
  BY <1>0, <1>4 DEF TypeOK, vars
<1> QED BY <1>0, <1>1, <1>2, <1>3, <1>4, Steps

\* A ledger that closes adds its events above all others.
LEMMA ClosedLedger ==
  ASSUME WalkInv, NEW r \in BOOLEAN, NEW op \in OpTypes, LedgerCloses(r, op)
  PROVE  /\ latest' = latest + 1 /\ latest' \in Ledgers /\ latest \in 0 .. MaxLedger
         /\ receipts \subseteq receipts' /\ receipts' \subseteq receipts \cup {latest'}
         /\ ops[latest'] = "none" /\ ops'[latest'] = op
         /\ \A l \in Ledgers \ {latest'} : ops'[l] = ops[l]
         /\ op # "none" => /\ op = "queued" => \A l \in Ledgers : ops[l] = "none"
                           /\ op = "over"   => /\ \E l \in Ledgers : ops[l] = "queued"
                                               /\ \A l \in Ledgers : ops[l] # "over"
<1>0. TypeOK /\ ChainInv /\ MaxLedger \in Nat
  BY IndexersAssumption DEF WalkInv
<1>1. latest' = latest + 1 /\ latest' \in Ledgers /\ latest \in 0 .. MaxLedger
  BY <1>0 DEF LedgerCloses, TypeOK, Ledgers
<1>2. receipts \subseteq receipts' /\ receipts' \subseteq receipts \cup {latest'}
  BY DEF LedgerCloses
<1>3. ops[latest'] = "none"
  BY <1>0, <1>1 DEF ChainInv
<1>4. ops'[latest'] = op /\ \A l \in Ledgers \ {latest'} : ops'[l] = ops[l]
  BY <1>0, <1>1 DEF LedgerCloses, TypeOK
<1>5. \A l \in Ledgers : ops[l] # "none" => l <= latest
  BY <1>0 DEF ChainInv
<1>6. CASE op = "queued"
  <2>1. StatusAt(latest) = "none"
    BY <1>6 DEF LedgerCloses
  <2>2. \A l \in Ledgers : ops[l] = "none"
    BY <1>0, <1>1, <1>5, <2>1, StatusSays
  <2> QED BY <1>1, <1>2, <1>3, <1>4, <1>6, <2>2
<1>7. CASE op = "over"
  <2>1. StatusAt(latest) = "queued"
    BY <1>0, <1>1, <1>7, StatusSays DEF LedgerCloses, OpTypes
  <2>2. \A l \in Ledgers : ops[l] # "over"
    BY <1>0, <1>1, <1>5, <2>1, StatusSays
  <2>3. \E l \in Ledgers : ops[l] = "queued"
    <3>1. \E l \in Ledgers : ops[l] # "none"
      BY <1>0, <1>1, <2>1, StatusSays
    <3> QED BY <1>0, <2>2, <3>1 DEF TypeOK, OpTypes
  <2> QED BY <1>1, <1>2, <1>3, <1>4, <1>7, <2>2, <2>3
<1> QED BY <1>1, <1>2, <1>3, <1>4, <1>6, <1>7 DEF OpTypes

\* The chain is written by nothing else.
LEMMA ChainElse ==
  ASSUME WalkInv, [Next]_vars
  PROVE  UNCHANGED chain \/ \E r \in BOOLEAN, op \in OpTypes : LedgerCloses(r, op)
<1>1. \A p \in Procs : Dies(p) => UNCHANGED chain
  BY DEF Dies
<1>2. UNCHANGED vars => UNCHANGED chain
  BY DEF vars, chain
<1> QED BY <1>1, <1>2, Steps, OneMoves DEF WalkInv

LEMMA ChainStays ==
  ASSUME WalkInv, [Next]_vars
  PROVE  ChainInv'
<1>0. TypeOK /\ ChainInv
  BY DEF WalkInv
<1>1. CASE UNCHANGED chain
  BY <1>0, <1>1 DEF ChainInv, chain
<1>2. ASSUME NEW r \in BOOLEAN, NEW op \in OpTypes, LedgerCloses(r, op) PROVE ChainInv'
  <2>1. /\ latest' = latest + 1 /\ latest' \in Ledgers /\ latest \in 0 .. MaxLedger
        /\ receipts' \subseteq receipts \cup {latest'}
        /\ ops[latest'] = "none" /\ ops'[latest'] = op
        /\ \A l \in Ledgers \ {latest'} : ops'[l] = ops[l]
        /\ op = "queued" => \A l \in Ledgers : ops[l] = "none"
        /\ op = "over"   => /\ \E l \in Ledgers : ops[l] = "queued"
                            /\ \A l \in Ledgers : ops[l] # "over"
    BY <1>2, ClosedLedger
  <2>2. \A l \in Ledgers : l \in Nat /\ (l # latest' /\ ops[l] # "none" => l < latest')
    BY <1>0, <2>1, IndexersAssumption DEF ChainInv, Ledgers
  <2>3. receipts' \subseteq 1 .. latest'
    BY <1>0, <2>1, IndexersAssumption DEF ChainInv, Ledgers
  <2>4. \A l \in Ledgers : ops'[l] # "none" => l <= latest'
    BY <2>1, <2>2
  <2>5. \A l, m \in Ledgers : ops'[l] # "none" /\ ops'[m] = ops'[l] => l = m
    BY <1>0, <2>1 DEF ChainInv, OpTypes
  <2>6. \A l, m \in Ledgers : ops'[l] = "queued" /\ ops'[m] = "over" => l < m
    BY <1>0, <2>1, <2>2 DEF ChainInv
  <2>7. \A m \in Ledgers : ops'[m] = "over" => \E l \in Ledgers : ops'[l] = "queued"
    BY <1>0, <2>1 DEF ChainInv
  <2> QED BY <2>3, <2>4, <2>5, <2>6, <2>7 DEF ChainInv
<1> QED BY <1>1, <1>2, ChainElse

LEMMA PlacesStay ==
  ASSUME WalkInv, [Next]_vars
  PROVE  PlaceInv'
<1>0. /\ TypeOK /\ latest \in Nat /\ MaxLedger \in Nat
      /\ \A k \in Kinds : checkpoint[k] <= latest /\ checkpoint[k] \in Nat
      /\ \A i \in Indexers : last[i] <= latest /\ last[i] \in Nat /\ i[2] \in Kinds
  BY IndexersAssumption DEF WalkInv, PlaceInv, TypeOK, Indexers
<1>1. CASE latest' = latest /\ UNCHANGED <<last, checkpoint>>
  BY <1>0, <1>1 DEF PlaceInv
<1>2. ASSUME NEW r \in BOOLEAN, NEW op \in OpTypes, LedgerCloses(r, op) PROVE PlaceInv'
  BY <1>0, <1>2 DEF LedgerCloses, PlaceInv, tables
<1>3. ASSUME NEW i \in Indexers, Start(i) PROVE PlaceInv'
  BY <1>0, <1>3 DEF Start, PlaceInv, chain, tables, TypeOK
<1>4. ASSUME NEW i \in Indexers, Save(i) PROVE PlaceInv'
  <2>1. page[i] # {} /\ \A l \in page[i] : IsEvent(i[2], l)
    BY <1>4 DEF Save, WalkInv, PageOK
  <2>2. Max(page[i]) \in Ledgers /\ IsEvent(i[2], Max(page[i]))
    BY <1>0, <2>1, PageMax
  <2>3. Max(page[i]) <= latest
    BY <1>0, <2>2 DEF WalkInv, ChainInv, IsEvent, Ledgers
  <2> DEFINE top == Max(page[i])
  <2>4. /\ checkpoint' = [checkpoint EXCEPT ![i[2]] = top] /\ last' = [last EXCEPT ![i] = top]
        /\ latest' = latest
    BY <1>4 DEF Save, chain
  <2> HIDE DEF top
  <2> QED BY <1>0, <2>3, <2>4 DEF PlaceInv, TypeOK, top
<1>5. ASSUME NEW i \in Indexers, NEW l \in todo[i], Apply(i, l) \/ ApplyFails(i, l) PROVE PlaceInv'
  BY <1>1, <1>5 DEF Apply, ApplyFails, chain, tables
<1>6. ASSUME NEW i \in Indexers, Read(i) \/ StoreReceipts(i) \/ Retries(i) PROVE PlaceInv'
  BY <1>1, <1>6 DEF Read, StoreReceipts, Retries, chain, tables
<1>7. ASSUME NEW p \in Procs, Dies(p) PROVE PlaceInv'
  BY <1>0, <1>7 DEF Dies, PlaceInv, chain, tables
<1>8. CASE UNCHANGED vars
  BY <1>1, <1>8 DEF vars
<1> QED BY <1>0, <1>2, <1>3, <1>4, <1>5, <1>6, <1>7, <1>8, Steps DEF Moves

\* The events of a page read from the ledger after the last one seen.
LEMMA EventsRead ==
  ASSUME WalkInv, NEW i \in Indexers
  PROVE  /\ \A l \in EventsAbove(i) : l \in Ledgers /\ last[i] < l /\ IsEvent(i[2], l)
         /\ \A l \in Ledgers : IsEvent(i[2], l) /\ last[i] < l => l \in EventsAbove(i)
<1>1. /\ last[i] \in Nat /\ latest \in 0 .. MaxLedger /\ MaxLedger \in Nat
      /\ i[2] \in Kinds
  BY IndexersAssumption DEF WalkInv, TypeOK, Indexers
<1>2. \A l \in Ledgers : IsEvent(i[2], l) => l <= latest
  BY <1>1 DEF WalkInv, ChainInv, IsEvent, Ledgers
<1>3. \A l \in last[i] + 1 .. latest : l \in Ledgers /\ last[i] < l
  BY <1>1 DEF Ledgers
<1>4. \A l \in Ledgers : last[i] < l /\ l <= latest => l \in last[i] + 1 .. latest
  BY <1>1 DEF Ledgers
<1> QED BY <1>2, <1>3, <1>4 DEF EventsAbove, IsEvent

\* The first of the events still to be applied.
LEMMA FirstIsLeast ==
  ASSUME TypeOK, NEW i \in Indexers, NEW l \in todo[i], l = FirstOf(todo[i])
  PROVE  \A m \in todo[i] : l <= m
<1>1. todo[i] \subseteq Nat /\ todo[i] # {}
  BY IndexersAssumption DEF TypeOK, Ledgers
<1>2. \E x \in todo[i] : \A y \in todo[i] : x <= y
  BY <1>1, LeastOf
<1> QED BY <1>2 DEF FirstOf, Min

LEMMA PagesStay ==
  ASSUME WalkInv, [Next]_vars
  PROVE  \A i \in Indexers : PageOK(i)'
<1> USE DEF Goto
<1>0. /\ TypeOK /\ \A i \in Indexers : PageOK(i) /\ i[2] \in Kinds
      /\ \A i \in Indexers : page[i] \subseteq Ledgers /\ todo[i] \subseteq Ledgers /\ last[i] \in Nat
      /\ \A l \in Ledgers : l \in Nat
  BY IndexersAssumption DEF WalkInv, TypeOK, Indexers, Ledgers
<1>1. ASSUME NEW j \in Indexers, UNCHANGED chain, stage'[j] = stage[j], last'[j] = last[j],
             page'[j] = page[j], todo'[j] = todo[j]
      PROVE  PageOK(j)'
  BY <1>0, <1>1 DEF PageOK, IsEvent, chain
<1>2. ASSUME NEW r \in BOOLEAN, NEW op \in OpTypes, LedgerCloses(r, op), NEW j \in Indexers
      PROVE  PageOK(j)'
  <2>1. /\ latest' = latest + 1 /\ latest' \in Ledgers /\ latest \in Nat
        /\ receipts \subseteq receipts' /\ receipts' \subseteq receipts \cup {latest'}
        /\ ops[latest'] = "none" /\ \A l \in Ledgers \ {latest'} : ops'[l] = ops[l]
    BY <1>2, ClosedLedger
  <2>2. UNCHANGED <<stage, last, page, todo>>
    BY <1>2 DEF LedgerCloses
  <2>3. \A l \in Ledgers : IsEvent(j[2], l) => IsEvent(j[2], l)' /\ l <= latest
    BY <1>0, <2>1 DEF WalkInv, ChainInv, IsEvent
  <2>4. \A l \in Ledgers : IsEvent(j[2], l)' /\ l <= latest => IsEvent(j[2], l)
    <3>1. \A l \in Ledgers : l <= latest => l # latest'
      BY <1>0, <2>1
    <3> QED BY <2>1, <3>1 DEF IsEvent
  <2>5. \A l \in page'[j] : IsEvent(j[2], l)' /\ last'[j] < l
    BY <1>0, <2>2, <2>3 DEF PageOK
  <2>6. ASSUME NEW l \in Ledgers, NEW m \in page[j], IsEvent(j[2], l)', last[j] < l, l <= m
        PROVE  l \in page[j]
    <3>1. m <= latest
      BY <1>0, <2>3 DEF PageOK
    <3>2. l <= latest
      <4>1. l \in Nat /\ m \in Nat /\ latest \in Nat
        BY <1>0, <2>1
      <4> QED BY <2>6, <3>1, <4>1
    <3> QED BY <1>0, <2>4, <2>6, <3>2 DEF PageOK
  <2> QED BY <1>0, <2>2, <2>5, <2>6 DEF PageOK
<1>3. ASSUME NEW i \in Indexers, Moves(i) PROVE PageOK(i)'
  <2>1. UNCHANGED chain /\ \A l \in Ledgers : IsEvent(i[2], l)' <=> IsEvent(i[2], l)
    BY <1>3, OneMoves DEF chain, IsEvent
  <2>2. CASE Start(i)
    <3>1. page'[i] = {} /\ todo'[i] = {} /\ stage'[i] = "wait"
      BY <1>0, <2>2 DEF Start, PageOK, TypeOK
    <3> QED BY <3>1 DEF PageOK
  <2>3. CASE Read(i)
    <3> DEFINE A == EventsAbove(i)
    <3>1. /\ page'[i] = A /\ last'[i] = last[i]
          /\ stage'[i] = IF A = {} THEN "wait" ELSE "store"
          /\ todo'[i] = IF i[2] = "timelock" THEN A ELSE {}
      BY <1>0, <2>3 DEF Read, TypeOK, PageOK
    <3>2. /\ \A l \in A : l \in Ledgers /\ IsEvent(i[2], l) /\ last[i] < l
          /\ \A l \in Ledgers : IsEvent(i[2], l) /\ last[i] < l => l \in A
      BY EventsRead
    <3> HIDE DEF A
    <3> QED BY <1>0, <2>1, <3>1, <3>2 DEF PageOK, Kinds
  <2>4. CASE StoreReceipts(i)
    <3>1. /\ page'[i] = page[i] /\ last'[i] = last[i] /\ todo'[i] = todo[i]
          /\ stage[i] = "store" /\ stage'[i] = "save" /\ i[2] = "receipt"
      BY <1>0, <2>4 DEF StoreReceipts, TypeOK
    <3>2. PageOK(i) /\ page[i] \subseteq Ledgers
      BY <1>0
    <3> QED BY <2>1, <3>1, <3>2 DEF PageOK
  <2>5. ASSUME NEW l \in todo[i], Apply(i, l) \/ ApplyFails(i, l) PROVE PageOK(i)'
    <3>1. NextEvent(i, l) /\ UNCHANGED <<page, last>>
      BY <2>5 DEF Apply, ApplyFails
    <3>2. /\ todo'[i] = todo[i] \ {l} /\ stage[i] = "store"
          /\ stage'[i] = IF todo'[i] = {} THEN "save" ELSE "store"
          /\ l = FirstOf(todo[i])
      BY <1>0, <3>1 DEF NextEvent, TypeOK
    <3>3. \A m \in todo[i] \ {l} : l < m
      <4>1. \A m \in todo[i] : l <= m
        BY <1>0, <3>2, FirstIsLeast
      <4> QED BY <1>0, <4>1
    <3>4. \A k \in page[i] \ todo'[i], m \in todo'[i] : k < m
      BY <1>0, <3>2, <3>3 DEF PageOK
    <3> QED BY <1>0, <2>1, <3>1, <3>2, <3>4 DEF PageOK
  <2>6. CASE Save(i) \/ Retries(i)
    <3>1. page'[i] = {} /\ todo'[i] = todo[i] /\ stage'[i] = "wait"
      BY <1>0, <2>6 DEF Save, Retries, TypeOK
    <3>2. todo[i] = {}
      BY <1>0, <2>6 DEF Save, Retries, PageOK
    <3> QED BY <3>1, <3>2 DEF PageOK
  <2> QED BY <1>3, <2>2, <2>3, <2>4, <2>5, <2>6 DEF Moves
<1>4. ASSUME NEW i \in Indexers, Moves(i), NEW j \in Indexers PROVE PageOK(j)'
  <2>1. OthersStay(i) /\ UNCHANGED chain
    BY <1>4, OneMoves
  <2> QED BY <1>1, <1>3, <1>4, <2>1 DEF OthersStay
<1>5. ASSUME NEW p \in Procs, Dies(p), NEW j \in Indexers PROVE PageOK(j)'
  <2>1. CASE j[1] = p
    BY <1>5, <2>1 DEF Dies, PageOK
  <2>2. CASE j[1] # p
    <3>1. /\ stage'[j] = stage[j] /\ last'[j] = last[j] /\ page'[j] = page[j]
          /\ todo'[j] = todo[j] /\ UNCHANGED chain
      BY <1>5, <2>2 DEF Dies
    <3> QED BY <1>1, <3>1
  <2> QED BY <2>1, <2>2
<1>6. ASSUME UNCHANGED vars, NEW j \in Indexers PROVE PageOK(j)'
  BY <1>1, <1>6 DEF vars, chain
<1> QED BY <1>0, <1>2, <1>4, <1>5, <1>6, Steps

\* The places and the pages of the indexers fit the chain.
LEMMA WalkInvariant == Spec => []WalkInv
<1>1. WalkInv /\ [Next]_vars => WalkInv'
  BY TypesKept, ChainStays, PlacesStay, PagesStay DEF WalkInv
<1> QED BY <1>1, InitWalk, PTL DEF Spec
-----------------------------------------------------------------------------
(* No receipt is passed over.                                              *)

ReceiptOnes == {i \in Indexers : i[2] = "receipt"}

\* A page whose checkpoint is about to be saved has been stored.
SavedInv == \A i \in ReceiptOnes : stage[i] = "save" => page[i] \subseteq stored

StoredInv ==
  /\ stored \subseteq receipts
  /\ \A l \in receipts \ stored :
       l > checkpoint["receipt"] /\ \A i \in ReceiptOnes : last[i] < l

IndexInv == WalkInv /\ SavedInv /\ StoredInv

\* What is stored is never taken out, and a place that does not move is as good
\* as it was.
LEMMA StillStored ==
  ASSUME StoredInv, receipts' = receipts, stored \subseteq stored', stored' \subseteq receipts,
         checkpoint'["receipt"] = checkpoint["receipt"],
         \A i \in ReceiptOnes : last'[i] = last[i] \/ last'[i] = checkpoint["receipt"]
  PROVE  StoredInv'
BY DEF StoredInv, ReceiptOnes

LEMMA IndexStep ==
  ASSUME IndexInv, [Next]_vars
  PROVE  SavedInv' /\ StoredInv'
<1>0. /\ WalkInv /\ TypeOK /\ SavedInv /\ StoredInv
      /\ \A i \in Indexers : PageOK(i) /\ page[i] \subseteq Ledgers /\ last[i] \in Nat
      /\ \A i \in ReceiptOnes : i \in Indexers /\ i[2] = "receipt"
      /\ "receipt" \in Kinds /\ checkpoint["receipt"] \in Nat
      /\ \A l \in Ledgers : l \in Nat /\ l > 0
      /\ receipts \subseteq Ledgers
  BY IndexersAssumption DEF IndexInv, WalkInv, TypeOK, Ledgers, Kinds, ReceiptOnes
<1>1. ASSUME NEW r \in BOOLEAN, NEW op \in OpTypes, LedgerCloses(r, op)
      PROVE  SavedInv' /\ StoredInv'
  <2>1. UNCHANGED <<stage, page, last, stored, checkpoint>>
    BY <1>1 DEF LedgerCloses, tables
  <2>2. /\ receipts \subseteq receipts' /\ receipts' \subseteq receipts \cup {latest'}
        /\ latest' = latest + 1 /\ latest \in 0 .. MaxLedger
    BY <1>0, <1>1, ClosedLedger
  <2>3. checkpoint["receipt"] <= latest /\ \A i \in Indexers : last[i] <= latest
    BY <1>0 DEF WalkInv, PlaceInv
  <2>4. latest' > checkpoint["receipt"] /\ \A i \in Indexers : last[i] < latest'
    BY <1>0, <2>2, <2>3, IndexersAssumption
  <2>5. SavedInv'
    BY <1>0, <2>1 DEF SavedInv
  <2>6. StoredInv'
    BY <1>0, <2>1, <2>2, <2>4 DEF StoredInv
  <2> QED BY <2>5, <2>6
<1>2. ASSUME NEW i \in Indexers, Start(i) PROVE SavedInv' /\ StoredInv'
  <2>1. /\ UNCHANGED <<chain, tables, page>>
        /\ \A j \in Indexers : stage'[j] = "save" => stage[j] = "save"
        /\ \A j \in Indexers : last'[j] = last[j] \/ last'[j] = checkpoint[j[2]]
    BY <1>0, <1>2 DEF Start, Goto, TypeOK
  <2>2. SavedInv'
    BY <1>0, <2>1 DEF SavedInv, tables
  <2> QED BY <1>0, <2>1, <2>2, StillStored DEF chain, tables, StoredInv
<1>3. ASSUME NEW i \in Indexers, Read(i) \/ Retries(i) PROVE SavedInv' /\ StoredInv'
  <2>1. /\ UNCHANGED <<chain, tables, last>> /\ stage'[i] # "save"
        /\ \A j \in Indexers \ {i} : stage'[j] = stage[j] /\ page'[j] = page[j]
    BY <1>0, <1>3 DEF Read, Retries, Goto, TypeOK
  <2>2. SavedInv'
    BY <1>0, <2>1 DEF SavedInv, tables
  <2> QED BY <1>0, <2>1, <2>2, StillStored DEF chain, tables, StoredInv
<1>4. ASSUME NEW i \in Indexers, StoreReceipts(i) PROVE SavedInv' /\ StoredInv'
  <2>1. /\ UNCHANGED <<chain, checkpoint, last, page>> /\ stored' = stored \cup page[i]
        /\ \A j \in Indexers \ {i} : stage'[j] = stage[j]
        /\ i[2] = "receipt"
    BY <1>0, <1>4 DEF StoreReceipts, Goto, TypeOK
  <2>2. page[i] \subseteq receipts
    BY <1>0, <2>1 DEF PageOK, IsEvent
  <2>3. SavedInv'
    BY <1>0, <2>1 DEF SavedInv
  <2> QED BY <1>0, <2>1, <2>2, <2>3, StillStored DEF chain, StoredInv
<1>5. ASSUME NEW i \in Indexers, NEW l \in todo[i], Apply(i, l) \/ ApplyFails(i, l)
      PROVE  SavedInv' /\ StoredInv'
  <2>1. /\ UNCHANGED <<chain, checkpoint, last, page, stored>> /\ i[2] = "timelock"
        /\ \A j \in Indexers \ {i} : stage'[j] = stage[j]
    BY <1>0, <1>5 DEF Apply, ApplyFails, NextEvent, Goto, TypeOK, tables
  <2>2. SavedInv'
    BY <1>0, <2>1 DEF SavedInv
  <2> QED BY <1>0, <2>1, <2>2, StillStored DEF chain, StoredInv
<1>6. ASSUME NEW i \in Indexers, Save(i) PROVE SavedInv' /\ StoredInv'
  <2> DEFINE top == Max(page[i])
  <2>1. /\ UNCHANGED <<chain, stored>> /\ stage'[i] = "wait" /\ stage[i] = "save"
        /\ \A j \in Indexers \ {i} :
             stage'[j] = stage[j] /\ page'[j] = page[j] /\ last'[j] = last[j]
        /\ checkpoint' = [checkpoint EXCEPT ![i[2]] = top] /\ last'[i] = top
    BY <1>0, <1>6 DEF Save, Goto, TypeOK
  <2>2. top \in page[i] /\ top \in Ledgers
    BY <1>0, <2>1, PageMax DEF PageOK
  <2> HIDE DEF top
  <2>3. SavedInv'
    BY <1>0, <2>1 DEF SavedInv
  <2>4. CASE i[2] = "receipt"
    <3>1. ASSUME NEW l \in receipts \ stored PROVE l > top
      <4>1. page[i] \subseteq stored
        BY <2>1, <2>4 DEF ReceiptOnes, SavedInv, IndexInv
      <4>2. last[i] < l /\ l \in Ledgers
        BY <1>0, <2>4 DEF StoredInv, ReceiptOnes
      <4>3. ~(l <= top)
        BY <1>0, <2>2, <2>4, <4>1, <4>2 DEF PageOK, IsEvent
      <4> QED BY <1>0, <2>2, <4>2, <4>3
    <3>2. checkpoint'["receipt"] = top
      BY <1>0, <2>1, <2>4 DEF TypeOK
    <3> QED BY <1>0, <2>1, <2>3, <3>1, <3>2 DEF StoredInv, chain, ReceiptOnes
  <2>5. CASE i[2] # "receipt"
    <3>1. checkpoint'["receipt"] = checkpoint["receipt"]
      BY <1>0, <2>1, <2>5 DEF TypeOK
    <3> QED BY <1>0, <2>1, <2>3, <2>5, <3>1, StillStored DEF chain, StoredInv
  <2> QED BY <2>4, <2>5
<1>7. ASSUME NEW p \in Procs, Dies(p) PROVE SavedInv' /\ StoredInv'
  <2>1. /\ UNCHANGED <<chain, tables>>
        /\ \A j \in Indexers : stage'[j] = "save" => stage[j] = "save" /\ page'[j] = page[j]
        /\ \A j \in Indexers : last'[j] = last[j] \/ last'[j] = 0
    BY <1>0, <1>7 DEF Dies
  <2>2. SavedInv'
    BY <1>0, <2>1 DEF SavedInv, tables
  <2>3. StoredInv'
    BY <1>0, <2>1 DEF StoredInv, chain, tables
  <2> QED BY <2>2, <2>3
<1>8. CASE UNCHANGED vars
  BY <1>0, <1>8 DEF SavedInv, StoredInv, vars
<1> QED BY <1>0, <1>1, <1>2, <1>3, <1>4, <1>5, <1>6, <1>7, <1>8, Steps DEF Moves

\* Whoever moves the checkpoint, and however often it goes back, every receipt
\* of the chain up to it, and up to where an indexer of a process will ask from,
\* has been stored, and nothing has that is not on the chain.  The indexers of
\* the processes know nothing of one another, and a page may be half done when
\* its process dies.
THEOREM ReceiptsAreIndexed == Spec => []IndexedUpToCheckpoint
<1>1. Init => IndexInv
  BY InitWalk DEF Init, IndexInv, SavedInv, StoredInv, ReceiptOnes
<1>2. IndexInv /\ [Next]_vars => IndexInv'
  BY IndexStep, TypesKept, ChainStays, PlacesStay, PagesStay DEF IndexInv, WalkInv
<1>3. IndexInv => IndexedUpToCheckpoint
  BY DEF IndexInv, WalkInv, StoredInv, IndexedUpToCheckpoint, ReceiptOnes
<1> QED BY <1>1, <1>2, <1>3, PTL DEF Spec

-----------------------------------------------------------------------------
(* A transaction that is over is shown so.                                 *)

TimelockOnes == {i \in Indexers : i[2] = "timelock"}

Applied(i) == page[i] \ todo[i]

\* The indexer will read the event again, or has it in its page still to apply.
Owes(i, l) == stage[i] # "off" /\ last[i] < l /\ l \notin Applied(i)

\* There is a row once the first event of the transaction was applied.
QueuedInv ==
  skipped = {} /\ row = "none" =>
    \A l \in Ledgers : ops[l] = "queued" =>
      /\ checkpoint["timelock"] < l
      /\ \A i \in TimelockOnes : last[i] < l /\ l \notin Applied(i)

\* The row goes back to queued by one who applies the whole page again, and who
\* therefore owes the end.
OverInv ==
  skipped = {} /\ ~abandoned /\ row = "queued" =>
    \A l \in Ledgers :
      ops[l] = "over" /\ (l <= checkpoint["timelock"] \/ \E i \in TimelockOnes : l \in Applied(i))
        => \E i \in TimelockOnes : Owes(i, l)

RowInv == WalkInv /\ QueuedInv /\ OverInv

\* A step that leaves the row, the chain and the checkpoint disturbs nothing, if
\* what was applied still counts only as it did, and who owed an event still does.
LEMMA RowFrame ==
  ASSUME QueuedInv, OverInv, ops' = ops, row' = row, skipped' = skipped,
         abandoned' = abandoned, checkpoint'["timelock"] = checkpoint["timelock"],
         \A i \in TimelockOnes :
           /\ Applied(i)' \subseteq Applied(i)
           /\ last'[i] = last[i] \/ (stage[i] = "off" /\ last'[i] = checkpoint["timelock"])
           /\ stage[i] # "off" => stage'[i] # "off"
  PROVE  QueuedInv' /\ OverInv'
<1>1. QueuedInv'
  BY DEF QueuedInv, TimelockOnes
<1>2. ASSUME NEW i \in TimelockOnes, NEW l, Owes(i, l) PROVE Owes(i, l)'
  BY <1>2 DEF Owes
<1>3. OverInv'
  BY <1>2 DEF OverInv, TimelockOnes
<1> QED BY <1>1, <1>3

\* Applying the events of a page in their order.
LEMMA RowApplied ==
  ASSUME RowInv, NEW i \in Indexers, NEW q \in todo[i], Apply(i, q)
  PROVE  QueuedInv' /\ OverInv'
<1>0. WalkInv /\ TypeOK /\ ChainInv /\ PageOK(i) /\ i \in TimelockOnes
  BY DEF RowInv, WalkInv, Apply, NextEvent, TimelockOnes
<1>10. /\ \A l \in Ledgers : ops[l] \in OpTypes /\ l \in Nat
      /\ page[i] \subseteq Ledgers /\ last[i] \in Nat
  BY <1>0, IndexersAssumption DEF TypeOK, Ledgers
<1>11. todo[i] \subseteq page[i]
  BY <1>0 DEF PageOK
<1>1. /\ WalkInv /\ TypeOK /\ ChainInv /\ PageOK(i) /\ i \in TimelockOnes
      /\ \A l \in Ledgers : ops[l] \in OpTypes /\ l \in Nat
      /\ todo[i] \subseteq page[i] /\ page[i] \subseteq Ledgers /\ last[i] \in Nat
  BY <1>0, <1>10, <1>11
<1>2. /\ ops' = ops /\ checkpoint' = checkpoint /\ last' = last /\ page' = page
      /\ skipped' = skipped /\ abandoned' = abandoned
      /\ row' = IF ops[q] = "queued" \/ row # "none" THEN ops[q] ELSE row
      /\ todo'[i] = todo[i] \ {q} /\ stage'[i] # "off"
      /\ \A j \in Indexers \ {i} : todo'[j] = todo[j] /\ stage'[j] = stage[j]
  BY <1>1 DEF Apply, NextEvent, Goto, TypeOK, chain, history
<1>3. q \in page[i] /\ q \in Ledgers /\ last[i] < q /\ ops[q] # "none"
  BY <1>1 DEF PageOK, IsEvent, TimelockOnes
<1>4. /\ Applied(i)' = Applied(i) \cup {q}
      /\ \A j \in TimelockOnes \ {i} : Applied(j)' = Applied(j)
  BY <1>1, <1>2, <1>3 DEF Applied, TimelockOnes
<1>5. QueuedInv'
  <2>1. row' = "none" => row = "none" /\ ops[q] # "queued"
    BY <1>2, <1>3
  <2> QED BY <1>2, <1>4, <2>1 DEF QueuedInv, RowInv, TimelockOnes
<1>6. ASSUME row' = "queued", NEW l \in Ledgers, ops[l] = "over" PROVE Owes(i, l)'
  <2>1. ops[q] = "queued"
    BY <1>2, <1>6
  <2>2. q < l
    BY <1>1, <1>3, <1>6, <2>1 DEF ChainInv
  <2>3. l \notin Applied(i)
    BY <1>1, <2>2 DEF PageOK, Applied
  <2>4. last[i] < l
    BY <1>1, <1>3, <2>2
  <2>5. l \notin Applied(i)' /\ l \in Nat /\ q \in Nat
    BY <1>1, <1>3, <1>4, <2>2, <2>3
  <2> QED BY <1>2, <2>4, <2>5 DEF Owes
<1>7. OverInv'
  BY <1>1, <1>2, <1>6 DEF OverInv, TimelockOnes
<1> QED BY <1>5, <1>7

\* A page saved to its last event: whoever was to read the end of the
\* transaction again has it in the page, or stays below it.
LEMMA RowSaved ==
  ASSUME RowInv, NEW i \in TimelockOnes, Save(i)
  PROVE  QueuedInv' /\ OverInv'
<1> DEFINE top == Max(page[i])
<1>0. WalkInv /\ TypeOK /\ ChainInv /\ PageOK(i) /\ i \in Indexers /\ i[2] = "timelock"
  BY DEF RowInv, WalkInv, TimelockOnes
<1>10. /\ \A l \in Ledgers : ops[l] \in OpTypes /\ l \in Nat
      /\ page[i] \subseteq Ledgers /\ last[i] \in Nat /\ checkpoint["timelock"] \in Nat
      /\ "timelock" \in Kinds
  BY <1>0, IndexersAssumption DEF TypeOK, Ledgers, Kinds
<1>1. /\ WalkInv /\ TypeOK /\ ChainInv /\ PageOK(i) /\ i \in Indexers /\ i[2] = "timelock"
      /\ \A l \in Ledgers : ops[l] \in OpTypes /\ l \in Nat
      /\ page[i] \subseteq Ledgers /\ last[i] \in Nat /\ checkpoint["timelock"] \in Nat
      /\ "timelock" \in Kinds
  BY <1>0, <1>10
<1>2. /\ ops' = ops /\ row' = row /\ skipped' = skipped /\ abandoned' = abandoned
      /\ checkpoint' = [checkpoint EXCEPT !["timelock"] = top] /\ last'[i] = top
      /\ page'[i] = {} /\ todo' = todo /\ stage[i] = "save" /\ stage'[i] = "wait"
      /\ \A j \in Indexers \ {i} :
           page'[j] = page[j] /\ last'[j] = last[j] /\ stage'[j] = stage[j]
  BY <1>1 DEF Save, Goto, TypeOK, chain, history
<1>3. top \in page[i] /\ \A l \in page[i] : l <= top
  BY <1>1, <1>2, PageMax DEF PageOK
<1> HIDE DEF top
<1>4. /\ Applied(i) = page[i] /\ Applied(i)' = {} /\ checkpoint'["timelock"] = top
      /\ \A j \in TimelockOnes \ {i} : Applied(j)' = Applied(j)
  BY <1>1, <1>2 DEF Applied, PageOK, TimelockOnes, TypeOK
<1>5. top \in Ledgers /\ last[i] < top /\ ops[top] # "none"
  BY <1>1, <1>3 DEF PageOK, IsEvent
<1>6. \A l \in Ledgers : ops[l] # "none" /\ last[i] < l /\ l <= top => l \in page[i]
  BY <1>1, <1>3 DEF PageOK, IsEvent
<1>7. QueuedInv'
  <2>1. ASSUME skipped = {}, row = "none", NEW l \in Ledgers, ops[l] = "queued"
        PROVE  top < l
    <3>1. last[i] < l /\ l \notin page[i]
      BY <1>4, <2>1 DEF QueuedInv, RowInv
    <3>2. ~(l <= top)
      BY <1>6, <2>1, <3>1
    <3> QED BY <1>1, <1>5, <3>2
  <2>2. ASSUME skipped' = {}, row' = "none", NEW l \in Ledgers, ops'[l] = "queued"
        PROVE  /\ checkpoint'["timelock"] < l
               /\ \A j \in TimelockOnes : last'[j] < l /\ l \notin Applied(j)'
    <3>1. top < l /\ \A j \in TimelockOnes : last[j] < l /\ l \notin Applied(j)
      BY <1>2, <2>1, <2>2 DEF QueuedInv, RowInv
    <3> QED BY <1>2, <1>4, <3>1 DEF TimelockOnes
  <2> QED BY <2>2 DEF QueuedInv, TimelockOnes
<1>8. ASSUME NEW l \in Ledgers, ops[l] = "over", l <= top PROVE l \in page[i]
  <2>1. CASE last[i] < l
    BY <1>6, <1>8, <2>1
  <2>2. CASE ~(last[i] < l)
    <3>1. l < top
      BY <1>1, <1>5, <2>2
    <3>2. ops[top] = "queued"
      BY <1>1, <1>5, <1>8, <3>1 DEF ChainInv, OpTypes
    <3> QED BY <1>1, <1>5, <1>8, <3>1, <3>2 DEF ChainInv
  <2> QED BY <2>1, <2>2
<1>9. OverInv'
  <2> SUFFICES ASSUME skipped = {}, ~abandoned, row = "queued", NEW l \in Ledgers, ops[l] = "over",
                      l <= top \/ \E j \in TimelockOnes : l \in Applied(j)'
               PROVE  \E j \in TimelockOnes : Owes(j, l)'
    BY <1>2, <1>4 DEF OverInv, TimelockOnes
  <2>1. \E j \in TimelockOnes : l \in Applied(j)
    BY <1>4, <1>8
  <2>2. PICK j \in TimelockOnes : Owes(j, l)
    BY <2>1 DEF OverInv, RowInv
  <2>3. CASE j = i
    <3>1. ~(l <= top)
      BY <1>4, <1>8, <2>2, <2>3 DEF Owes
    <3>2. top < l
      BY <1>1, <1>5, <3>1
    <3> QED BY <1>2, <1>4, <3>2 DEF Owes
  <2>4. CASE j # i
    BY <1>2, <1>4, <2>2, <2>4 DEF Owes, TimelockOnes
  <2> QED BY <2>3, <2>4
<1> QED BY <1>7, <1>9

\* A process that dies while it owed the end was overtaken.
LEMMA RowDies ==
  ASSUME RowInv, NEW p \in Procs, Dies(p)
  PROVE  QueuedInv' /\ OverInv'
<1>1. /\ WalkInv /\ TypeOK /\ \A l \in Ledgers : l \in Nat /\ l > 0
      /\ \A i \in Indexers : i = <<i[1], i[2]>> /\ i[1] \in Procs /\ last[i] \in Nat
      /\ checkpoint["timelock"] \in Nat
  BY IndexersAssumption DEF RowInv, WalkInv, TypeOK, Ledgers, Indexers, Kinds
<1>2. /\ ops' = ops /\ row' = row /\ skipped' = skipped /\ checkpoint' = checkpoint
      /\ ~abandoned' => ~abandoned /\ ~Overtaken(p)
      /\ \A i \in Indexers : i[1] = p => last'[i] = 0 /\ page'[i] = {}
      /\ \A i \in Indexers : i[1] # p => /\ last'[i] = last[i] /\ page'[i] = page[i]
                                         /\ todo'[i] = todo[i] /\ stage'[i] = stage[i]
  BY DEF Dies, chain, tables
<1>3. /\ \A i \in Indexers : i[1] = p => Applied(i)' = {}
      /\ \A i \in Indexers : i[1] # p => Applied(i)' = Applied(i)
  BY <1>2 DEF Applied
<1>4. QueuedInv'
  <2>1. ASSUME skipped' = {}, row' = "none", NEW l \in Ledgers, ops'[l] = "queued"
        PROVE  /\ checkpoint'["timelock"] < l
               /\ \A j \in TimelockOnes : last'[j] < l /\ l \notin Applied(j)'
    <3>1. /\ checkpoint["timelock"] < l
          /\ \A j \in TimelockOnes : last[j] < l /\ l \notin Applied(j)
      BY <1>2, <2>1 DEF QueuedInv, RowInv
    <3> QED BY <1>1, <1>2, <1>3, <3>1 DEF TimelockOnes
  <2> QED BY <2>1 DEF QueuedInv, TimelockOnes
<1>5. OverInv'
  <2> SUFFICES ASSUME skipped = {}, ~abandoned', row = "queued", NEW l \in Ledgers, ops[l] = "over",
                      \/ l <= checkpoint["timelock"]
                      \/ \E j \in TimelockOnes : l \in Applied(j)'
               PROVE  \E j \in TimelockOnes : Owes(j, l)'
    BY <1>2 DEF OverInv, TimelockOnes
  <2>1. l <= checkpoint["timelock"] \/ \E j \in TimelockOnes : l \in Applied(j)
    BY <1>3 DEF TimelockOnes
  <2>2. PICK j \in TimelockOnes : Owes(j, l)
    BY <1>2, <2>1 DEF OverInv, RowInv
  <2>3. CASE j[1] = p
    <3>1. j = <<p, "timelock">> /\ stage[j] # "off" /\ last[j] < l
      BY <1>1, <2>2, <2>3 DEF TimelockOnes, Owes
    <3>2. CASE l <= checkpoint["timelock"]
      <4>1. last[j] < checkpoint["timelock"]
        BY <1>1, <3>1, <3>2 DEF TimelockOnes
      <4> QED BY <1>2, <3>1, <4>1 DEF Overtaken
    <3>3. ASSUME NEW k \in TimelockOnes, l \in Applied(k)' PROVE FALSE
      <4>1. k[1] # p /\ l \in page[k]
        BY <1>2, <1>3, <3>3 DEF TimelockOnes, Applied
      <4>2. k = <<k[1], "timelock">> /\ k[1] \in Procs \ {p}
        BY <1>1, <4>1 DEF TimelockOnes
      <4> QED BY <1>2, <3>1, <4>1, <4>2 DEF Overtaken
    <3> QED BY <3>2, <3>3
  <2>4. CASE j[1] # p
    BY <1>2, <1>3, <2>2, <2>4 DEF Owes, TimelockOnes
  <2> QED BY <2>3, <2>4
<1> QED BY <1>4, <1>5

LEMMA RowStep ==
  ASSUME RowInv, [Next]_vars
  PROVE  QueuedInv' /\ OverInv'
<1>0. /\ WalkInv /\ TypeOK /\ QueuedInv /\ OverInv
      /\ \A i \in Indexers : PageOK(i) /\ last[i] \in Nat /\ i[2] \in Kinds
      /\ \A i \in TimelockOnes : i \in Indexers /\ i[2] = "timelock"
      /\ \A l \in Ledgers : l \in Nat
  BY IndexersAssumption DEF RowInv, WalkInv, TypeOK, Ledgers, Indexers, TimelockOnes
<1>1. ASSUME NEW r \in BOOLEAN, NEW op \in OpTypes, LedgerCloses(r, op)
      PROVE  QueuedInv' /\ OverInv'
  <2>1. UNCHANGED <<stage, page, todo, last, row, checkpoint, skipped, abandoned>>
    BY <1>1 DEF LedgerCloses, tables, history
  <2>2. /\ latest' = latest + 1 /\ latest \in 0 .. MaxLedger /\ latest' \in Ledgers
        /\ ops[latest'] = "none" /\ \A l \in Ledgers \ {latest'} : ops'[l] = ops[l]
    BY <1>0, <1>1, ClosedLedger
  <2>3. /\ checkpoint["timelock"] <= latest /\ checkpoint["timelock"] \in Nat
        /\ \A i \in Indexers : last[i] <= latest
    BY <1>0, IndexersAssumption DEF WalkInv, PlaceInv, TypeOK, Kinds
  <2>4. checkpoint["timelock"] < latest' /\ \A i \in Indexers : last[i] < latest'
    BY <1>0, <2>2, <2>3
  <2>5. \A i \in TimelockOnes : latest' \notin page[i]
    BY <1>0, <2>2 DEF PageOK, IsEvent
  <2>6. \A i \in TimelockOnes : Applied(i)' = Applied(i) /\ latest' \notin Applied(i)
    BY <2>1, <2>5 DEF Applied, TimelockOnes
  <2>7. ~(latest' <= checkpoint["timelock"])
    BY <2>2, <2>3
  <2>8. QueuedInv'
    BY <1>0, <2>1, <2>2, <2>4, <2>6 DEF QueuedInv, TimelockOnes
  <2>9. \A i \in TimelockOnes, l \in Ledgers : Owes(i, l) => Owes(i, l)'
    BY <2>1, <2>6 DEF Owes
  <2>10. OverInv'
    BY <1>0, <2>1, <2>2, <2>6, <2>7, <2>9 DEF OverInv, TimelockOnes
  <2> QED BY <2>8, <2>10
<1>2. ASSUME NEW i \in Indexers, Start(i) PROVE QueuedInv' /\ OverInv'
  <2>1. /\ UNCHANGED <<chain, tables, page, todo, history>> /\ stage[i] = "off"
        /\ last' = [last EXCEPT ![i] = checkpoint[i[2]]]
        /\ stage' = [stage EXCEPT ![i] = "wait"]
    BY <1>2 DEF Start, Goto
  <2>2. ASSUME NEW j \in TimelockOnes
        PROVE  /\ Applied(j)' \subseteq Applied(j) /\ (stage[j] # "off" => stage'[j] # "off")
               /\ last'[j] = last[j] \/ (stage[j] = "off" /\ last'[j] = checkpoint["timelock"])
    BY <1>0, <2>1 DEF Applied, TypeOK
  <2> QED BY <1>0, <2>1, <2>2, RowFrame DEF chain, tables, history
<1>3. ASSUME NEW i \in Indexers, Read(i) PROVE QueuedInv' /\ OverInv'
  <2>1. /\ UNCHANGED <<chain, tables, last, history>> /\ stage[i] = "wait"
        /\ page' = [page EXCEPT ![i] = EventsAbove(i)]
        /\ i[2] = "timelock" => todo' = [todo EXCEPT ![i] = EventsAbove(i)]
        /\ i[2] # "timelock" => todo' = todo
        /\ stage' = stage \/ stage' = [stage EXCEPT ![i] = "store"]
    BY <1>3 DEF Read, Goto
  <2>2. ASSUME NEW j \in TimelockOnes
        PROVE  /\ Applied(j)' \subseteq Applied(j) /\ (stage[j] # "off" => stage'[j] # "off")
               /\ last'[j] = last[j] \/ (stage[j] = "off" /\ last'[j] = checkpoint["timelock"])
    BY <1>0, <2>1 DEF Applied, TypeOK
  <2> QED BY <1>0, <2>1, <2>2, RowFrame DEF chain, tables, history
<1>4. ASSUME NEW i \in Indexers, StoreReceipts(i) PROVE QueuedInv' /\ OverInv'
  <2>1. /\ UNCHANGED <<chain, row, checkpoint, last, page, todo, history>>
        /\ stage' = [stage EXCEPT ![i] = "save"]
    BY <1>4 DEF StoreReceipts, Goto
  <2>2. ASSUME NEW j \in TimelockOnes
        PROVE  /\ Applied(j)' \subseteq Applied(j) /\ (stage[j] # "off" => stage'[j] # "off")
               /\ last'[j] = last[j] \/ (stage[j] = "off" /\ last'[j] = checkpoint["timelock"])
    BY <1>0, <2>1 DEF Applied, TypeOK
  <2> QED BY <1>0, <2>1, <2>2, RowFrame DEF chain, history
<1>5. ASSUME NEW i \in Indexers, Retries(i) PROVE QueuedInv' /\ OverInv'
  <2>1. /\ UNCHANGED <<chain, tables, last, todo, skipped, abandoned>>
        /\ page' = [page EXCEPT ![i] = {}] /\ stage' = [stage EXCEPT ![i] = "wait"]
    BY <1>5 DEF Retries, Goto
  <2>2. ASSUME NEW j \in TimelockOnes
        PROVE  /\ Applied(j)' \subseteq Applied(j) /\ (stage[j] # "off" => stage'[j] # "off")
               /\ last'[j] = last[j] \/ (stage[j] = "off" /\ last'[j] = checkpoint["timelock"])
    BY <1>0, <2>1 DEF Applied, TypeOK
  <2> QED BY <1>0, <2>1, <2>2, RowFrame DEF chain, tables
<1>6. ASSUME NEW i \in Indexers, NEW l \in todo[i], ApplyFails(i, l) PROVE QueuedInv' /\ OverInv'
  <2>1. skipped' # {}
    BY <1>6 DEF ApplyFails
  <2> QED BY <2>1 DEF QueuedInv, OverInv
<1>7. ASSUME NEW i \in Indexers, Save(i) PROVE QueuedInv' /\ OverInv'
  <2>1. CASE i[2] = "timelock"
    BY <1>7, <2>1, RowSaved DEF TimelockOnes
  <2>2. CASE i[2] # "timelock"
    <3>1. /\ UNCHANGED <<chain, row, todo, history>>
          /\ checkpoint'["timelock"] = checkpoint["timelock"]
          /\ \A j \in Indexers \ {i} :
               page'[j] = page[j] /\ last'[j] = last[j] /\ stage'[j] = stage[j]
      BY <1>0, <1>7, <2>2 DEF Save, Goto, TypeOK
    <3>2. ASSUME NEW j \in TimelockOnes
          PROVE  /\ Applied(j)' \subseteq Applied(j) /\ (stage[j] # "off" => stage'[j] # "off")
                 /\ last'[j] = last[j] \/ (stage[j] = "off" /\ last'[j] = checkpoint["timelock"])
      BY <1>0, <2>2, <3>1 DEF Applied
    <3> QED BY <1>0, <3>1, <3>2, RowFrame DEF chain, history
  <2> QED BY <2>1, <2>2
<1>8. CASE UNCHANGED vars
  BY <1>0, <1>8, RowFrame DEF vars, Applied
<1> QED BY <1>1, <1>2, <1>3, <1>4, <1>5, <1>6, <1>7, <1>8, Steps, RowApplied, RowDies
        DEF Moves, RowInv, WalkInv

\* A transaction that is over up to the checkpoint is shown as queued only while
\* an indexer runs that will apply its end again, or because a statement failed
\* or a process died after another had overtaken it; and it is never missing.
THEOREM TransactionsCatchUp == Spec => []RowCatchesUp
<1>1. Init => RowInv
  BY InitWalk DEF Init, RowInv, QueuedInv, OverInv, Applied, TimelockOnes, WalkInv, TypeOK
<1>2. RowInv /\ [Next]_vars => RowInv'
  BY RowStep, TypesKept, ChainStays, PlacesStay, PagesStay DEF RowInv, WalkInv
<1>3. ASSUME RowInv PROVE RowCatchesUp
  <2> DEFINE seen == checkpoint["timelock"]
  <2> SUFFICES ASSUME RowBehind(seen), skipped = {}, ~abandoned
               PROVE  \E p \in Procs : /\ stage[<<p, "timelock">>] # "off"
                                       /\ StatusAt(last[<<p, "timelock">>]) # StatusAt(seen)
    BY DEF RowCatchesUp
  <2>1. /\ TypeOK /\ ChainInv /\ QueuedInv /\ OverInv /\ row \in OpTypes /\ seen \in 0 .. MaxLedger
        /\ \A i \in Indexers : last[i] \in 0 .. MaxLedger
        /\ \A l \in Ledgers : l \in Nat /\ ops[l] \in OpTypes
    BY <1>3, IndexersAssumption DEF RowInv, WalkInv, TypeOK, Kinds, Ledgers
  <2> HIDE DEF seen
  <2>2. row # "over" /\ StatusAt(seen) # "none" /\ (row = "queued" => StatusAt(seen) = "over")
    BY <2>1, StatusSays DEF RowBehind, Rank, OpTypes
  <2>3. PICK m \in Ledgers : m <= seen /\ ops[m] # "none"
    BY <2>1, <2>2, StatusSays
  <2>4. row # "none"
    <3> SUFFICES ASSUME row = "none" PROVE FALSE
      OBVIOUS
    <3>1. \A l \in Ledgers : ops[l] = "queued" => seen < l
      BY <2>1 DEF QueuedInv, seen
    <3>2. ops[m] = "queued" \/ ops[m] = "over"
      BY <2>1, <2>3 DEF OpTypes
    <3>3. PICK l \in Ledgers : ops[l] = "queued" /\ l <= m
      BY <2>1, <2>3, <3>2 DEF ChainInv
    <3> QED BY <2>1, <2>3, <3>1, <3>3
  <2>5. row = "queued" /\ StatusAt(seen) = "over"
    BY <2>1, <2>2, <2>4 DEF OpTypes
  <2>6. PICK l \in Ledgers : l <= seen /\ ops[l] = "over"
    BY <2>1, <2>5, StatusSays
  <2>7. PICK i \in TimelockOnes : Owes(i, l)
    BY <2>1, <2>5, <2>6 DEF OverInv, seen
  <2>8. i \in Indexers /\ i = <<i[1], "timelock">> /\ i[1] \in Procs
    BY DEF TimelockOnes, Indexers
  <2>9. StatusAt(last[i]) # "over"
    <3> SUFFICES ASSUME StatusAt(last[i]) = "over" PROVE FALSE
      OBVIOUS
    <3>1. PICK k \in Ledgers : k <= last[i] /\ ops[k] = "over"
      BY <2>1, <2>8, StatusSays
    <3>2. k = l
      BY <2>1, <2>6, <3>1 DEF ChainInv
    <3> QED BY <2>1, <2>7, <2>8, <3>1, <3>2 DEF Owes
  <2> QED BY <2>5, <2>7, <2>8, <2>9 DEF Owes
<1> QED BY <1>1, <1>2, <1>3, PTL DEF Spec

-----------------------------------------------------------------------------
(* The breaker around the polls, and around every other call of the RPC.   *)

\* The constants, as the provers of arithmetic need them.
LEMMA Limits == /\ Threshold \in Nat /\ Threshold >= 1
                /\ TestRequests \in Nat /\ TestRequests >= 1
  BY BreakerAssumption

\* What the set of test calls counts when a caller joins it or leaves it.
LEMMA Joining ==
  ASSUME NEW S, IsFiniteSet(S), NEW c
  PROVE  /\ IsFiniteSet(S \cup {c}) /\ Cardinality(S \cup {c}) \in Nat
         /\ Cardinality(S) \in Nat /\ Cardinality(S \cup {c}) <= Cardinality(S) + 1
<1>1. IsFiniteSet(S \cup {c})
  BY FS_AddElement
<1>2. Cardinality(S \cup {c}) = IF c \in S THEN Cardinality(S) ELSE Cardinality(S) + 1
  BY FS_AddElement
<1>3. Cardinality(S) \in Nat /\ Cardinality(S \cup {c}) \in Nat
  BY <1>1, FS_CardinalityType
<1> QED
  BY <1>1, <1>2, <1>3

\* And when it leaves.
LEMMA Leaving ==
  ASSUME NEW S, IsFiniteSet(S), NEW c
  PROVE  /\ IsFiniteSet(S \ {c}) /\ Cardinality(S \ {c}) \in Nat
         /\ Cardinality(S) \in Nat /\ Cardinality(S \ {c}) <= Cardinality(S)
<1>1. IsFiniteSet(S \ {c})
  BY FS_RemoveElement
<1>2. Cardinality(S \ {c}) = IF c \in S THEN Cardinality(S) - 1 ELSE Cardinality(S)
  BY FS_RemoveElement
<1>3. Cardinality(S) \in Nat /\ Cardinality(S \ {c}) \in Nat
  BY <1>1, FS_CardinalityType
<1> QED
  BY <1>1, <1>2, <1>3

\* A step keeps the types, and opens the breaker at the threshold and not
\* before it (recordFailure).
LEMMA TypesStep == BreakerInv /\ [BreakerNext]_breakerVars => BreakerTypes' /\ CounterTellsState'
<1> SUFFICES ASSUME BreakerInv, [BreakerNext]_breakerVars PROVE BreakerTypes' /\ CounterTellsState'
  OBVIOUS
<1> USE Limits DEF BreakerInv, BreakerTypes, CounterTellsState, Phases, Enter
<1>1. CASE TimeoutElapses
  BY <1>1 DEF TimeoutElapses
<1>2. ASSUME NEW c \in Callers, Call(c) \/ Refuse(c) \/ Hang(c) \/ RecordPermanent(c)
      PROVE  BreakerTypes' /\ CounterTellsState'
  BY <1>2 DEF Call, Refuse, Hang, RecordPermanent, Fault
<1>3. ASSUME NEW c \in Callers, CheckState(c)
      PROVE  BreakerTypes' /\ CounterTellsState'
  BY <1>3 DEF CheckState, HalfOpen
<1>4. ASSUME NEW c \in Callers, Admit(c)
      PROVE  BreakerTypes' /\ CounterTellsState'
  BY <1>4 DEF Admit
<1>5. ASSUME NEW c \in Callers, RecordSuccess(c)
      PROVE  BreakerTypes' /\ CounterTellsState'
  BY <1>5 DEF RecordSuccess, Close
<1>6. ASSUME NEW c \in Callers, RecordTransient(c)
      PROVE  BreakerTypes' /\ CounterTellsState'
  <2>1. CASE state = "CLOSED"
    BY <1>6, <2>1 DEF RecordTransient, Open, Fault
  <2>2. CASE state = "HALF_OPEN"
    BY <1>6, <2>2 DEF RecordTransient, Open, Fault
  <2>3. CASE state = "OPEN"
    BY <1>6, <2>3 DEF RecordTransient, Fault
  <2> QED
    BY <2>1, <2>2, <2>3
<1>7. CASE UNCHANGED breakerVars
  BY <1>7 DEF breakerVars
<1> QED
  BY <1>1, <1>2, <1>3, <1>4, <1>5, <1>6, <1>7 DEF BreakerNext

\* A step takes a token for each test call (shouldAllowCall), and gives back
\* tokens only when a half-open period begins or ends.
LEMMA TestsStep == BreakerInv /\ [BreakerNext]_breakerVars => TestsBounded'
<1> SUFFICES ASSUME BreakerInv, [BreakerNext]_breakerVars PROVE TestsBounded'
  OBVIOUS
<1>t. BreakerTypes /\ TestsBounded
  BY DEF BreakerInv
<1>e. IsFiniteSet({}) /\ Cardinality({}) = 0
  BY FS_EmptySet
<1>n. TestRequests \in Nat
  BY BreakerAssumption
\* Where the set becomes empty, or it and the tokens stay.
<1>z. ASSUME tests' = {}, tokens' \in 0 .. TestRequests PROVE TestsBounded'
  BY <1>e, <1>n, <1>z DEF TestsBounded
<1>f. ASSUME tests' = tests, tokens' = tokens, state' = state,
             \A c \in tests : phase'[c] \in {"call", "hung"}
      PROVE  TestsBounded'
  BY <1>t, <1>f DEF TestsBounded
<1>1. CASE TimeoutElapses
  BY <1>1, <1>f, <1>t DEF TimeoutElapses, TestsBounded
<1>2. ASSUME NEW c \in Callers, Call(c) \/ Refuse(c) \/ Hang(c)
      PROVE  TestsBounded'
  BY <1>2, <1>f, <1>t DEF Call, Refuse, Hang, Enter, TestsBounded, BreakerTypes
<1>3. ASSUME NEW c \in Callers, CheckState(c)
      PROVE  TestsBounded'
  <2>1. CASE state = "OPEN" /\ openedAt = "past"
    BY <1>3, <2>1, <1>z, <1>n DEF CheckState, HalfOpen
  <2>2. CASE ~(state = "OPEN" /\ openedAt = "past")
    BY <1>3, <2>2, <1>f, <1>t DEF CheckState, Enter, TestsBounded, BreakerTypes
  <2> QED
    BY <2>1, <2>2
<1>4. ASSUME NEW c \in Callers, Admit(c)
      PROVE  TestsBounded'
  <2>1. CASE state = "CLOSED"
    BY <1>4, <2>1, <1>f, <1>t DEF Admit, Enter, TestsBounded, BreakerTypes
  <2>2. CASE state # "CLOSED"
    <3>1. /\ tests' = tests \cup {c} /\ tokens' = tokens - 1 /\ tokens > 0
          /\ state = "HALF_OPEN" /\ state' = state
          /\ phase' = [phase EXCEPT ![c] = "call"]
      BY <1>4, <2>2 DEF Admit, Enter
    <3>2. /\ IsFiniteSet(tests \cup {c}) /\ Cardinality(tests \cup {c}) \in Nat
          /\ Cardinality(tests) \in Nat /\ Cardinality(tests \cup {c}) <= Cardinality(tests) + 1
      BY <1>t, Joining DEF TestsBounded
    <3>3. tokens \in Nat /\ Cardinality(tests) + tokens <= TestRequests
      BY <1>t, <1>n DEF BreakerTypes, TestsBounded
    <3>4. Cardinality(tests') + tokens' <= TestRequests
      BY <1>n, <3>1, <3>2, <3>3
    <3>5. \A d \in tests' : phase'[d] \in {"call", "hung"}
      BY <1>t, <3>1 DEF BreakerTypes, TestsBounded
    <3> QED
      BY <3>1, <3>2, <3>4, <3>5 DEF TestsBounded
  <2> QED
    BY <2>1, <2>2
<1>5. ASSUME NEW c \in Callers, RecordSuccess(c)
      PROVE  TestsBounded'
  <2>1. CASE state = "HALF_OPEN"
    BY <1>5, <2>1, <1>z, <1>t DEF RecordSuccess, Close, BreakerTypes
  <2>2. CASE state # "HALF_OPEN"
    <3>1. tests = {} /\ tests' = tests /\ tokens' = tokens
      BY <1>5, <2>2, <1>t DEF RecordSuccess, TestsBounded, BreakerTypes
    <3> QED
      BY <3>1, <1>z, <1>t DEF BreakerTypes
  <2> QED
    BY <2>1, <2>2
<1>6. ASSUME NEW c \in Callers, RecordTransient(c)
      PROVE  TestsBounded'
  <2>1. CASE state = "HALF_OPEN"
    BY <1>6, <2>1, <1>z, <1>n DEF RecordTransient, Open
  <2>2. CASE state # "HALF_OPEN"
    <3>1. tests' = {} /\ (tokens' = tokens \/ tokens' = TestRequests)
      BY <1>6, <2>2, <1>t DEF RecordTransient, Open, TestsBounded, BreakerTypes
    <3> QED
      BY <3>1, <1>z, <1>t, <1>n DEF BreakerTypes
  <2> QED
    BY <2>1, <2>2
<1>7. ASSUME NEW c \in Callers, RecordPermanent(c)
      PROVE  TestsBounded'
  <2>1. /\ tests' = tests \ {c} /\ tokens' = tokens /\ state' = state
        /\ phase' = [phase EXCEPT ![c] = "idle"]
    BY <1>7 DEF RecordPermanent, Enter
  <2>2. /\ IsFiniteSet(tests \ {c}) /\ Cardinality(tests \ {c}) \in Nat
        /\ Cardinality(tests) \in Nat /\ Cardinality(tests \ {c}) <= Cardinality(tests)
    BY <1>t, Leaving DEF TestsBounded
  <2>3. tokens \in Nat /\ Cardinality(tests) + tokens <= TestRequests
    BY <1>t, <1>n DEF BreakerTypes, TestsBounded
  <2>4. Cardinality(tests') + tokens' <= TestRequests
    BY <1>n, <2>1, <2>2, <2>3
  <2>5. \A d \in tests' : phase'[d] \in {"call", "hung"}
    BY <1>t, <2>1 DEF BreakerTypes, TestsBounded
  <2>6. state' # "HALF_OPEN" => tests' = {}
    BY <1>t, <2>1 DEF TestsBounded
  <2> QED
    BY <2>1, <2>2, <2>4, <2>5, <2>6 DEF TestsBounded
<1>8. CASE UNCHANGED breakerVars
  BY <1>8, <1>f, <1>t DEF breakerVars, TestsBounded
<1> QED
  BY <1>1, <1>2, <1>3, <1>4, <1>5, <1>6, <1>7, <1>8 DEF BreakerNext

\* In every half-open period the test calls under way and the tokens left are
\* no more than halfOpenTestRequests, and the counter is below the threshold
\* exactly while the breaker is closed (shouldAllowCall, recordFailure).
THEOREM BreakerInvariant == BreakerSpec => []BreakerInv
<1>1. BreakerInit => BreakerTypes /\ CounterTellsState
  BY Limits DEF BreakerInit, BreakerTypes, CounterTellsState, Phases
<1>2. BreakerInit => TestsBounded
  <2>1. IsFiniteSet({}) /\ Cardinality({}) = 0 /\ TestRequests \in Nat
    BY FS_EmptySet, BreakerAssumption
  <2> QED
    BY <2>1 DEF BreakerInit, TestsBounded
<1>3. BreakerInit => BreakerInv
  BY <1>1, <1>2 DEF BreakerInv
<1>4. BreakerInv /\ [BreakerNext]_breakerVars => BreakerInv'
  BY TypesStep, TestsStep DEF BreakerInv
<1> QED
  BY <1>3, <1>4, PTL DEF BreakerSpec

\* Once the tokens of a half-open period are gone and its test calls have ended
\* in permanent errors, no step whatever takes the breaker out of the state in
\* which it refuses all calls (shouldAllowCall; docs/CIRCUIT_BREAKER.md).
THEOREM WedgedIsForGood == BreakerSpec => RefusesForGood
<1>1. ASSUME BreakerInv, BreakerNext, Refusing PROVE Refusing'
  <2> USE DEF Refusing, BreakerInv, BreakerTypes, Enter
  <2>1. CASE TimeoutElapses
    BY <1>1, <2>1 DEF TimeoutElapses
  <2>2. ASSUME NEW c \in Callers, Call(c) \/ CheckState(c) \/ Refuse(c) PROVE Refusing'
    BY <1>1, <2>2 DEF Call, CheckState, Refuse
  <2>3. ASSUME NEW c \in Callers PROVE ~Admit(c)
    BY <1>1 DEF Admit
  <2>4. ASSUME NEW c \in Callers
        PROVE  ~(RecordSuccess(c) \/ RecordTransient(c) \/ RecordPermanent(c) \/ Hang(c))
    BY <1>1 DEF RecordSuccess, RecordTransient, RecordPermanent, Hang
  <2> QED BY <1>1, <2>1, <2>2, <2>3, <2>4 DEF BreakerNext
<1>2. BreakerInv /\ [BreakerNext]_breakerVars => [Refusing => Refusing']_breakerVars
  BY <1>1
<1> QED BY <1>2, BreakerInvariant, PTL DEF BreakerSpec, RefusesForGood

=============================================================================
