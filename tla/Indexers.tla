------------------------------ MODULE Indexers -------------------------------
(***************************************************************************)
(* The receipt indexer and the timelock indexer of every server process.   *)
(* Each polls the events of the chain above the last ledger it has seen,   *)
(* stores them, and moves its checkpoint.  The processes know nothing of   *)
(* one another and share the tables and the two checkpoints.               *)
(*                                                                         *)
(* Every statement and every poll of the RPC is a step.  A ledger has at   *)
(* most one receipt, known by its ledger, and one event of the one         *)
(* timelocked transaction.  The first checkpoints are 0, which migrations  *)
(* insert, so startLedger plays no part.  Events that do not parse are     *)
(* left out, and so are pause and resume, which nobody calls.              *)
(***************************************************************************)
EXTENDS FiniteSets, Naturals, FiniteSetsExt

CONSTANTS
  Procs,
  MaxFailures,    \* maxConsecutiveFailures of the receipt indexer
  MaxLedger,      \* bound: ledgers that close
  MaxMishaps      \* bound: deaths of a process, calls and statements that fail

Kinds    == {"receipt", "timelock"}
Indexers == Procs \X Kinds
Ledgers  == 1 .. MaxLedger

ASSUME IndexersAssumption ==
  MaxFailures \in Nat \ {0} /\ MaxLedger \in Nat /\ MaxMishaps \in Nat

VARIABLES
  latest, receipts, ops,   \* the chain: its last ledger and the events of each
  stored,      \* indexed_receipts
  row,         \* the status in timelock_transactions
  checkpoint,  \* indexer_checkpoint, by kind
  stage, last, page, todo, \* of each indexer: lastLedger, the ledgers of the
                           \* events it has fetched, and those not yet applied
  failures,    \* consecutiveFailures of the receipt indexer of a process
  skipped,     \* the timelock events whose statement failed
  abandoned,   \* a process died whose timelock indexer another had overtaken
  mishaps

vars   == <<latest, receipts, ops, stored, row, checkpoint, stage, last, page, todo, failures, skipped, abandoned, mishaps>>
chain  == <<latest, receipts, ops>>
tables == <<stored, row, checkpoint>>
history == <<skipped, abandoned, mishaps>>

\* "over" is executed or cancelled, which the indexer treats alike.
OpTypes == {"none", "queued", "over"}

Init ==
  /\ latest     = 0
  /\ receipts   = {}
  /\ ops        = [l \in Ledgers |-> "none"]
  /\ stored     = {}
  /\ row        = "none"
  /\ checkpoint = [k \in Kinds |-> 0]
  /\ stage      = [i \in Indexers |-> "off"]
  /\ last       = [i \in Indexers |-> 0]
  /\ page       = [i \in Indexers |-> {}]
  /\ todo       = [i \in Indexers |-> {}]
  /\ failures   = [p \in Procs |-> 0]
  /\ skipped    = {}
  /\ abandoned  = FALSE
  /\ mishaps    = 0

-----------------------------------------------------------------------------
(* The chain.                                                              *)

\* The newest event of the transaction up to a ledger, or none.
StatusAt(l) ==
  LET past == {m \in 1 .. l : ops[m] # "none"}
  IN  IF past = {} THEN "none" ELSE ops[Max(past)]

\* A transaction is queued once, and over once after that.
LedgerCloses(receipt, op) ==
  /\ latest < MaxLedger
  /\ op \in CASE StatusAt(latest) = "none"   -> {"none", "queued"}
              [] StatusAt(latest) = "queued" -> {"none", "over"}
              [] OTHER                       -> {"none"}
  /\ latest' = latest + 1
  /\ receipts' = IF receipt THEN receipts \cup {latest'} ELSE receipts
  /\ ops' = [ops EXCEPT ![latest'] = op]
  /\ UNCHANGED <<tables, stage, last, page, todo, failures, history>>

-----------------------------------------------------------------------------

Goto(i, s) == stage' = [stage EXCEPT ![i] = s]

Start(i) ==
  /\ stage[i] = "off"
  /\ last' = [last EXCEPT ![i] = checkpoint[i[2]]]
  /\ Goto(i, "wait")
  /\ UNCHANGED <<chain, tables, page, todo, failures, history>>

\* Mutant: the last ledger is not asked for.
EventsAboveLess(i) ==
  {l \in last[i] + 1 .. latest - 1 : IF i[2] = "receipt" THEN l \in receipts ELSE ops[l] # "none"}

\* getReceiptEvents and getTimelockEvents: from lastLedger + 1 on, page by page.
EventsAbove(i) ==
  {l \in last[i] + 1 .. latest : IF i[2] = "receipt" THEN l \in receipts ELSE ops[l] # "none"}

\* A poll that succeeds resets the count of failures.
Succeeds(i) == failures' = IF i[2] = "receipt" THEN [failures EXCEPT ![i[1]] = 0] ELSE failures

Read(i) ==
  /\ stage[i] = "wait"
  /\ page' = [page EXCEPT ![i] = EventsAbove(i)]
  /\ todo' = IF i[2] = "timelock" THEN [todo EXCEPT ![i] = EventsAbove(i)] ELSE todo
  /\ IF page'[i] = {} THEN Succeeds(i) /\ UNCHANGED stage
                      ELSE Goto(i, "store") /\ UNCHANGED failures
  /\ UNCHANGED <<chain, tables, last, history>>

\* upsertMany, one statement.
StoreReceipts(i) ==
  /\ i[2] = "receipt" /\ stage[i] = "store"
  /\ stored' = stored \cup page[i]
  /\ Goto(i, "save")
  /\ UNCHANGED <<chain, row, checkpoint, last, page, todo, failures, history>>

\* Mutant: the newest event first.
FirstOfLast(S) == Max(S)

FirstOf(S) == Min(S)

\* processEvents, one statement for each event in turn.
NextEvent(i, l) ==
  /\ i[2] = "timelock" /\ stage[i] = "store"
  /\ l = FirstOf(todo[i])
  /\ todo' = [todo EXCEPT ![i] = @ \ {l}]
  /\ IF todo'[i] = {} THEN Goto(i, "save") ELSE UNCHANGED stage

\* A queued event inserts the row or resets it, the others update it if it is there.
Apply(i, l) ==
  /\ NextEvent(i, l)
  /\ row' = IF ops[l] = "queued" \/ row # "none" THEN ops[l] ELSE row
  /\ UNCHANGED <<chain, stored, checkpoint, last, page, failures, history>>

Mishap == mishaps < MaxMishaps /\ mishaps' = mishaps + 1

\* The error is logged and the event is done with.
ApplyFails(i, l) ==
  /\ NextEvent(i, l) /\ Mishap
  /\ skipped' = skipped \cup {l}
  /\ UNCHANGED <<chain, tables, last, page, failures, abandoned>>

\* saveCheckpoint, whatever the checkpoint has become; then lastLedger.
Save(i) ==
  /\ stage[i] = "save"
  /\ checkpoint' = [checkpoint EXCEPT ![i[2]] = Max(page[i])]
  /\ last' = [last EXCEPT ![i] = Max(page[i])]
  /\ page' = [page EXCEPT ![i] = {}]
  /\ Goto(i, "wait")
  /\ Succeeds(i)
  /\ UNCHANGED <<chain, stored, row, todo, history>>

-----------------------------------------------------------------------------

\* The checkpoint, or a page under way in another process, is past what the
\* timelock indexer of this one has seen to the end.
Overtaken(p) ==
  LET seen == last[<<p, "timelock">>]
  IN  /\ stage[<<p, "timelock">>] # "off"
      /\ \/ seen < checkpoint["timelock"]
         \/ \E q \in Procs \ {p} : \E l \in page[<<q, "timelock">>] : seen < l

\* Everything a process has in memory is gone.
Dies(p) ==
  /\ stage' = [i \in Indexers |-> IF i[1] = p THEN "off" ELSE stage[i]]
  /\ last' = [i \in Indexers |-> IF i[1] = p THEN 0 ELSE last[i]]
  /\ page' = [i \in Indexers |-> IF i[1] = p THEN {} ELSE page[i]]
  /\ todo' = [i \in Indexers |-> IF i[1] = p THEN {} ELSE todo[i]]
  /\ failures' = [failures EXCEPT ![p] = 0]
  /\ abandoned' = (abandoned \/ Overtaken(p))
  /\ UNCHANGED <<chain, tables, skipped>>

Crash(p) ==
  /\ \E k \in Kinds : stage[<<p, k>>] # "off"
  /\ Mishap
  /\ Dies(p)

\* Mutant: a poll that fails counts as done.
PollFailsAhead(i) ==
  /\ stage[i] \in {"wait", "save"} \/ (i[2] = "receipt" /\ stage[i] = "store")
  /\ Mishap
  /\ Goto(i, "wait")
  /\ last' = [last EXCEPT ![i] = IF page[i] = {} THEN latest ELSE Max(page[i])]
  /\ page' = [page EXCEPT ![i] = {}]
  /\ UNCHANGED <<chain, tables, todo, failures, skipped, abandoned>>

\* The call of the RPC, or the statement the indexer is at.  At the limit the
\* receipt indexer throws out of start(), which nobody catches: the process ends.
PollFails(i) ==
  /\ stage[i] \in {"wait", "save"} \/ (i[2] = "receipt" /\ stage[i] = "store")
  /\ Mishap
  /\ IF i[2] = "receipt" /\ failures[i[1]] + 1 >= MaxFailures
       THEN Dies(i[1])
       ELSE /\ Goto(i, "wait")
            /\ page' = [page EXCEPT ![i] = {}]
            /\ failures' = IF i[2] = "receipt" THEN [failures EXCEPT ![i[1]] = @ + 1] ELSE failures
            /\ UNCHANGED <<chain, tables, last, todo, skipped, abandoned>>

Step(i) ==
  \/ Start(i) \/ Read(i) \/ StoreReceipts(i) \/ Save(i)
  \/ \E l \in todo[i] : Apply(i, l)

Next ==
  \/ \E r \in BOOLEAN, op \in OpTypes : LedgerCloses(r, op)
  \/ \E i \in Indexers : Step(i) \/ PollFails(i) \/ \E l \in todo[i] : ApplyFails(i, l)
  \/ \E p \in Procs : Crash(p)

Spec == Init /\ [][Next]_vars

\* Polling goes on, statements end, and a process that died is started again.
FairSpec == Spec /\ \A i \in Indexers : WF_vars(Step(i))

=============================================================================
