--------------------------- MODULE IndexersProps ----------------------------
(***************************************************************************)
(* What the tables say of the chain, though processes die, repeat pages    *)
(* and overtake one another.                                               *)
(***************************************************************************)
EXTENDS Indexers

TypeOK ==
  /\ latest \in 0 .. MaxLedger /\ receipts \subseteq Ledgers /\ ops \in [Ledgers -> OpTypes]
  /\ stored \subseteq Ledgers /\ row \in OpTypes /\ checkpoint \in [Kinds -> 0 .. MaxLedger]
  /\ stage \in [Indexers -> {"off", "wait", "store", "save"}]
  /\ last  \in [Indexers -> 0 .. MaxLedger]
  /\ page  \in [Indexers -> SUBSET Ledgers] /\ todo \in [Indexers -> SUBSET Ledgers]
  /\ failures \in [Procs -> 0 .. MaxFailures - 1]
  /\ skipped \subseteq Ledgers /\ abandoned \in BOOLEAN /\ mishaps \in 0 .. MaxMishaps

\* Nothing is passed over: every receipt up to the checkpoint, or up to where
\* an indexer will ask from, is stored, whoever moved them and however often
\* the checkpoint went back; and nothing is stored that the chain does not have.
IndexedUpToCheckpoint ==
  /\ TypeOK
  /\ stored \subseteq receipts
  /\ \A l \in receipts \ stored :
       /\ l > checkpoint["receipt"]
       /\ \A i \in Indexers : i[2] = "receipt" => last[i] < l

Rank(s) == CASE s = "none" -> 0 [] s = "queued" -> 1 [] OTHER -> 2

RowBehind(l) == Rank(row) < Rank(StatusAt(l))

\* A transaction that is over, as far as the checkpoint says, is shown as
\* queued only while an indexer that will apply its end again is running, or
\* because a statement failed or a process that was overtaken has died.
RowCatchesUp ==
  RowBehind(checkpoint["timelock"]) /\ skipped = {} /\ ~abandoned
    => \E p \in Procs : /\ stage[<<p, "timelock">>] # "off"
                        /\ StatusAt(last[<<p, "timelock">>]) # StatusAt(checkpoint["timelock"])

\* When the failures end, every receipt of the chain is stored for good, and
\* the transaction shows its last status unless an event of it was lost.
ChainIsIndexed ==
  <>[] /\ stored = receipts
       /\ RowBehind(latest) => skipped # {} \/ abandoned

=============================================================================
