------------------------ MODULE ConversionSagaProps -------------------------
(***************************************************************************)
(* What the conversion saga promises.                                      *)
(***************************************************************************)
EXTENDS ConversionSaga

PC == {"idle", "convert", "start", "select", "retry", "reclaim", "body", "complete",
       "fail", "advance", "abort", "compensate", "confirm", "finish"}

\* The types of the variables.
TypeOK ==
  /\ saga \in Saga /\ expired \in BOOLEAN
  /\ idem \in [Step -> IdemRow]
  /\ ledger \in Ledger
  /\ chain \in {"none", "queued", "minted"}
  /\ pc \in [Callers -> PC] /\ step \in [Callers -> Step]
  /\ cur \in [Callers -> Saga] /\ confirmed \in [Callers -> BOOLEAN]
  /\ mishaps \in Nat /\ calls \in Nat

\* How often the deposit has been debited, and refunded.
Debits  == -ledger["CONVERSION_DEBIT"]
Refunds == -ledger["TOPUP_REVERSED"]

AfterCommit == {"fiat_committed", "onchain_submitted", "onchain_confirmed",
                "completed", "compensating", "compensated"}

\* The row never runs ahead of the two legs, through crashes, slow callers and
\* failing stores: what it says is committed has been debited, what it says is
\* completed has been minted, what it says is compensated has been refunded;
\* and nothing reaches the chain before the fiat leg is committed.
SagaFollowsLegs ==
  /\ saga.state \in AfterCommit => Debits >= 1
  /\ chain # "none" => Debits >= 1
  /\ saga.state = "completed" => chain = "minted"
  /\ saga.state = "compensated" => Refunds >= 1

\* The inductive invariant behind it.  Debits and refunds only grow, so it is
\* enough that every place from which the row, a caller's copy of it or a key
\* of api_idempotency can be written already knows of the leg.
KnowsDebit ==
  /\ saga.state \in AfterCommit \/ chain # "none" => Debits >= 1
  /\ idem["commit-fiat"].status = "completed" => Debits >= 1
  /\ \A c \in Callers :
       /\ cur[c].state \in AfterCommit \/ step[c] # "commit-fiat" => Debits >= 1
       /\ pc[c] \in {"complete", "advance"} => Debits >= 1
       /\ pc[c] = "compensate" => step[c] # "commit-fiat"

KnowsMint ==
  /\ saga.state = "completed" => chain = "minted"
  /\ \A c \in Callers :
       /\ cur[c].state = "completed" \/ confirmed[c] => chain = "minted"
       /\ pc[c] \in {"confirm", "finish"} => confirmed[c]

KnowsRefund ==
  /\ saga.state = "compensated" => Refunds >= 1
  /\ idem["compensate"].status = "completed" => Refunds >= 1
  /\ \A c \in Callers :
       /\ cur[c].state = "compensated" => Refunds >= 1
       /\ step[c] = "compensate" /\ pc[c] \in {"complete", "advance"} => Refunds >= 1

SagaInv ==
  /\ TypeOK
  /\ Debits >= 0 /\ Refunds >= 0
  /\ KnowsDebit /\ KnowsMint /\ KnowsRefund

\* Convert() calls that race debit the deposit once, as long as nothing fails;
\* each mishap lets each caller debit it again once.  A refund takes a mishap
\* of its own, that of the caller it runs for.
EffectsBounded ==
  /\ Debits  <= 1 + mishaps * Cardinality(Callers)
  /\ Refunds <= mishaps

\* The compare-and-set of a slow caller never regresses the row: its state
\* follows the transition map, and a terminal one is final.
OnlyLegalTransitions ==
  [][saga.state = "absent" \/ CanTransition(saga.state, saga'.state)]_saga

\* What conversionSaga.ts says of the branch to compensated: the fiat is
\* refunded.  The balance of the user is what it was before.
RefundRestores == saga.state = "compensated" => TotalNgn(ledger) = 0

\* What advance() says its compare-and-set is for: a slow attempt undoes
\* nothing of a saga the winner has completed.
CompletedIsNotRefunded == saga.state = "completed" => Refunds = 0

\* No call is running, and the next one will do nothing: the quote has expired,
\* or the row is past the states that execute goes on from.
Left ==
  /\ \A c \in Callers : pc[c] = "idle"
  /\ saga.state # "absent"
  /\ expired \/ saga.state \notin {"quote_locked", "fiat_committed"}

\* What becomes of the row and of the user's money is then decided, however
\* often convert() is called: a saga under way is not taken up again.
LeftForGood == [][Left => Left' /\ UNCHANGED <<saga, ledger>>]_vars

=============================================================================
