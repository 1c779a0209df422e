------------------------ MODULE ConversionSagaProofs ------------------------
(***************************************************************************)
(* The conversion saga for any number of callers, calls and mishaps: its   *)
(* row follows the transition map and never runs ahead of the two legs,    *)
(* the two legs run at most so often as something fails, and a saga that   *)
(* was interrupted is left.                                                *)
(***************************************************************************)
EXTENDS ConversionSagaProps, FiniteSetTheorems, TLAPS

USE DEF Step

LEMMA InitCounts == Init => Debits = 0 /\ Refunds = 0
<1>1. NoEntries["CONVERSION_DEBIT"] = 0 /\ NoEntries["TOPUP_REVERSED"] = 0
  BY DEF NoEntries, EntryType
<1> QED BY <1>1 DEF Init, Debits, Refunds

LEMMA InitInv == Init => SagaInv
<1>1. Init => TypeOK
  <2>1. NoSaga \in Saga /\ NoIdemRow \in IdemRow /\ NoEntries \in Ledger
    BY DEF NoSaga, Saga, State, NoIdemRow, IdemRow, NoEntries, Ledger
  <2> SUFFICES ASSUME Init PROVE TypeOK
    OBVIOUS
  <2>2. saga \in Saga /\ expired \in BOOLEAN /\ ledger \in Ledger
    BY <2>1 DEF Init
  <2>3. idem \in [Step -> IdemRow]
    BY <2>1 DEF Init
  <2>4. cur \in [Callers -> Saga] /\ confirmed \in [Callers -> BOOLEAN]
    BY <2>1 DEF Init
  <2>5. pc \in [Callers -> PC] /\ step \in [Callers -> Step]
    BY DEF Init, PC
  <2>6. chain = "none" /\ mishaps \in Nat /\ calls \in Nat
    BY DEF Init
  <2> QED BY <2>2, <2>3, <2>4, <2>5, <2>6 DEF TypeOK
<1>2. Init => Debits = 0 /\ Refunds = 0
  BY InitCounts
<1>3. Init => KnowsDebit /\ KnowsMint /\ KnowsRefund
  <2>1. NoSaga.state = "absent" /\ NoIdemRow.status = "none"
    BY DEF NoSaga, NoIdemRow
  <2> QED BY <2>1 DEF Init, KnowsDebit, KnowsMint, KnowsRefund, AfterCommit
<1> QED BY <1>1, <1>2, <1>3 DEF SagaInv

\* What the two entries of the saga do to the ledger.
LEMMA LedgerFacts ==
  ASSUME NEW l \in Ledger
  PROVE  /\ DebitNgnForConversion(l, 1) \in Ledger
         /\ ReverseTopUp(l, 1) \in Ledger
         /\ DebitNgnForConversion(l, 1)["CONVERSION_DEBIT"] = l["CONVERSION_DEBIT"] - 1
         /\ DebitNgnForConversion(l, 1)["TOPUP_REVERSED"] = l["TOPUP_REVERSED"]
         /\ ReverseTopUp(l, 1)["CONVERSION_DEBIT"] = l["CONVERSION_DEBIT"]
         /\ ReverseTopUp(l, 1)["TOPUP_REVERSED"] = l["TOPUP_REVERSED"] - 1
         /\ l["CONVERSION_DEBIT"] \in Int /\ l["TOPUP_REVERSED"] \in Int
BY DEF Ledger, EntryType, DebitNgnForConversion, ReverseTopUp, CreateLedgerEntry

\* A statement on api_idempotency yields a row, and completes none but its own.
LEMMA IdemFacts ==
  ASSUME NEW r \in IdemRow
  PROVE  /\ Processing \in IdemRow /\ RetryFailed(r) \in IdemRow
         /\ ReclaimLease(r) \in IdemRow /\ CompleteKey(r) \in IdemRow
         /\ FailKey(r) \in IdemRow /\ ReconcileStale(r) \in IdemRow
         /\ [r EXCEPT !.stale = TRUE] \in IdemRow
         /\ Processing.status # "completed" /\ RetryFailed(r).status # "completed"
         /\ FailKey(r).status # "completed"
         /\ ReclaimLease(r).status = r.status
         /\ [r EXCEPT !.stale = TRUE].status = r.status
         /\ ReconcileStale(r).status \in {r.status, "none"}
BY DEF IdemRow, NoIdemRow, Processing, Write, RetryFailed, ReclaimLease, CompleteKey,
       FailKey, ReconcileStale

-----------------------------------------------------------------------------
(* Steps that write neither the saga nor a key nor a leg.                  *)

\* A caller moves to a place that owes nothing new.
LEMMA MoveKeeps ==
  ASSUME SagaInv, NEW c \in Callers, NEW l \in PC,
         Goto(c, l), l \notin {"complete", "advance", "compensate", "confirm", "finish"},
         UNCHANGED <<saga, idem, ledger, chain, step, cur, confirmed>>,
         expired' \in BOOLEAN, mishaps' \in Nat, calls' \in Nat
  PROVE  SagaInv'
<1> USE DEF SagaInv, Goto
<1>1. TypeOK'
  BY DEF TypeOK
<1>2. Debits' = Debits /\ Refunds' = Refunds
  BY DEF Debits, Refunds
<1>3. KnowsDebit'
  BY <1>2 DEF KnowsDebit, TypeOK
<1>4. KnowsMint'
  BY <1>2 DEF KnowsMint, TypeOK
<1>5. KnowsRefund'
  BY <1>2 DEF KnowsRefund, TypeOK
<1> QED BY <1>1, <1>2, <1>3, <1>4, <1>5

LEMMA ReturnKeeps ==
  ASSUME SagaInv, NEW c \in Callers, Return(c),
         UNCHANGED <<saga, idem, ledger, chain, cur, confirmed>>,
         expired' \in BOOLEAN, mishaps' \in Nat, calls' \in Nat
  PROVE  SagaInv'
BY MoveKeeps DEF Return, PC

\* A step that has thrown.
LEMMA ThrowKeeps ==
  ASSUME SagaInv, NEW c \in Callers, StepThrows(c),
         UNCHANGED <<saga, ledger, chain, step, cur, confirmed>>,
         idem' \in [Step -> IdemRow],
         \A s \in Step : idem'[s].status = "completed" => idem[s].status = "completed",
         expired' \in BOOLEAN, mishaps' \in Nat, calls' \in Nat
  PROVE  SagaInv'
<1> USE DEF SagaInv, Goto, StepThrows
<1>1. TypeOK'
  BY DEF TypeOK, PC
<1>2. Debits' = Debits /\ Refunds' = Refunds
  BY DEF Debits, Refunds
<1>3. KnowsDebit'
  BY <1>2 DEF KnowsDebit, TypeOK
<1>4. KnowsMint'
  BY <1>2 DEF KnowsMint, TypeOK
<1>5. KnowsRefund'
  BY <1>2 DEF KnowsRefund, TypeOK
<1> QED BY <1>1, <1>2, <1>3, <1>4, <1>5

-----------------------------------------------------------------------------
(* Steps that write the row of the saga.                                   *)

\* What the row must know to be in a state.
Justified(r) ==
  /\ r \in Saga
  /\ r.state \in AfterCommit => Debits >= 1
  /\ r.state = "completed" => chain = "minted"
  /\ r.state = "compensated" => Refunds >= 1

LEMMA SagaJustified == SagaInv => Justified(saga)
BY DEF SagaInv, TypeOK, KnowsDebit, KnowsMint, KnowsRefund, Justified

\* The row becomes one that is justified, the caller takes a copy of it and
\* moves on.
LEMMA WriteKeeps ==
  ASSUME SagaInv, NEW c \in Callers, NEW l \in PC, NEW st \in Step,
         NEW r, Justified(r),
         saga' = r, cur' = [cur EXCEPT ![c] = r],
         Goto(c, l), step' = [step EXCEPT ![c] = st],
         l \notin {"complete", "advance", "compensate"},
         l \in {"confirm", "finish"} => confirmed[c],
         st # "commit-fiat" => Debits >= 1,
         UNCHANGED <<idem, ledger, chain, confirmed>>,
         expired' \in BOOLEAN, mishaps' \in Nat, calls' \in Nat
  PROVE  SagaInv'
<1> USE DEF SagaInv, Goto, Justified
<1>1. TypeOK'
  BY DEF TypeOK
<1>2. Debits' = Debits /\ Refunds' = Refunds
  BY DEF Debits, Refunds
<1>3. KnowsDebit'
  BY <1>2 DEF KnowsDebit, TypeOK
<1>4. KnowsMint'
  BY <1>2 DEF KnowsMint, TypeOK
<1>5. KnowsRefund'
  BY <1>2 DEF KnowsRefund, TypeOK
<1> QED BY <1>1, <1>2, <1>3, <1>4, <1>5

\* The same of a caller that returns.
LEMMA WriteReturnKeeps ==
  ASSUME SagaInv, NEW c \in Callers, NEW r, Justified(r),
         saga' = r, cur' = [cur EXCEPT ![c] = r], Return(c),
         UNCHANGED <<idem, ledger, chain, confirmed>>,
         expired' \in BOOLEAN, mishaps' \in Nat, calls' \in Nat
  PROVE  SagaInv'
<1>1. step[c] \in Step /\ step' = [step EXCEPT ![c] = step[c]]
  BY DEF Return, SagaInv, TypeOK
<1>2. step[c] # "commit-fiat" => Debits >= 1
  BY DEF SagaInv, KnowsDebit
<1>3. "idle" \in PC /\ Goto(c, "idle")
  BY DEF PC, Return
<1> QED BY <1>1, <1>2, <1>3, WriteKeeps

\* And of one that goes on in execute.
LEMMA WriteContinueKeeps ==
  ASSUME SagaInv, NEW c \in Callers, NEW r, Justified(r),
         saga' = r, cur' = [cur EXCEPT ![c] = r], Continue(c, r),
         UNCHANGED <<idem, ledger, chain, confirmed>>,
         expired' \in BOOLEAN, mishaps' \in Nat, calls' \in Nat
  PROVE  SagaInv'
<1>1. CASE Goto(c, "convert") /\ UNCHANGED step
  <2>1. step[c] \in Step /\ step' = [step EXCEPT ![c] = step[c]]
    BY <1>1 DEF SagaInv, TypeOK
  <2>2. step[c] # "commit-fiat" => Debits >= 1
    BY DEF SagaInv, KnowsDebit
  <2> QED BY <1>1, <2>1, <2>2, WriteKeeps DEF PC
<1>2. CASE RunStep(c, "commit-fiat")
  BY <1>2, WriteKeeps DEF RunStep, PC
<1>3. CASE r.state = "fiat_committed" /\ RunStep(c, "submit-onchain")
  BY <1>3, WriteKeeps DEF RunStep, PC, Justified, AfterCommit
<1>4. CASE Return(c)
  BY <1>4, WriteReturnKeeps
<1> QED BY <1>1, <1>2, <1>3, <1>4 DEF Continue

\* A compare-and-set whose new row would be justified yields one that is.
LEMMA AdvanceJustified ==
  ASSUME SagaInv, NEW c \in Callers, NEW to \in State, Advance(c, to),
         to \in AfterCommit => Debits >= 1,
         to = "completed" => chain = "minted",
         to = "compensated" => Refunds >= 1
  PROVE  /\ Justified(saga') /\ cur' = [cur EXCEPT ![c] = saga']
         /\ saga' = saga \/ saga'.state = to
<1>1. Justified([saga EXCEPT !.state = to]) /\ [saga EXCEPT !.state = to].state = to
  BY DEF SagaInv, TypeOK, Saga, Justified
<1> QED BY <1>1, SagaJustified DEF Advance, CompareAndSet

-----------------------------------------------------------------------------
(* Steps that write a leg or a key.                                        *)

\* A leg is written, or a key, by a caller inside a step: debits and refunds
\* grow, a minted receipt stays.
LEMMA LegKeeps ==
  ASSUME SagaInv, NEW c \in Callers, NEW l \in PC, Goto(c, l),
         UNCHANGED <<saga, step, cur, expired, calls>>, mishaps' \in Nat,
         ledger' \in Ledger, Debits' >= Debits, Refunds' >= Refunds,
         chain' \in {"none", "queued", "minted"}, chain = "minted" => chain' = "minted",
         chain' # "none" => Debits' >= 1,
         idem' \in [Step -> IdemRow],
         idem'["commit-fiat"].status = "completed" => Debits' >= 1,
         idem'["compensate"].status = "completed" => Refunds' >= 1,
         confirmed' \in [Callers -> BOOLEAN],
         \A d \in Callers : confirmed'[d] => confirmed[d] \/ chain' = "minted",
         l \notin {"compensate", "confirm", "finish"},
         \A d \in Callers : pc[d] \in {"confirm", "finish"} /\ d # c => confirmed'[d],
         l \in {"complete", "advance"} /\ step[c] = "commit-fiat" => Debits' >= 1,
         l \in {"complete", "advance"} /\ step[c] = "compensate" => Refunds' >= 1
  PROVE  SagaInv'
<1> USE DEF SagaInv, Goto
<1>0. Debits \in Int /\ Refunds \in Int /\ Debits' \in Int /\ Refunds' \in Int
  BY LedgerFacts DEF TypeOK, Debits, Refunds
<1>1. TypeOK'
  BY DEF TypeOK
<1>2. Debits' >= 0 /\ Refunds' >= 0
  BY <1>0
<1>3. KnowsDebit'
  BY <1>0 DEF KnowsDebit, TypeOK
<1>4. KnowsMint'
  BY <1>0 DEF KnowsMint, TypeOK
<1>5. KnowsRefund'
  BY <1>0 DEF KnowsRefund, TypeOK
<1> QED BY <1>1, <1>2, <1>3, <1>4, <1>5

\* The two entries, as debits and refunds.
LEMMA EntryFacts ==
  ASSUME SagaInv
  PROVE  /\ ledger' = DebitNgnForConversion(ledger, 1) =>
              ledger' \in Ledger /\ Debits' = Debits + 1 /\ Refunds' = Refunds
         /\ ledger' = ReverseTopUp(ledger, 1) =>
              ledger' \in Ledger /\ Refunds' = Refunds + 1 /\ Debits' = Debits
         /\ ledger' = ledger =>
              ledger' \in Ledger /\ Refunds' = Refunds /\ Debits' = Debits
         /\ Debits \in Nat /\ Refunds \in Nat
<1>1. ledger \in Ledger
  BY DEF SagaInv, TypeOK
<1> QED BY <1>1, LedgerFacts DEF SagaInv, Debits, Refunds

LEMMA KeyKeeps ==
  ASSUME SagaInv, NEW c \in Callers, NEW r \in IdemRow, NEW l \in PC,
         idem' = [idem EXCEPT ![step[c]] = r], Goto(c, l),
         r.status = "completed" => pc[c] = "complete" \/ r.status = idem[step[c]].status,
         l \notin {"complete", "compensate", "confirm", "finish"},
         l = "advance" => pc[c] = "complete",
         UNCHANGED <<saga, ledger, chain, step, cur, confirmed, env>>
  PROVE  SagaInv'
<1>1. step[c] \in Step /\ idem \in [Step -> IdemRow]
  BY DEF SagaInv, TypeOK
<1>2. Debits' = Debits /\ Refunds' = Refunds /\ Debits \in Nat /\ Refunds \in Nat
  BY EntryFacts DEF Debits, Refunds
<1>3. pc[c] = "complete" => /\ Debits >= 1
                            /\ step[c] = "compensate" => Refunds >= 1
  BY DEF SagaInv, KnowsDebit, KnowsRefund
<1>4. idem'["commit-fiat"].status = "completed" => Debits >= 1
  BY <1>1, <1>3 DEF SagaInv, KnowsDebit
<1>5. idem'["compensate"].status = "completed" => Refunds >= 1
  BY <1>1, <1>3 DEF SagaInv, KnowsRefund
<1>6. /\ \A d \in Callers : pc[d] \in {"confirm", "finish"} => confirmed[d]
      /\ chain # "none" => Debits >= 1
  BY DEF SagaInv, KnowsMint, KnowsDebit
<1>7. idem' \in [Step -> IdemRow]
  BY <1>1
<1>8. /\ ledger' \in Ledger /\ chain' \in {"none", "queued", "minted"}
      /\ confirmed' \in [Callers -> BOOLEAN] /\ mishaps' \in Nat
      /\ UNCHANGED <<expired, calls>>
  BY DEF SagaInv, TypeOK, env
<1> QED BY <1>2, <1>3, <1>4, <1>5, <1>6, <1>7, <1>8, LegKeeps

-----------------------------------------------------------------------------
(* The actions.                                                            *)

LEMMA ConvertKeeps == ASSUME SagaInv, NEW c \in Callers, Convert(c) PROVE SagaInv'
<1>1. Justified(saga')
  <2>1. Justified([state |-> "quote_locked", stamped |-> FALSE])
    BY DEF Justified, Saga, State, AfterCommit
  <2> QED BY <2>1, SagaJustified DEF Convert
<1>2. expired' \in BOOLEAN /\ mishaps' \in Nat /\ calls' \in Nat
  BY DEF Convert, SagaInv, TypeOK
<1>3. CASE Return(c)
  BY <1>1, <1>2, <1>3, WriteReturnKeeps DEF Convert
<1>4. CASE Continue(c, saga')
  BY <1>1, <1>2, <1>4, WriteContinueKeeps DEF Convert
<1> QED BY <1>3, <1>4 DEF Convert

LEMMA ConvertFxKeeps ==
  ASSUME SagaInv, NEW c \in Callers, ConvertFx(c) \/ ConvertFxThrows(c)
  PROVE  SagaInv'
<1>1. UNCHANGED env => expired' \in BOOLEAN /\ mishaps' \in Nat /\ calls' \in Nat
  BY DEF env, SagaInv, TypeOK
<1>2. CASE ConvertFx(c)
  <2>1. Justified([saga EXCEPT !.stamped = TRUE])
    BY SagaJustified DEF Justified, Saga
  <2>2. Justified(saga') /\ cur' = [cur EXCEPT ![c] = saga']
    BY <1>2, <2>1, SagaJustified DEF ConvertFx, CompareAndSet
  <2> QED BY <1>1, <1>2, <2>2, WriteContinueKeeps DEF ConvertFx
<1>3. CASE ConvertFxThrows(c)
  BY <1>1, <1>3, ReturnKeeps DEF ConvertFxThrows
<1> QED BY <1>2, <1>3

LEMMA StartKeeps ==
  ASSUME SagaInv, NEW c \in Callers, InsertKey(c) \/ ClaimKey(c)
  PROVE  SagaInv'
<1>1. step[c] \in Step /\ idem[step[c]] \in IdemRow
  BY DEF SagaInv, TypeOK
<1>2. CASE InsertKey(c) /\ idem[step[c]].status = "none"
  <2>1. Processing \in IdemRow /\ Processing.status # "completed"
    BY <1>1, IdemFacts
  <2> QED BY <1>2, <2>1, KeyKeeps DEF InsertKey, PC
<1>3. CASE InsertKey(c) /\ idem[step[c]].status # "none"
  BY <1>3, MoveKeeps DEF InsertKey, PC, env, SagaInv, TypeOK
<1>4. CASE ClaimKey(c)
  <2> DEFINE r == idem[step[c]]
  <2>1. /\ RetryFailed(r) \in IdemRow /\ RetryFailed(r).status # "completed"
        /\ ReclaimLease(r) \in IdemRow /\ ReclaimLease(r).status = r.status
    BY <1>1, IdemFacts
  <2>2. \/ idem' = [idem EXCEPT ![step[c]] = RetryFailed(r)]
        \/ idem' = [idem EXCEPT ![step[c]] = ReclaimLease(r)]
    BY <1>1, <1>4 DEF ClaimKey, SagaInv, TypeOK
  <2>3. Goto(c, "body") /\ "body" \in PC
        /\ UNCHANGED <<saga, ledger, chain, step, cur, confirmed, env>>
    BY <1>4 DEF ClaimKey, PC
  <2> QED BY <2>1, <2>2, <2>3, KeyKeeps
<1> QED BY <1>2, <1>3, <1>4

LEMMA SelectKeyKeeps == ASSUME SagaInv, NEW c \in Callers, SelectKey(c) PROVE SagaInv'
<1>1. step[c] \in Step /\ idem[step[c]] \in IdemRow
  BY DEF SagaInv, TypeOK
<1>2. PICK l \in {"advance", "retry", "reclaim", "idle", "body"} :
        Goto(c, l) /\ (l = "advance" => idem[step[c]].status = "completed")
  BY <1>1 DEF SelectKey, Decision, IdemRow
<1>3. l = "advance" => /\ step[c] = "commit-fiat" => Debits >= 1
                       /\ step[c] = "compensate" => Refunds >= 1
  BY <1>2 DEF SagaInv, KnowsDebit, KnowsRefund
<1>4. /\ Debits' = Debits /\ Refunds' = Refunds /\ Debits \in Nat /\ Refunds \in Nat
      /\ idem' = idem /\ chain' = chain
  BY EntryFacts DEF SelectKey, Debits, Refunds
<1>5. /\ confirmed' \in [Callers -> BOOLEAN]
      /\ \A d \in Callers : confirmed'[d] => confirmed[d]
      /\ \A d \in Callers : d # c => confirmed'[d] = confirmed[d]
  BY DEF SelectKey, SagaInv, TypeOK
<1>6. /\ \A d \in Callers : pc[d] \in {"confirm", "finish"} => confirmed[d]
      /\ chain # "none" => Debits >= 1
      /\ idem["commit-fiat"].status = "completed" => Debits >= 1
      /\ idem["compensate"].status = "completed" => Refunds >= 1
  BY DEF SagaInv, KnowsMint, KnowsDebit, KnowsRefund
<1>7. /\ UNCHANGED <<saga, step, cur, expired, calls>>
      /\ mishaps' \in Nat /\ ledger' \in Ledger /\ idem' \in [Step -> IdemRow]
      /\ chain' \in {"none", "queued", "minted"}
  BY DEF SelectKey, env, SagaInv, TypeOK
<1>8. l \in PC /\ l \notin {"compensate", "confirm", "finish"} /\ l # "complete"
  BY DEF PC
<1> QED BY <1>2, <1>3, <1>4, <1>5, <1>6, <1>7, <1>8, LegKeeps

\* The step of a body that writes the fiat leg, whether or not it then throws.
LEMMA FiatLegKeeps ==
  ASSUME SagaInv, NEW c \in Callers, NEW l \in {"complete", "fail"}, Goto(c, l),
         \/ /\ step[c] = "commit-fiat"
            /\ ledger' = DebitNgnForConversion(ledger, 1) \/ (ledger' = ledger /\ l = "fail")
         \/ /\ step[c] = "compensate"
            /\ ledger' = ReverseTopUp(ledger, 1) \/ (ledger' = ledger /\ l = "fail"),
         UNCHANGED <<saga, idem, chain, step, cur, confirmed, expired, calls>>,
         mishaps' \in Nat
  PROVE  SagaInv'
<1>1. /\ ledger' \in Ledger /\ Debits \in Nat /\ Refunds \in Nat
      /\ Debits' \in Nat /\ Refunds' \in Nat
      /\ Debits' >= Debits /\ Refunds' >= Refunds
      /\ l = "complete" /\ step[c] = "commit-fiat" => Debits' >= 1
      /\ l = "complete" /\ step[c] = "compensate" => Refunds' >= 1
  BY EntryFacts
<1>2. /\ \A d \in Callers : pc[d] \in {"confirm", "finish"} => confirmed[d]
      /\ chain # "none" => Debits >= 1
      /\ idem["commit-fiat"].status = "completed" => Debits >= 1
      /\ idem["compensate"].status = "completed" => Refunds >= 1
  BY DEF SagaInv, KnowsMint, KnowsDebit, KnowsRefund
<1>3. /\ chain # "none" => Debits' >= 1
      /\ idem["commit-fiat"].status = "completed" => Debits' >= 1
      /\ idem["compensate"].status = "completed" => Refunds' >= 1
  BY <1>1, <1>2
<1>4. /\ idem' \in [Step -> IdemRow] /\ chain' \in {"none", "queued", "minted"}
      /\ confirmed' \in [Callers -> BOOLEAN]
  BY DEF SagaInv, TypeOK
<1>5. l \in PC /\ l \notin {"compensate", "confirm", "finish", "advance"}
  BY DEF PC
<1> QED BY <1>1, <1>2, <1>3, <1>4, <1>5, LegKeeps

\* The step of a body that writes the on-chain leg.
LEMMA ChainLegKeeps ==
  ASSUME SagaInv, NEW c \in Callers, NEW l \in {"complete", "fail"}, Goto(c, l),
         step[c] = "submit-onchain",
         chain' \in {"none", "queued", "minted"}, chain = "minted" => chain' = "minted",
         confirmed' \in [Callers -> BOOLEAN],
         \A d \in Callers : confirmed'[d] => confirmed[d] \/ chain' = "minted",
         \A d \in Callers : d # c => confirmed'[d] = confirmed[d],
         UNCHANGED <<saga, idem, ledger, step, cur, expired, calls>>,
         mishaps' \in Nat
  PROVE  SagaInv'
<1>1. Debits' = Debits /\ Refunds' = Refunds /\ Debits \in Nat /\ Refunds \in Nat
  BY EntryFacts DEF Debits, Refunds
<1>2. /\ \A d \in Callers : pc[d] \in {"confirm", "finish"} => confirmed[d]
      /\ Debits >= 1
      /\ idem["compensate"].status = "completed" => Refunds >= 1
  BY DEF SagaInv, KnowsMint, KnowsDebit, KnowsRefund
<1>3. idem' \in [Step -> IdemRow] /\ ledger' \in Ledger
  BY DEF SagaInv, TypeOK
<1>4. l \in PC /\ l \notin {"compensate", "confirm", "finish", "advance"}
  BY DEF PC
<1> QED BY <1>1, <1>2, <1>3, <1>4, LegKeeps

LEMMA BodyKeeps ==
  ASSUME SagaInv, NEW c \in Callers,
         CommitFiat(c) \/ RefundFiat(c) \/ SubmitOnchain(c) \/ BodyThrows(c)
  PROVE  SagaInv'
<1>1. /\ mishaps \in Nat /\ mishaps + 1 \in Nat
      /\ chain \in {"none", "queued", "minted"} /\ confirmed \in [Callers -> BOOLEAN]
  BY DEF SagaInv, TypeOK
<1>2. CASE CommitFiat(c) \/ RefundFiat(c)
  BY <1>1, <1>2, FiatLegKeeps DEF CommitFiat, RefundFiat, env
<1>3. CASE SubmitOnchain(c)
  <2>1. PICK ok \in BOOLEAN, k \in {"queued", "minted"} :
          /\ chain = "minted" \/ ok => k = "minted"
          /\ chain' = k /\ confirmed' = [confirmed EXCEPT ![c] = ok]
    BY <1>3 DEF SubmitOnchain
  <2>2. /\ confirmed' \in [Callers -> BOOLEAN]
        /\ \A d \in Callers : confirmed'[d] => confirmed[d] \/ chain' = "minted"
        /\ \A d \in Callers : d # c => confirmed'[d] = confirmed[d]
    BY <1>1, <2>1
  <2>3. chain' \in {"none", "queued", "minted"} /\ (chain = "minted" => chain' = "minted")
    BY <2>1
  <2> QED BY <1>1, <1>3, <2>2, <2>3, ChainLegKeeps DEF SubmitOnchain, env
<1>4. CASE BodyThrows(c)
  <2>1. Goto(c, "fail") /\ mishaps' = mishaps + 1
        /\ UNCHANGED <<saga, idem, step, cur, confirmed, expired, calls>>
    BY <1>4 DEF BodyThrows, Mishap
  <2>2. CASE step[c] = "submit-onchain"
    <3>1. UNCHANGED ledger /\ chain' \in {chain, IF chain = "none" THEN "queued" ELSE chain}
      BY <1>4, <2>2 DEF BodyThrows
    <3>2. chain' \in {"none", "queued", "minted"} /\ (chain = "minted" => chain' = "minted")
      BY <1>1, <3>1
    <3>3. /\ confirmed' \in [Callers -> BOOLEAN]
          /\ \A d \in Callers : confirmed'[d] = confirmed[d]
      BY <1>1, <2>1
    <3> QED BY <1>1, <2>1, <2>2, <3>1, <3>2, <3>3, ChainLegKeeps
  <2>3. CASE step[c] # "submit-onchain"
    BY <1>1, <1>4, <2>1, <2>3, FiatLegKeeps DEF BodyThrows
  <2> QED BY <2>2, <2>3
<1> QED BY <1>2, <1>3, <1>4

LEMMA EndStepKeeps ==
  ASSUME SagaInv, NEW c \in Callers, Complete(c) \/ Fail(c)
  PROVE  SagaInv'
<1> DEFINE r == idem[step[c]]
<1>1. step[c] \in Step /\ r \in IdemRow /\ idem \in [Step -> IdemRow]
  BY DEF SagaInv, TypeOK
<1>2. /\ CompleteKey(r) \in IdemRow /\ FailKey(r) \in IdemRow
      /\ FailKey(r).status # "completed"
  BY <1>1, IdemFacts
<1>3. CASE Complete(c)
  <2>1. idem' = [idem EXCEPT ![step[c]] = CompleteKey(r)]
    BY <1>1, <1>3 DEF Complete
  <2> QED BY <1>2, <1>3, <2>1, KeyKeeps DEF Complete, PC
<1>4. CASE Fail(c)
  <2>1. idem' = [idem EXCEPT ![step[c]] = FailKey(r)]
    BY <1>1, <1>4 DEF Fail
  <2>2. /\ idem' \in [Step -> IdemRow]
        /\ \A s \in Step : idem'[s].status = "completed" => idem[s].status = "completed"
    BY <1>1, <1>2, <2>1
  <2> QED BY <1>4, <2>2, ThrowKeeps DEF Fail, env, SagaInv, TypeOK
<1> QED BY <1>3, <1>4

LEMMA StepDoneKeeps == ASSUME SagaInv, NEW c \in Callers, StepDone(c) PROVE SagaInv'
<1>1. /\ Debits >= 1 /\ (step[c] = "compensate" => Refunds >= 1)
      /\ confirmed[c] => chain = "minted"
  BY DEF StepDone, SagaInv, KnowsDebit, KnowsRefund, KnowsMint
<1>2. UNCHANGED <<idem, ledger, chain, confirmed>>
      /\ expired' \in BOOLEAN /\ mishaps' \in Nat /\ calls' \in Nat
  BY DEF StepDone, env, SagaInv, TypeOK
<1>3. CASE Return(c) /\ UNCHANGED <<saga, cur>>
  BY <1>2, <1>3, ReturnKeeps
<1>4. CASE step[c] = "commit-fiat" /\ Advance(c, "fiat_committed")
  <2>1. Justified(saga') /\ cur' = [cur EXCEPT ![c] = saga']
    BY <1>1, <1>4, AdvanceJustified DEF State
  <2>2. CASE RunStep(c, "submit-onchain")
    BY <1>1, <1>2, <2>1, <2>2, WriteKeeps DEF RunStep, PC
  <2>3. CASE Return(c)
    BY <1>2, <2>1, <2>3, WriteReturnKeeps
  <2> QED BY <1>4, <2>2, <2>3 DEF StepDone
<1>5. CASE step[c] = "submit-onchain" /\ Advance(c, "onchain_submitted")
  <2>1. Justified(saga') /\ cur' = [cur EXCEPT ![c] = saga']
    BY <1>1, <1>5, AdvanceJustified DEF State
  <2>2. CASE confirmed[c] /\ Goto(c, "confirm") /\ UNCHANGED step
    <3>1. step[c] \in Step /\ step' = [step EXCEPT ![c] = step[c]]
      BY <2>2 DEF SagaInv, TypeOK
    <3> QED BY <1>1, <1>2, <2>1, <2>2, <3>1, WriteKeeps DEF PC
  <2>3. CASE Return(c)
    BY <1>2, <2>1, <2>3, WriteReturnKeeps
  <2> QED BY <1>5, <2>2, <2>3 DEF StepDone, AfterSubmit
<1>6. CASE step[c] = "compensate" /\ Advance(c, "compensated") /\ Return(c)
  <2>1. Justified(saga') /\ cur' = [cur EXCEPT ![c] = saga']
    BY <1>1, <1>6, AdvanceJustified DEF State
  <2> QED BY <1>2, <1>6, <2>1, WriteReturnKeeps
<1> QED BY <1>3, <1>4, <1>5, <1>6 DEF StepDone, CannotAdvance

LEMMA TransitionsKeep ==
  ASSUME SagaInv, NEW c \in Callers, Abort(c) \/ Compensate(c) \/ Confirm(c) \/ Finish(c)
  PROVE  SagaInv'
<1>1. UNCHANGED <<idem, ledger, chain, confirmed>>
      /\ expired' \in BOOLEAN /\ mishaps' \in Nat /\ calls' \in Nat
  BY DEF Abort, Compensate, Confirm, Finish, env, SagaInv, TypeOK
<1>2. /\ pc[c] = "compensate" => Debits >= 1
      /\ pc[c] \in {"confirm", "finish"} =>
           confirmed[c] /\ chain = "minted" /\ Debits >= 1
  BY DEF SagaInv, KnowsDebit, KnowsMint
<1>3. CASE Abort(c)
  <2>1. Justified(saga') /\ cur' = [cur EXCEPT ![c] = saga']
    BY <1>3, AdvanceJustified DEF Abort, State, AfterCommit
  <2> QED BY <1>1, <1>3, <2>1, WriteReturnKeeps DEF Abort
<1>4. CASE Compensate(c)
  <2>1. Justified(saga') /\ cur' = [cur EXCEPT ![c] = saga']
    BY <1>2, <1>4, AdvanceJustified DEF Compensate, State
  <2> QED BY <1>1, <1>2, <1>4, <2>1, WriteKeeps DEF Compensate, RunStep, PC
<1>5. CASE Confirm(c) /\ Advance(c, "onchain_confirmed")
             /\ Goto(c, "finish") /\ UNCHANGED step
  <2>1. Justified(saga') /\ cur' = [cur EXCEPT ![c] = saga']
    BY <1>2, <1>5, AdvanceJustified DEF Confirm, State
  <2>2. step[c] \in Step /\ step' = [step EXCEPT ![c] = step[c]]
    BY <1>5 DEF SagaInv, TypeOK
  <2> QED BY <1>1, <1>2, <1>5, <2>1, <2>2, WriteKeeps DEF Confirm, PC
<1>6. CASE Return(c) /\ UNCHANGED <<saga, cur>>
  BY <1>1, <1>6, ReturnKeeps
<1>7. CASE Finish(c) /\ Advance(c, "completed")
  <2>1. Justified(saga') /\ cur' = [cur EXCEPT ![c] = saga']
    BY <1>2, <1>7, AdvanceJustified DEF Finish, State
  <2> QED BY <1>1, <1>7, <2>1, WriteReturnKeeps DEF Finish
<1> QED BY <1>3, <1>4, <1>5, <1>6, <1>7 DEF Confirm, Finish, CannotAdvance

LEMMA FaultsKeep ==
  ASSUME SagaInv, NEW c \in Callers, StoreFails(c) \/ Crash(c)
  PROVE  SagaInv'
<1>1. /\ UNCHANGED <<saga, idem, ledger, chain, step, cur, confirmed>>
      /\ expired' \in BOOLEAN /\ mishaps' \in Nat /\ calls' \in Nat
      /\ idem' \in [Step -> IdemRow]
      /\ \A s \in Step : idem'[s].status = "completed" => idem[s].status = "completed"
  BY DEF StoreFails, Crash, Mishap, SagaInv, TypeOK
<1>2. CASE Goto(c, "idle") \/ Goto(c, "fail")
  BY <1>1, <1>2, MoveKeeps DEF PC
<1>3. CASE StepThrows(c)
  BY <1>1, <1>3, ThrowKeeps
<1> QED BY <1>2, <1>3 DEF StoreFails, Crash

LEMMA TimeKeeps ==
  ASSUME SagaInv, (\E s \in Step : LeaseExpires(s)) \/ Reap \/ QuoteExpires \/ MintQueued
  PROVE  SagaInv'
<1> USE DEF local
<1>1. /\ UNCHANGED <<saga, ledger, step, cur, confirmed, pc>>
      /\ expired' \in BOOLEAN /\ mishaps' \in Nat /\ calls' \in Nat
      /\ chain' \in {"none", "queued", "minted"}
      /\ chain' # "none" => chain # "none"
      /\ chain = "minted" => chain' = "minted"
  <2>1. /\ expired \in BOOLEAN /\ mishaps \in Nat /\ mishaps + 1 \in Nat /\ calls \in Nat
        /\ chain \in {"none", "queued", "minted"}
    BY DEF SagaInv, TypeOK
  <2>2. CASE \E s \in Step : LeaseExpires(s)
    BY <2>1, <2>2 DEF LeaseExpires, Mishap
  <2>3. CASE Reap
    BY <2>1, <2>3 DEF Reap, env
  <2>4. CASE QuoteExpires
    BY <2>1, <2>4 DEF QuoteExpires
  <2>5. CASE MintQueued
    BY <2>1, <2>5 DEF MintQueued, env
  <2> QED BY <2>2, <2>3, <2>4, <2>5
<1>2. /\ idem' \in [Step -> IdemRow]
      /\ \A s \in Step : idem'[s].status = "completed" => idem[s].status = "completed"
  <2>1. idem \in [Step -> IdemRow]
    BY DEF SagaInv, TypeOK
  <2>2. CASE \E s \in Step : LeaseExpires(s)
    <3>1. PICK s \in Step : LeaseExpires(s)
      BY <2>2
    <3>2. /\ [idem[s] EXCEPT !.stale = TRUE] \in IdemRow
          /\ [idem[s] EXCEPT !.stale = TRUE].status = idem[s].status
      BY <2>1, <3>1, IdemFacts
    <3>3. idem' = [idem EXCEPT ![s] = [idem[s] EXCEPT !.stale = TRUE]]
      BY <2>1, <3>1 DEF LeaseExpires
    <3> QED BY <2>1, <3>2, <3>3
  <2>3. CASE Reap
    <3>1. \A s \in Step : /\ ReconcileStale(idem[s]) \in IdemRow
                          /\ ReconcileStale(idem[s]).status \in {idem[s].status, "none"}
      BY <2>1, IdemFacts
    <3>2. idem' = [s \in Step |-> ReconcileStale(idem[s])]
      BY <2>3 DEF Reap
    <3> QED BY <3>1, <3>2
  <2>4. CASE UNCHANGED idem
    BY <2>1, <2>4
  <2> QED BY <2>2, <2>3, <2>4 DEF QuoteExpires, MintQueued
<1>3. Debits' = Debits /\ Refunds' = Refunds
  BY <1>1 DEF Debits, Refunds
<1> USE DEF SagaInv
<1>4. TypeOK'
  BY <1>1, <1>2 DEF TypeOK
<1>5. KnowsDebit'
  BY <1>1, <1>2, <1>3 DEF KnowsDebit
<1>6. KnowsMint'
  BY <1>1, <1>2, <1>3 DEF KnowsMint
<1>7. KnowsRefund'
  BY <1>1, <1>2, <1>3 DEF KnowsRefund
<1> QED BY <1>3, <1>4, <1>5, <1>6, <1>7

LEMMA StutterKeeps == ASSUME SagaInv, UNCHANGED vars PROVE SagaInv'
BY DEF vars, SagaInv, TypeOK, Debits, Refunds, KnowsDebit, KnowsMint, KnowsRefund

LEMMA NextKeeps == SagaInv /\ [Next]_vars => SagaInv'
<1> SUFFICES ASSUME SagaInv, [Next]_vars PROVE SagaInv'
  OBVIOUS
<1>1. CASE \E c \in Callers : Call(c)
  <2>1. PICK c \in Callers : Call(c)
    BY <1>1
  <2> QED BY <2>1, ConvertKeeps, ConvertFxKeeps, StartKeeps, SelectKeyKeeps, BodyKeeps,
             EndStepKeeps, StepDoneKeeps, TransitionsKeep, FaultsKeep DEF Call
<1>2. CASE (\E s \in Step : LeaseExpires(s)) \/ Reap \/ QuoteExpires \/ MintQueued
  BY <1>2, TimeKeeps
<1>3. CASE UNCHANGED vars
  BY <1>3, StutterKeeps
<1> QED BY <1>1, <1>2, <1>3 DEF Next

LEMMA InvImpliesFollows == SagaInv => SagaFollowsLegs
BY DEF SagaInv, SagaFollowsLegs, KnowsDebit, KnowsMint, KnowsRefund

\* Every place from which the row, a caller's copy of it or a key can be
\* written knows that the leg it reports is done, however many callers crash,
\* are slow or fail.
THEOREM LegsAreKnown == Spec => []SagaInv
<1> QED BY InitInv, NextKeeps, PTL DEF Spec

\* Whatever crashes, fails, races or is repeated, the row of the saga never
\* says of a leg that it is done before it is.
THEOREM SagaFollows == Spec => []SagaFollowsLegs
<1> QED BY LegsAreKnown, InvImpliesFollows, PTL

-----------------------------------------------------------------------------
(* The transition map.                                                     *)

LEMMA AdvanceLegal ==
  ASSUME SagaInv, NEW c \in Callers, NEW to \in State, Advance(c, to)
  PROVE  UNCHANGED saga \/ CanTransition(saga.state, saga'.state)
<1>1. [saga EXCEPT !.state = to].state = to
  BY DEF SagaInv, TypeOK, Saga
<1> QED BY <1>1 DEF Advance, CompareAndSet

LEMMA CallLegal ==
  ASSUME SagaInv, NEW c \in Callers, Call(c)
  PROVE  UNCHANGED saga \/ saga.state = "absent" \/ CanTransition(saga.state, saga'.state)
<1>1. CASE Convert(c)
  BY <1>1 DEF Convert
<1>2. CASE ConvertFx(c)
  <2>1. [saga EXCEPT !.stamped = TRUE].state = saga.state
    BY DEF SagaInv, TypeOK, Saga
  <2> QED BY <1>2, <2>1 DEF ConvertFx, CompareAndSet, CanTransition
<1>3. CASE StepDone(c)
  BY <1>3, AdvanceLegal DEF StepDone, CannotAdvance, State
<1>4. CASE Abort(c) \/ Compensate(c) \/ Confirm(c) \/ Finish(c)
  BY <1>4, AdvanceLegal DEF Abort, Compensate, Confirm, Finish, CannotAdvance, State
<1>5. CASE \/ ConvertFxThrows(c) \/ InsertKey(c) \/ SelectKey(c) \/ ClaimKey(c)
           \/ CommitFiat(c) \/ SubmitOnchain(c) \/ RefundFiat(c) \/ BodyThrows(c)
           \/ Complete(c) \/ Fail(c) \/ StoreFails(c) \/ Crash(c)
  BY <1>5 DEF ConvertFxThrows, InsertKey, SelectKey, ClaimKey, CommitFiat, SubmitOnchain,
              RefundFiat, BodyThrows, Complete, Fail, StoreFails, Crash
<1> QED BY <1>1, <1>2, <1>3, <1>4, <1>5 DEF Call

LEMMA NextLegal ==
  SagaInv /\ [Next]_vars =>
    [saga.state = "absent" \/ CanTransition(saga.state, saga'.state)]_saga
<1> SUFFICES ASSUME SagaInv, [Next]_vars
             PROVE  \/ UNCHANGED saga \/ saga.state = "absent"
                    \/ CanTransition(saga.state, saga'.state)
  OBVIOUS
<1>1. CASE \E c \in Callers : Call(c)
  BY <1>1, CallLegal
<1>2. CASE \/ \E s \in Step : LeaseExpires(s)
           \/ Reap \/ QuoteExpires \/ MintQueued \/ UNCHANGED vars
  BY <1>2 DEF LeaseExpires, Reap, QuoteExpires, MintQueued, vars
<1> QED BY <1>1, <1>2 DEF Next

\* The row only moves along SAGA_TRANSITIONS, however slow a caller is.
THEOREM TransitionsLegal == Spec => OnlyLegalTransitions
<1> QED BY LegsAreKnown, NextLegal, PTL DEF Spec, OnlyLegalTransitions

-----------------------------------------------------------------------------
(* How often the legs run.  Between two mishaps a caller debits at most    *)
(* once: when it has, it brings the row past quote_locked before it starts *)
(* over.  So debits and callers that may still debit are counted together. *)
(* A caller comes to the refund only through a mishap of its own.          *)

Unlocked == saga.state \notin {"absent", "quote_locked"}

LegPath == {"start", "select", "retry", "reclaim", "body"}

MayDebit(c) ==
  \/ step[c] = "commit-fiat" /\ pc[c] \in LegPath
  \/ ~Unlocked /\ ~(step[c] = "commit-fiat" /\ pc[c] \in {"complete", "advance"})

MayRefund(c) ==
  \/ step[c] = "compensate" /\ pc[c] \in LegPath
  \/ step[c] = "submit-onchain" /\ pc[c] = "fail"
  \/ pc[c] = "compensate"

Debitors  == {c \in Callers : MayDebit(c)}
Refunders == {c \in Callers : MayRefund(c)}

\* No copy of the row is ahead of the row.
CopiesTrail ==
  \A c \in Callers :
    /\ cur[c].state # "absent" => saga.state # "absent"
    /\ cur[c].state \notin {"absent", "quote_locked"} => Unlocked

\* Before the first mishap the key of a step admits one caller to its body.
Calm ==
  /\ \A s \in Step :
       /\ idem[s].status # "failed" /\ ~idem[s].stale
       /\ idem[s].status = "processing" => \E c \in Callers : Holds(c, s)
  /\ \A c \in Callers :
       /\ pc[c] \notin {"retry", "reclaim", "fail", "abort", "compensate"}
       /\ pc[c] = "select" => idem[step[c]].status # "none"
       /\ Holds(c, "commit-fiat") =>
            /\ idem["commit-fiat"].status = "processing"
            /\ \A d \in Callers : Holds(d, "commit-fiat") => d = c
            /\ pc[c] = "body" => Debits = 0
  /\ idem["commit-fiat"].status = "none" => Debits = 0
  /\ Debits <= 1

EffectInv ==
  /\ CopiesTrail
  /\ mishaps = 0 => Calm
  /\ mishaps > 0 => Debits + Cardinality(Debitors) <= 1 + mishaps * Cardinality(Callers)
  /\ Refunds + Cardinality(Refunders) <= mishaps

\* What a call does to the callers it is not of.
LEMMA OthersKeep ==
  ASSUME SagaInv, NEW c \in Callers, Call(c), NEW d \in Callers, d # c
  PROVE  pc'[d] = pc[d] /\ step'[d] = step[d]
<1>1. /\ pc \in [Callers -> PC] /\ step \in [Callers -> Step]
  BY DEF SagaInv, TypeOK
<1>2. \A l : Goto(c, l) => pc'[d] = pc[d]
  BY <1>1 DEF Goto
<1>3. \A s : RunStep(c, s) => pc'[d] = pc[d] /\ step'[d] = step[d]
  BY <1>1, <1>2 DEF RunStep
<1>4. Return(c) => pc'[d] = pc[d] /\ step'[d] = step[d]
  BY <1>2 DEF Return
<1>5. \A r : Continue(c, r) => pc'[d] = pc[d] /\ step'[d] = step[d]
  BY <1>2, <1>3, <1>4 DEF Continue
<1>6. StepThrows(c) => pc'[d] = pc[d]
  BY <1>2 DEF StepThrows
<1>7. CASE Convert(c) \/ ConvertFx(c) \/ ConvertFxThrows(c)
  BY <1>4, <1>5, <1>7 DEF Convert, ConvertFx, ConvertFxThrows
<1>8. CASE InsertKey(c) \/ SelectKey(c) \/ ClaimKey(c)
  BY <1>2, <1>8 DEF InsertKey, SelectKey, ClaimKey
<1>9. CASE CommitFiat(c) \/ SubmitOnchain(c) \/ RefundFiat(c) \/ BodyThrows(c) \/ Complete(c)
  BY <1>2, <1>9 DEF CommitFiat, SubmitOnchain, RefundFiat, BodyThrows, Complete
<1>10. CASE Fail(c) \/ StoreFails(c) \/ Crash(c)
  BY <1>2, <1>6, <1>10 DEF Fail, StoreFails, Crash
<1>11. CASE StepDone(c) \/ Abort(c) \/ Compensate(c) \/ Confirm(c) \/ Finish(c)
  BY <1>2, <1>3, <1>4, <1>11 DEF StepDone, AfterSubmit, Abort, Compensate, Confirm, Finish
<1> QED BY <1>7, <1>8, <1>9, <1>10, <1>11 DEF Call

\* A caller that advances finds the row past quote_locked, or brings it there.
LEMMA AdvanceUnlocks ==
  ASSUME SagaInv, CopiesTrail, NEW c \in Callers,
         NEW to \in State \ {"absent", "quote_locked"}, Advance(c, to)
  PROVE  Unlocked' /\ cur' = [cur EXCEPT ![c] = saga']
<1>1. [saga EXCEPT !.state = to].state = to
  BY DEF SagaInv, TypeOK, Saga
<1>2. cur[c].state # "absent"
  BY DEF Advance, CanTransition, SagaTransitions
<1> QED BY <1>1, <1>2 DEF Advance, CompareAndSet, CopiesTrail, Unlocked

\* The row goes past quote_locked once, and the copies follow it.
LEMMA CallTrails ==
  ASSUME SagaInv, CopiesTrail, NEW c \in Callers, Call(c)
  PROVE  CopiesTrail' /\ (Unlocked => Unlocked')
<1>1. cur \in [Callers -> Saga] /\ saga \in Saga
  BY DEF SagaInv, TypeOK
<1>2. CASE UNCHANGED <<saga, cur>>
  BY <1>2 DEF CopiesTrail, Unlocked
<1>3. ASSUME cur' = [cur EXCEPT ![c] = saga'],
             saga.state # "absent" => saga'.state # "absent", Unlocked => Unlocked'
      PROVE  CopiesTrail'
  BY <1>1, <1>3 DEF CopiesTrail, Unlocked
<1>4. ASSUME NEW to \in State \ {"absent", "quote_locked"}, Advance(c, to)
      PROVE  CopiesTrail' /\ (Unlocked => Unlocked')
  <2>1. Unlocked' /\ cur' = [cur EXCEPT ![c] = saga']
    BY <1>4, AdvanceUnlocks
  <2>2. saga'.state # "absent"
    BY <2>1 DEF Unlocked
  <2> QED BY <1>3, <2>1, <2>2
<1>5. CASE Convert(c)
  <2>1. cur' = [cur EXCEPT ![c] = saga'] /\ saga'.state # "absent" /\ (Unlocked => Unlocked')
    BY <1>5 DEF Convert, Unlocked
  <2> QED BY <1>3, <2>1
<1>6. CASE ConvertFx(c)
  <2>1. [saga EXCEPT !.stamped = TRUE].state = saga.state
    BY <1>1 DEF Saga
  <2>2. cur' = [cur EXCEPT ![c] = saga'] /\ saga'.state = saga.state
    BY <1>6, <2>1 DEF ConvertFx, CompareAndSet
  <2> QED BY <1>3, <2>2 DEF Unlocked
<1>7. CASE StepDone(c)
  BY <1>2, <1>4, <1>7 DEF StepDone, CannotAdvance, State
<1>8. CASE Abort(c) \/ Compensate(c) \/ Confirm(c) \/ Finish(c)
  BY <1>2, <1>4, <1>8 DEF Abort, Compensate, Confirm, Finish, CannotAdvance, State
<1>9. CASE \/ ConvertFxThrows(c) \/ InsertKey(c) \/ SelectKey(c) \/ ClaimKey(c)
           \/ CommitFiat(c) \/ SubmitOnchain(c) \/ RefundFiat(c) \/ BodyThrows(c)
           \/ Complete(c) \/ Fail(c) \/ StoreFails(c) \/ Crash(c)
  BY <1>2, <1>9 DEF ConvertFxThrows, InsertKey, SelectKey, ClaimKey, CommitFiat,
                    SubmitOnchain, RefundFiat, BodyThrows, Complete, Fail, StoreFails, Crash
<1> QED BY <1>5, <1>6, <1>7, <1>8, <1>9 DEF Call

\* Where the SELECT on its key leads a caller.
LEMMA SelectGoes ==
  ASSUME SagaInv, NEW c \in Callers, SelectKey(c)
  PROVE  /\ pc'[c] \in {"advance", "retry", "reclaim", "idle", "body"}
         /\ pc'[c] = "body"    => idem[step[c]].status = "none"
         /\ pc'[c] = "retry"   => idem[step[c]].status = "failed"
         /\ pc'[c] = "reclaim" => idem[step[c]].stale
<1>1. idem[step[c]] \in IdemRow /\ pc \in [Callers -> PC]
  BY DEF SagaInv, TypeOK
<1> DEFINE d == Decision(idem[step[c]])
<1>2. /\ d \in {"replay", "retry", "reclaim", "in_flight", "proceed"}
      /\ d = "proceed" => idem[step[c]].status = "none"
      /\ d = "retry"   => idem[step[c]].status = "failed"
      /\ d = "reclaim" => idem[step[c]].stale
  BY <1>1 DEF Decision, IdemRow
<1>3. pc'[c] = CASE d = "replay"    -> "advance"
                 [] d = "retry"     -> "retry"
                 [] d = "reclaim"   -> "reclaim"
                 [] d = "in_flight" -> "idle"
                 [] d = "proceed"   -> "body"
  BY <1>1 DEF SelectKey, Goto
<1> HIDE DEF d
<1> QED BY <1>2, <1>3

\* A step that goes well: who runs a leg has it behind it, and nobody who had
\* it behind comes to run it again.
LEMMA CallCounts ==
  ASSUME SagaInv, CopiesTrail, NEW c \in Callers, Call(c), mishaps' = mishaps
  PROVE  /\ MayDebit(c)' => MayDebit(c)
         /\ MayRefund(c)' => MayRefund(c)
         /\ \/ Debits' = Debits
            \/ Debits' = Debits + 1 /\ MayDebit(c) /\ ~MayDebit(c)'
         /\ \/ Refunds' = Refunds
            \/ Refunds' = Refunds + 1 /\ MayRefund(c) /\ ~MayRefund(c)'
<1>1. /\ pc \in [Callers -> PC] /\ step \in [Callers -> Step] /\ mishaps \in Nat
      /\ saga \in Saga /\ cur \in [Callers -> Saga]
  BY DEF SagaInv, TypeOK
<1>2. Unlocked => Unlocked'
  BY CallTrails
<1>3. ledger' = ledger => Debits' = Debits /\ Refunds' = Refunds
  BY DEF Debits, Refunds
<1> USE DEF MayDebit, MayRefund, LegPath, Goto
<1>4. CASE Convert(c) \/ ConvertFx(c) \/ ConvertFxThrows(c)
  <2>1. ledger' = ledger /\ pc[c] \in {"idle", "convert"}
    BY <1>4 DEF Convert, ConvertFx, ConvertFxThrows
  <2>2. ~MayRefund(c)' /\ (Unlocked' => ~MayDebit(c)')
    <3>1. CASE Return(c)
      BY <1>1, <2>1, <3>1 DEF Return
    <3>2. CASE Continue(c, saga')
      BY <1>1, <2>1, <3>2 DEF Continue, RunStep, Return, Unlocked
    <3> QED BY <1>4, <3>1, <3>2 DEF Convert, ConvertFx, ConvertFxThrows
  <2>3. ~Unlocked' => MayDebit(c)
    BY <1>2, <2>1
  <2> QED BY <1>3, <2>1, <2>2, <2>3
<1>5. CASE InsertKey(c) \/ SelectKey(c) \/ ClaimKey(c)
  <2>1. /\ ledger' = ledger /\ step' = step /\ pc[c] \in {"start", "select", "retry", "reclaim"}
        /\ saga' = saga
    BY <1>5 DEF InsertKey, SelectKey, ClaimKey
  <2>2. pc'[c] \notin {"complete", "fail", "compensate"}
    BY <1>1, <1>5, SelectGoes DEF InsertKey, ClaimKey
  <2>3. Unlocked' = Unlocked
    BY <2>1 DEF Unlocked
  <2> QED BY <1>1, <1>3, <2>1, <2>2, <2>3
<1>6. CASE CommitFiat(c)
  <2>1. /\ ledger' = DebitNgnForConversion(ledger, 1) /\ saga' = saga /\ step' = step
        /\ pc[c] = "body" /\ step[c] = "commit-fiat" /\ pc'[c] = "complete"
    BY <1>1, <1>6 DEF CommitFiat
  <2> QED BY <1>1, <2>1, EntryFacts DEF Unlocked
<1>7. CASE RefundFiat(c)
  <2>1. /\ ledger' = ReverseTopUp(ledger, 1) /\ saga' = saga /\ step' = step
        /\ pc[c] = "body" /\ step[c] = "compensate" /\ pc'[c] = "complete"
    BY <1>1, <1>7 DEF RefundFiat
  <2> QED BY <1>1, <2>1, EntryFacts DEF Unlocked
<1>8. CASE SubmitOnchain(c) \/ Complete(c)
  <2>1. /\ ledger' = ledger /\ step' = step /\ saga' = saga
        /\ pc'[c] \in {"complete", "advance"} /\ pc[c] \in {"body", "complete"}
        /\ pc[c] = "body" => step[c] = "submit-onchain"
    BY <1>1, <1>8 DEF SubmitOnchain, Complete
  <2> QED BY <1>3, <2>1 DEF Unlocked
<1>9. CASE Fail(c)
  <2>1. /\ ledger' = ledger /\ step' = step /\ saga' = saga /\ pc[c] = "fail"
        /\ pc'[c] = CASE step[c] = "commit-fiat"    -> "abort"
                      [] step[c] = "submit-onchain" -> "compensate"
                      [] step[c] = "compensate"     -> "idle"
    BY <1>1, <1>9 DEF Fail, StepThrows
  <2> QED BY <1>1, <1>3, <2>1 DEF Unlocked
<1>10. CASE StepDone(c)
  <2>1. ledger' = ledger /\ pc[c] = "advance"
    BY <1>10 DEF StepDone
  <2>2. ~MayRefund(c)'
    BY <1>1, <1>10 DEF StepDone, AfterSubmit, RunStep, Return
  <2>3. step[c] = "commit-fiat" => ~MayDebit(c)'
    <3>1. step[c] = "commit-fiat" => Unlocked'
      BY <1>10, AdvanceUnlocks DEF StepDone, State
    <3> QED BY <1>1, <1>10, <3>1 DEF StepDone, RunStep, Return
  <2>4. step[c] # "commit-fiat" /\ MayDebit(c)' => ~Unlocked
    BY <1>1, <1>2, <1>10 DEF StepDone, AfterSubmit, RunStep, Return
  <2> QED BY <1>3, <2>1, <2>2, <2>3, <2>4
<1>11. CASE Abort(c) \/ Confirm(c) \/ Finish(c)
  <2>1. /\ ledger' = ledger /\ step' = step /\ pc[c] \in {"abort", "confirm", "finish"}
        /\ pc'[c] \in {"idle", "finish"}
    BY <1>1, <1>11 DEF Abort, Confirm, Finish, Return
  <2> QED BY <1>2, <1>3, <2>1
<1>12. CASE Compensate(c)
  <2>1. /\ ledger' = ledger /\ pc[c] = "compensate" /\ step'[c] = "compensate"
    BY <1>1, <1>12 DEF Compensate, RunStep
  <2> QED BY <1>2, <1>3, <2>1
<1>13. ~(BodyThrows(c) \/ StoreFails(c) \/ Crash(c))
  BY <1>1 DEF BodyThrows, StoreFails, Crash, Mishap
<1> QED BY <1>4, <1>5, <1>6, <1>7, <1>8, <1>9, <1>10, <1>11, <1>12, <1>13 DEF Call

\* A mishap: at most one leg has run, and the caller it befalls is the only one
\* it may bring to the refund.
LEMMA MishapCounts ==
  ASSUME SagaInv, NEW c \in Callers, BodyThrows(c) \/ StoreFails(c) \/ Crash(c)
  PROVE  /\ mishaps' = mishaps + 1
         /\ \/ Debits' = Debits
            \/ /\ Debits' = Debits + 1
               /\ step[c] = "commit-fiat" /\ pc[c] = "body"
         /\ \/ Refunds' = Refunds
            \/ Refunds' = Refunds + 1 /\ MayRefund(c) /\ ~MayRefund(c)'
<1>1. /\ pc \in [Callers -> PC] /\ step \in [Callers -> Step]
  BY DEF SagaInv, TypeOK
<1>2. ledger' = ledger => Debits' = Debits /\ Refunds' = Refunds
  BY DEF Debits, Refunds
<1>3. CASE BodyThrows(c)
  <2>1. mishaps' = mishaps + 1 /\ pc[c] = "body" /\ step' = step /\ pc'[c] = "fail"
    BY <1>1, <1>3 DEF BodyThrows, Mishap, Goto
  <2>2. CASE ledger' = ledger
    BY <1>2, <2>1, <2>2
  <2>3. CASE step[c] = "commit-fiat" /\ ledger' = DebitNgnForConversion(ledger, 1)
    BY <2>1, <2>3, EntryFacts
  <2>4. CASE step[c] = "compensate" /\ ledger' = ReverseTopUp(ledger, 1)
    BY <2>1, <2>4, EntryFacts DEF MayRefund, LegPath
  <2> QED BY <1>3, <2>2, <2>3, <2>4 DEF BodyThrows
<1>4. CASE StoreFails(c) \/ Crash(c)
  BY <1>2, <1>4 DEF StoreFails, Crash, Mishap
<1> QED BY <1>3, <1>4

-----------------------------------------------------------------------------
(* Before the first mishap.                                                *)

\* A caller moves between places where it holds no key.
LEMMA CalmMove ==
  ASSUME SagaInv, Calm, NEW c \in Callers,
         idem' = idem, Debits' = Debits,
         pc[c] \notin {"body", "complete", "fail"},
         pc'[c] \in {"idle", "convert", "start", "select", "advance", "confirm", "finish"},
         pc'[c] = "select" => idem[step'[c]].status # "none",
         \A d \in Callers : d # c => pc'[d] = pc[d] /\ step'[d] = step[d]
  PROVE  Calm'
<1>1. \A d \in Callers, s \in Step : Holds(d, s)' <=> Holds(d, s)
  BY DEF Holds
<1> QED BY <1>1 DEF Calm

LEMMA CalmCall ==
  ASSUME SagaInv, Calm, NEW c \in Callers, Call(c), mishaps' = mishaps, ~MayRefund(c)
  PROVE  Calm'
<1>1. /\ pc \in [Callers -> PC] /\ step \in [Callers -> Step]
      /\ idem \in [Step -> IdemRow] /\ mishaps \in Nat
  BY DEF SagaInv, TypeOK
<1>2. \A d \in Callers : d # c => pc'[d] = pc[d] /\ step'[d] = step[d]
  BY OthersKeep
<1>3. ledger' = ledger => Debits' = Debits
  BY DEF Debits
<1>4. pc[c] \notin {"retry", "reclaim", "fail", "abort", "compensate"}
  BY DEF Calm
<1>5. CASE Convert(c) \/ ConvertFx(c) \/ ConvertFxThrows(c)
  <2>1. pc'[c] \in {"idle", "convert", "start"}
    <3>1. CASE Return(c)
      BY <1>1, <3>1 DEF Return, Goto
    <3>2. CASE Continue(c, saga')
      BY <1>1, <3>2 DEF Continue, RunStep, Return, Goto
    <3> QED BY <1>5, <3>1, <3>2 DEF Convert, ConvertFx, ConvertFxThrows
  <2>2. idem' = idem /\ ledger' = ledger /\ pc[c] \in {"idle", "convert"}
    BY <1>5 DEF Convert, ConvertFx, ConvertFxThrows
  <2> QED BY <1>2, <1>3, <2>1, <2>2, CalmMove
<1>6. CASE InsertKey(c)
  <2>1. ledger' = ledger /\ step' = step /\ pc[c] = "start"
    BY <1>6 DEF InsertKey
  <2>2. CASE idem[step[c]].status # "none"
    <3>1. idem' = idem /\ pc'[c] = "select"
      BY <1>1, <1>6, <2>2 DEF InsertKey, Goto
    <3> QED BY <1>2, <1>3, <2>1, <2>2, <3>1, CalmMove
  <2>3. CASE idem[step[c]].status = "none"
    <3>1. idem' = [idem EXCEPT ![step[c]] = Processing] /\ pc'[c] = "body"
      BY <1>1, <1>6, <2>3 DEF InsertKey, Goto
    <3>2. Processing.status = "processing" /\ ~Processing.stale
      BY DEF Processing
    <3>3. \A s \in Step : idem'[s] = IF s = step[c] THEN Processing ELSE idem[s]
      BY <1>1, <3>1
    <3>4. \A d \in Callers, s \in Step :
            Holds(d, s)' <=> (Holds(d, s) \/ (d = c /\ s = step[c]))
      BY <1>1, <1>2, <2>1, <3>1 DEF Holds
    <3>5. \A s \in Step : /\ idem'[s].status # "failed" /\ ~idem'[s].stale
                          /\ idem'[s].status = "processing" => \E d \in Callers : Holds(d, s)'
      BY <1>1, <3>2, <3>3, <3>4 DEF Calm
    <3>6. \A d \in Callers :
            /\ pc'[d] \notin {"retry", "reclaim", "fail", "abort", "compensate"}
            /\ pc'[d] = "select" => idem'[step'[d]].status # "none"
      BY <1>1, <1>2, <2>1, <3>1, <3>2, <3>3 DEF Calm
    <3>7. Debits' = Debits
      BY <1>3, <2>1
    <3>8. ASSUME NEW d \in Callers, Holds(d, "commit-fiat")'
          PROVE  /\ idem'["commit-fiat"].status = "processing"
                 /\ \A e \in Callers : Holds(e, "commit-fiat")' => e = d
                 /\ pc'[d] = "body" => Debits' = 0
      <4>1. CASE step[c] = "commit-fiat"
        <5>1. \A e \in Callers : ~Holds(e, "commit-fiat")
          BY <2>3, <4>1 DEF Calm
        <5>2. Debits = 0
          BY <2>3, <4>1 DEF Calm
        <5> QED BY <1>1, <3>2, <3>3, <3>4, <3>7, <3>8, <4>1, <5>1, <5>2
      <4>2. CASE step[c] # "commit-fiat"
        <5>1. \A e \in Callers : Holds(e, "commit-fiat")' <=> Holds(e, "commit-fiat")
          BY <3>4, <4>2
        <5>2. d # c
          BY <3>8, <4>2, <5>1 DEF Holds
        <5> QED BY <1>2, <3>3, <3>7, <3>8, <4>2, <5>1, <5>2 DEF Calm
      <4> QED BY <4>1, <4>2
    <3>9. idem'["commit-fiat"].status = "none" => Debits' = 0
      BY <3>2, <3>3, <3>7 DEF Calm
    <3>10. Debits' <= 1
      BY <3>7 DEF Calm
    <3> QED BY <3>5, <3>6, <3>8, <3>9, <3>10 DEF Calm
  <2> QED BY <2>2, <2>3
<1>7. CASE SelectKey(c)
  <2>1. ledger' = ledger /\ idem' = idem /\ step' = step /\ pc[c] = "select"
    BY <1>7 DEF SelectKey
  <2>2. step[c] \in Step
    BY <1>1
  <2>3. pc'[c] \in {"advance", "idle"}
    BY <1>7, <2>1, <2>2, SelectGoes DEF Calm
  <2> QED BY <1>2, <1>3, <2>1, <2>3, CalmMove
<1>8. CASE CommitFiat(c)
  <2>1. /\ idem' = idem /\ step' = step /\ pc[c] = "body" /\ step[c] = "commit-fiat"
        /\ pc'[c] = "complete"
    BY <1>1, <1>8 DEF CommitFiat, Goto
  <2>2. Debits' = Debits + 1
    BY <1>8, EntryFacts DEF CommitFiat
  <2>3. \A d \in Callers, s \in Step : Holds(d, s)' <=> Holds(d, s)
    BY <1>2, <2>1 DEF Holds
  <2>4. Holds(c, "commit-fiat")
    BY <2>1 DEF Holds
  <2>5. Debits = 0 /\ idem["commit-fiat"].status = "processing"
    BY <2>1, <2>4 DEF Calm
  <2>6. \A d \in Callers : Holds(d, "commit-fiat") => d = c
    BY <2>4 DEF Calm
  <2> QED BY <1>2, <2>1, <2>2, <2>3, <2>5, <2>6 DEF Calm
<1>9. CASE SubmitOnchain(c)
  <2>1. /\ idem' = idem /\ step' = step /\ pc[c] = "body" /\ step[c] = "submit-onchain"
        /\ pc'[c] = "complete" /\ ledger' = ledger
    BY <1>1, <1>9 DEF SubmitOnchain, Goto
  <2>2. \A d \in Callers, s \in Step : Holds(d, s)' <=> Holds(d, s)
    BY <1>2, <2>1 DEF Holds
  <2> QED BY <1>2, <1>3, <2>1, <2>2 DEF Calm
<1>10. CASE Complete(c)
  <2>1. /\ idem' = [idem EXCEPT ![step[c]] = CompleteKey(idem[step[c]])] /\ step' = step
        /\ pc[c] = "complete" /\ pc'[c] = "advance" /\ ledger' = ledger
    BY <1>1, <1>10 DEF Complete, Goto
  <2> DEFINE r == CompleteKey(idem[step[c]])
  <2>2. /\ r.status = IF idem[step[c]].status = "none" THEN "none" ELSE "completed"
        /\ ~r.stale
    BY <1>1 DEF CompleteKey, Write, Calm
  <2> HIDE DEF r
  <2>3. \A s \in Step : idem'[s] = IF s = step[c] THEN r ELSE idem[s]
    BY <1>1, <2>1 DEF r
  <2>4. \A d \in Callers, s \in Step : Holds(d, s)' <=> Holds(d, s) /\ d # c
    BY <1>2, <2>1 DEF Holds
  <2>5. \A s \in Step : /\ idem'[s].status # "failed" /\ ~idem'[s].stale
                        /\ idem'[s].status = "processing" => \E d \in Callers : Holds(d, s)'
    <3> SUFFICES ASSUME NEW s \in Step
                 PROVE  /\ idem'[s].status # "failed" /\ ~idem'[s].stale
                        /\ idem'[s].status = "processing" => \E d \in Callers : Holds(d, s)'
      OBVIOUS
    <3>1. CASE s = step[c]
      BY <2>2, <2>3, <3>1
    <3>2. CASE s # step[c]
      <4>1. ~Holds(c, s) /\ idem'[s] = idem[s]
        BY <2>3, <3>2 DEF Holds
      <4> QED BY <2>4, <4>1 DEF Calm
    <3> QED BY <3>1, <3>2
  <2>6. \A d \in Callers :
          /\ pc'[d] \notin {"retry", "reclaim", "fail", "abort", "compensate"}
          /\ pc'[d] = "select" => idem'[step'[d]].status # "none"
    BY <1>1, <1>2, <2>1, <2>2, <2>3 DEF Calm
  <2>7. Debits' = Debits
    BY <1>3, <2>1
  <2>8. ASSUME NEW d \in Callers, Holds(d, "commit-fiat")'
        PROVE  /\ idem'["commit-fiat"].status = "processing"
               /\ \A e \in Callers : Holds(e, "commit-fiat")' => e = d
               /\ pc'[d] = "body" => Debits' = 0
    <3>1. Holds(d, "commit-fiat") /\ d # c
      BY <2>4, <2>8
    <3>2. step[c] # "commit-fiat"
      BY <2>1, <3>1 DEF Calm, Holds
    <3>3. idem'["commit-fiat"] = idem["commit-fiat"]
      BY <2>3, <3>2
    <3> QED BY <1>2, <2>4, <2>7, <3>1, <3>3 DEF Calm
  <2>9. idem'["commit-fiat"].status = "none" => Debits' = 0
    BY <2>2, <2>3, <2>7 DEF Calm
  <2>10. Debits' <= 1
    BY <2>7 DEF Calm
  <2> QED BY <2>5, <2>6, <2>8, <2>9, <2>10 DEF Calm
<1>11. CASE StepDone(c) \/ Confirm(c) \/ Finish(c)
  <2>1. idem' = idem /\ ledger' = ledger /\ pc[c] \in {"advance", "confirm", "finish"}
    BY <1>11 DEF StepDone, Confirm, Finish
  <2>2. pc'[c] \in {"idle", "start", "confirm", "finish"}
    BY <1>1, <1>11 DEF StepDone, AfterSubmit, Confirm, Finish, RunStep, Return, Goto
  <2> QED BY <1>2, <1>3, <2>1, <2>2, CalmMove
<1>12. ~(BodyThrows(c) \/ StoreFails(c) \/ Crash(c))
  BY <1>1 DEF BodyThrows, StoreFails, Crash, Mishap
<1>13. ~(ClaimKey(c) \/ Fail(c) \/ Abort(c) \/ Compensate(c) \/ RefundFiat(c))
  BY <1>4 DEF ClaimKey, Fail, Abort, Compensate, RefundFiat, MayRefund, LegPath
<1> QED BY <1>5, <1>6, <1>7, <1>8, <1>9, <1>10, <1>11, <1>12, <1>13 DEF Call

LEMMA CalmTime ==
  ASSUME SagaInv, Calm, (\E s \in Step : LeaseExpires(s)) \/ Reap \/ QuoteExpires \/ MintQueued,
         mishaps' = mishaps
  PROVE  Calm'
<1> USE DEF local
<1>1. idem \in [Step -> IdemRow] /\ mishaps \in Nat
  BY DEF SagaInv, TypeOK
<1>2. ~ \E s \in Step : LeaseExpires(s)
  BY <1>1 DEF LeaseExpires, Calm, Mishap
<1>3. Reap => idem' = idem
  <2>1. \A s \in Step : ReconcileStale(idem[s]) = idem[s]
    BY DEF ReconcileStale, Calm
  <2> QED BY <1>1, <2>1 DEF Reap
<1>4. UNCHANGED <<idem, ledger, pc, step>>
  BY <1>2, <1>3 DEF Reap, QuoteExpires, MintQueued
<1> QED BY <1>4 DEF Calm, Holds, Debits

-----------------------------------------------------------------------------
(* The bound.                                                              *)

\* What is counted is finite, and grows or shrinks by the caller that moves.
LEMMA CountFacts ==
  /\ Cardinality(Callers) \in Nat
  /\ \A S \in SUBSET Callers :
       /\ Cardinality(S) \in Nat /\ Cardinality(S) <= Cardinality(Callers)
       /\ \A T \in SUBSET S : Cardinality(T) <= Cardinality(S)
       /\ \A c \in S : \A T \in SUBSET (S \ {c}) : Cardinality(T) + 1 <= Cardinality(S)
       /\ \A c \in Callers : \A T \in SUBSET (S \cup {c}) : Cardinality(T) <= Cardinality(S) + 1
<1>1. IsFiniteSet(Callers)
  BY SagaAssumption
<1>2. Cardinality(Callers) \in Nat
  BY <1>1, FS_CardinalityType
<1>3. ASSUME NEW S \in SUBSET Callers
      PROVE  /\ IsFiniteSet(S)
             /\ Cardinality(S) \in Nat /\ Cardinality(S) <= Cardinality(Callers)
             /\ \A T \in SUBSET S : Cardinality(T) <= Cardinality(S)
             /\ \A c \in S : \A T \in SUBSET (S \ {c}) : Cardinality(T) + 1 <= Cardinality(S)
             /\ \A c \in Callers : \A T \in SUBSET (S \cup {c}) :
                  Cardinality(T) <= Cardinality(S) + 1
  <2>1. IsFiniteSet(S) /\ Cardinality(S) <= Cardinality(Callers)
    BY <1>1, FS_Subset
  <2>2. Cardinality(S) \in Nat
    BY <2>1, FS_CardinalityType
  <2>3. \A T \in SUBSET S : Cardinality(T) <= Cardinality(S)
    BY <2>1, FS_Subset
  <2>4. ASSUME NEW c \in S, NEW T \in SUBSET (S \ {c})
        PROVE  Cardinality(T) + 1 <= Cardinality(S)
    <3>1. IsFiniteSet(S \ {c}) /\ Cardinality(S \ {c}) = Cardinality(S) - 1
      BY <2>1, FS_RemoveElement
    <3>2. IsFiniteSet(T) /\ Cardinality(T) <= Cardinality(S \ {c})
      BY <3>1, FS_Subset
    <3>3. Cardinality(T) \in Nat
      BY <3>2, FS_CardinalityType
    <3> QED BY <2>2, <3>1, <3>2, <3>3
  <2>5. ASSUME NEW c \in Callers, NEW T \in SUBSET (S \cup {c})
        PROVE  Cardinality(T) <= Cardinality(S) + 1
    <3>1. IsFiniteSet(S \cup {c}) /\ Cardinality(S \cup {c}) <= Cardinality(S) + 1
      BY <2>1, <2>2, FS_AddElement
    <3>2. IsFiniteSet(T) /\ Cardinality(T) <= Cardinality(S \cup {c})
      BY <3>1, FS_Subset
    <3>3. Cardinality(T) \in Nat /\ Cardinality(S \cup {c}) \in Nat
      BY <3>1, <3>2, FS_CardinalityType
    <3> QED BY <2>2, <3>1, <3>2, <3>3
  <2> QED BY <2>1, <2>2, <2>3, <2>4, <2>5
<1> QED BY <1>2, <1>3

LEMMA EffectInit == Init => EffectInv
<1> SUFFICES ASSUME Init PROVE EffectInv
  OBVIOUS
<1>1. Debits = 0 /\ Refunds = 0 /\ mishaps = 0
  BY InitCounts DEF Init
<1>2. CopiesTrail
  BY DEF Init, CopiesTrail, NoSaga
<1>3. Calm
  BY <1>1 DEF Init, Calm, Holds, NoIdemRow
<1>4. Refunders = {}
  BY DEF Init, Refunders, MayRefund
<1>5. Cardinality(Refunders) = 0
  BY <1>4, FS_EmptySet
<1> QED BY <1>1, <1>2, <1>3, <1>5 DEF EffectInv

\* The callers that do not move may run what they might before.
LEMMA OthersCount ==
  ASSUME SagaInv, CopiesTrail, NEW c \in Callers, Call(c), NEW d \in Callers, d # c
  PROVE  (MayDebit(d)' => MayDebit(d)) /\ (MayRefund(d)' <=> MayRefund(d))
BY CallTrails, OthersKeep DEF MayDebit, MayRefund

LEMMA EffectCall ==
  ASSUME SagaInv, EffectInv, NEW c \in Callers, Call(c)
  PROVE  EffectInv'
<1>1. Debits \in Nat /\ Refunds \in Nat /\ mishaps \in Nat
  BY EntryFacts DEF SagaInv, TypeOK
<1> DEFINE N == Cardinality(Callers)
           D == Cardinality(Debitors)
           R == Cardinality(Refunders)
<1>2. /\ N \in Nat /\ D \in Nat /\ R \in Nat /\ D' \in Nat /\ R' \in Nat
      /\ Debitors \in SUBSET Callers /\ Refunders \in SUBSET Callers
      /\ D' <= N
  BY CountFacts DEF Debitors, Refunders
<1>3. CopiesTrail' /\ CopiesTrail
  BY CallTrails DEF EffectInv
<1>4. \A d \in Callers : d # c => /\ MayDebit(d)' => MayDebit(d)
                                  /\ MayRefund(d)' <=> MayRefund(d)
  BY <1>3, OthersCount
<1>5. mishaps * N \in Nat /\ (mishaps + 1) * N = mishaps * N + N
  BY <1>1, <1>2
<1>6. CASE mishaps' = mishaps
  <2>1. /\ MayDebit(c)' => MayDebit(c)
        /\ MayRefund(c)' => MayRefund(c)
        /\ \/ Debits' = Debits
           \/ Debits' = Debits + 1 /\ MayDebit(c) /\ ~MayDebit(c)'
        /\ \/ Refunds' = Refunds
           \/ Refunds' = Refunds + 1 /\ MayRefund(c) /\ ~MayRefund(c)'
    BY <1>3, <1>6, CallCounts
  <2>2. Debits' + D' <= Debits + D
    <3>1. CASE Debits' = Debits
      <4>1. Debitors' \in SUBSET Debitors
        BY <1>4, <2>1 DEF Debitors
      <4> QED BY <1>1, <1>2, <3>1, <4>1, CountFacts
    <3>2. CASE Debits' = Debits + 1 /\ MayDebit(c) /\ ~MayDebit(c)'
      <4>1. c \in Debitors /\ Debitors' \in SUBSET (Debitors \ {c})
        BY <1>4, <3>2 DEF Debitors
      <4>2. D' + 1 <= D
        BY <1>2, <4>1, CountFacts
      <4> QED BY <1>1, <1>2, <3>2, <4>2
    <3> QED BY <2>1, <3>1, <3>2
  <2>3. Refunds' + R' <= Refunds + R
    <3>1. CASE Refunds' = Refunds
      <4>1. Refunders' \in SUBSET Refunders
        BY <1>4, <2>1 DEF Refunders
      <4> QED BY <1>1, <1>2, <3>1, <4>1, CountFacts
    <3>2. CASE Refunds' = Refunds + 1 /\ MayRefund(c) /\ ~MayRefund(c)'
      <4>1. c \in Refunders /\ Refunders' \in SUBSET (Refunders \ {c})
        BY <1>4, <3>2 DEF Refunders
      <4>2. R' + 1 <= R
        BY <1>2, <4>1, CountFacts
      <4> QED BY <1>1, <1>2, <3>2, <4>2
    <3> QED BY <2>1, <3>1, <3>2
  <2>4. mishaps = 0 => Calm'
    <3> SUFFICES ASSUME mishaps = 0 PROVE Calm'
      OBVIOUS
    <3>1. Refunders = {}
      <4>1. R = 0
        BY <1>1, <1>2 DEF EffectInv
      <4>2. IsFiniteSet(Refunders)
        BY SagaAssumption, FS_Subset DEF Refunders
      <4> QED BY <4>1, <4>2, FS_EmptySet
    <3>2. ~MayRefund(c)
      BY <3>1 DEF Refunders
    <3> QED BY <1>6, <3>2, CalmCall DEF EffectInv
  <2>5. mishaps' > 0 => Debits' + D' <= 1 + mishaps' * N
    <3>1. Debits' \in Nat
      BY <1>1, <2>1
    <3>2. mishaps > 0 => Debits + D <= 1 + mishaps * N
      BY DEF EffectInv
    <3> DEFINE M == mishaps * N
    <3>3. M \in Nat /\ (mishaps > 0 => Debits + D <= 1 + M)
      BY <1>5, <3>2
    <3> HIDE DEF M
    <3>4. mishaps > 0 => Debits' + D' <= 1 + M
      BY <1>1, <1>2, <2>2, <3>1, <3>3
    <3>5. mishaps > 0 => Debits' + D' <= 1 + mishaps * N
      BY <3>4 DEF M
    <3> QED BY <1>6, <3>5
  <2>6. Refunds' + R' <= mishaps'
    <3>1. Refunds' \in Nat /\ Refunds + R <= mishaps
      BY <1>1, <2>1 DEF EffectInv
    <3> QED BY <1>1, <1>2, <1>6, <2>3, <3>1
  <2> QED BY <1>3, <1>6, <2>4, <2>5, <2>6 DEF EffectInv
<1>7. CASE BodyThrows(c) \/ StoreFails(c) \/ Crash(c)
  <2>1. /\ mishaps' = mishaps + 1
        /\ \/ Debits' = Debits
           \/ /\ Debits' = Debits + 1
              /\ step[c] = "commit-fiat" /\ pc[c] = "body"
        /\ \/ Refunds' = Refunds
           \/ Refunds' = Refunds + 1 /\ MayRefund(c) /\ ~MayRefund(c)'
    BY <1>7, MishapCounts
  <2>2. Debits' <= 1 + mishaps * N
    <3>1. CASE mishaps = 0
      <4>1. Debits' <= 1
        <5>1. Debits <= 1
          BY <3>1 DEF EffectInv, Calm
        <5>2. step[c] = "commit-fiat" /\ pc[c] = "body" => Debits = 0
          BY <3>1 DEF EffectInv, Calm, Holds
        <5> QED BY <1>1, <2>1, <5>1, <5>2
      <4>2. Debits' \in Nat
        BY <1>1, <2>1
      <4> QED BY <1>5, <4>1, <4>2
    <3>2. CASE mishaps > 0
      <4>1. Debits + D <= 1 + mishaps * N
        BY <3>2 DEF EffectInv
      <4>2. Debits' <= Debits + D
        <5>1. CASE Debits' = Debits
          BY <1>1, <1>2, <5>1
        <5>2. CASE Debits' = Debits + 1 /\ step[c] = "commit-fiat" /\ pc[c] = "body"
          <6>1. c \in Debitors
            BY <5>2 DEF Debitors, MayDebit, LegPath
          <6>2. D >= 1
            <7>1. {} \in SUBSET (Debitors \ {c}) /\ Cardinality({}) = 0
              BY FS_EmptySet
            <7> QED BY <1>2, <6>1, <7>1, CountFacts
          <6> QED BY <1>1, <1>2, <5>2, <6>2
        <5> QED BY <2>1, <5>1, <5>2
      <4>3. Debits' \in Nat
        BY <1>1, <2>1
      <4> HIDE DEF N, D
      <4> QED BY <1>1, <1>2, <1>5, <4>1, <4>2, <4>3
    <3> QED BY <1>1, <3>1, <3>2
  <2>3. Debits' + D' <= 1 + mishaps' * N
    <3>1. Debits' \in Nat
      BY <1>1, <2>1
    <3> HIDE DEF N, D
    <3>2. mishaps' * N = mishaps * N + N
      BY <1>5, <2>1
    <3> QED BY <1>1, <1>2, <1>5, <2>2, <3>1, <3>2
  <2>4. Refunds' + R' <= mishaps'
    <3>1. Refunds + R <= mishaps
      BY DEF EffectInv
    <3>2. CASE Refunds' = Refunds
      <4>1. Refunders' \in SUBSET (Refunders \cup {c})
        BY <1>4 DEF Refunders
      <4>2. R' <= R + 1
        BY <1>2, <4>1, CountFacts
      <4> QED BY <1>1, <1>2, <2>1, <3>1, <3>2, <4>2
    <3>3. CASE Refunds' = Refunds + 1 /\ MayRefund(c) /\ ~MayRefund(c)'
      <4>1. c \in Refunders /\ Refunders' \in SUBSET (Refunders \ {c})
        BY <1>4, <3>3 DEF Refunders
      <4>2. R' + 1 <= R
        BY <1>2, <4>1, CountFacts
      <4> QED BY <1>1, <1>2, <2>1, <3>1, <3>3, <4>2
    <3> QED BY <2>1, <3>2, <3>3
  <2>5. mishaps' # 0
    BY <1>1, <2>1
  <2> QED BY <1>3, <2>3, <2>4, <2>5 DEF EffectInv
<1>8. ~(BodyThrows(c) \/ StoreFails(c) \/ Crash(c)) => mishaps' = mishaps
  BY DEF Call, Convert, ConvertFx, ConvertFxThrows, InsertKey, SelectKey, ClaimKey, CommitFiat,
         SubmitOnchain, RefundFiat, Complete, Fail, StepDone, Abort, Compensate, Confirm,
         Finish, env
<1> QED BY <1>6, <1>7, <1>8

LEMMA EffectTime ==
  ASSUME SagaInv, EffectInv,
         \/ \E s \in Step : LeaseExpires(s)
         \/ Reap \/ QuoteExpires \/ MintQueued \/ UNCHANGED vars
  PROVE  EffectInv'
<1> USE DEF local, env
<1> DEFINE N == Cardinality(Callers)
           D == Cardinality(Debitors)
           R == Cardinality(Refunders)
<1>1. /\ UNCHANGED <<saga, ledger, cur, pc, step>>
      /\ mishaps' \in {mishaps, mishaps + 1}
  BY DEF LeaseExpires, Mishap, Reap, QuoteExpires, MintQueued, vars
<1>2. /\ Debits' = Debits /\ Refunds' = Refunds
      /\ Debitors' = Debitors /\ Refunders' = Refunders /\ (CopiesTrail <=> CopiesTrail')
  BY <1>1 DEF Debits, Refunds, Debitors, Refunders, MayDebit, MayRefund, Unlocked, CopiesTrail
<1>3. Debits \in Nat /\ Refunds \in Nat /\ mishaps \in Nat
  BY EntryFacts DEF SagaInv, TypeOK
<1>4. N \in Nat /\ D \in Nat /\ R \in Nat /\ D <= N /\ D' = D /\ R' = R
  BY <1>2, CountFacts DEF Debitors, Refunders
<1>5. mishaps * N \in Nat /\ (mishaps + 1) * N = mishaps * N + N
  BY <1>3, <1>4
<1>6. mishaps' = 0 => Calm'
  <2> SUFFICES ASSUME mishaps' = 0 PROVE Calm'
    OBVIOUS
  <2>1. mishaps = 0 /\ mishaps' = mishaps
    BY <1>1, <1>3
  <2>2. CASE UNCHANGED vars
    BY <2>1, <2>2 DEF EffectInv, Calm, Holds, Debits, vars
  <2> QED BY <2>1, <2>2, CalmTime DEF EffectInv
<1>7. mishaps' > 0 => Debits' + D' <= 1 + mishaps' * N
  <2>1. CASE mishaps' = mishaps
    BY <1>2, <1>4, <2>1 DEF EffectInv
  <2>2. CASE mishaps' = mishaps + 1
    <3>1. Debits <= 1 + mishaps * N
      <4>1. mishaps = 0 => Debits <= 1
        BY DEF EffectInv, Calm
      <4>2. mishaps > 0 => Debits + D <= 1 + mishaps * N
        BY DEF EffectInv
      <4> HIDE DEF N, D
      <4> QED BY <1>3, <1>4, <1>5, <4>1, <4>2
    <3> HIDE DEF N, D
    <3>2. mishaps' * N = mishaps * N + N
      BY <1>5, <2>2
    <3> QED BY <1>2, <1>3, <1>4, <1>5, <3>1, <3>2
  <2> QED BY <1>1, <2>1, <2>2
<1>8. Refunds' + R' <= mishaps'
  <2>1. Refunds + R <= mishaps
    BY DEF EffectInv
  <2> HIDE DEF R
  <2> QED BY <1>1, <1>2, <1>3, <1>4, <2>1
<1> QED BY <1>2, <1>6, <1>7, <1>8 DEF EffectInv

LEMMA EffectInductive == SagaInv /\ EffectInv /\ [Next]_vars => EffectInv'
<1> SUFFICES ASSUME SagaInv, EffectInv, [Next]_vars PROVE EffectInv'
  OBVIOUS
<1> QED BY EffectCall, EffectTime DEF Next

LEMMA EffectImpliesBound == SagaInv /\ EffectInv => EffectsBounded
<1> SUFFICES ASSUME SagaInv, EffectInv PROVE EffectsBounded
  OBVIOUS
<1> DEFINE N == Cardinality(Callers)
           D == Cardinality(Debitors)
           R == Cardinality(Refunders)
<1>1. /\ Debits \in Nat /\ Refunds \in Nat /\ mishaps \in Nat
      /\ N \in Nat /\ D \in Nat /\ R \in Nat
  BY EntryFacts, CountFacts DEF SagaInv, TypeOK, Debitors, Refunders
<1>2. mishaps * N \in Nat
  BY <1>1
<1>3. /\ mishaps = 0 => Debits <= 1
      /\ mishaps > 0 => Debits + D <= 1 + mishaps * N
      /\ Refunds + R <= mishaps
  BY DEF EffectInv, Calm
<1>4. Debits <= 1 + mishaps * N /\ Refunds <= mishaps
  <2> HIDE DEF N, D, R
  <2> QED BY <1>1, <1>2, <1>3
<1> QED BY <1>4 DEF EffectsBounded

\* The keys of api_idempotency hold the legs of a conversion to what fails:
\* one debit, and one more of each caller for each mishap; one refund for each.
THEOREM LegsAreBounded == Spec => []EffectsBounded
<1> QED BY LegsAreKnown, EffectInit, EffectInductive, EffectImpliesBound, PTL DEF Spec

-----------------------------------------------------------------------------
(* Sagas that nobody takes up again.                                       *)

LEMMA LeftStep ==
  ASSUME TypeOK, Left, [Next]_vars
  PROVE  Left' /\ UNCHANGED <<saga, ledger>>
<1>1. ASSUME NEW c \in Callers, Convert(c) PROVE Left' /\ UNCHANGED <<saga, ledger>>
  <2>1. saga' = saga /\ UNCHANGED <<expired, ledger>>
    BY <1>1 DEF Convert, Left
  <2>2. Return(c)
    BY <1>1, <2>1 DEF Convert, Left, Continue
  <2> QED BY <2>1, <2>2 DEF Left, Return, Goto, TypeOK
<1>2. ASSUME NEW c \in Callers, Call(c) PROVE Convert(c)
  <2>1. pc[c] = "idle"
    BY DEF Left
  <2> QED BY <1>2, <2>1
          DEF Call, ConvertFx, ConvertFxThrows, InsertKey, SelectKey, ClaimKey, CommitFiat,
              SubmitOnchain, RefundFiat, BodyThrows, Complete, Fail, StepDone, Abort, Compensate,
              Confirm, Finish, StoreFails, Crash
<1>3. ASSUME NEW s \in Step, LeaseExpires(s) PROVE Left' /\ UNCHANGED <<saga, ledger>>
  BY <1>3 DEF LeaseExpires, Left, local
<1>4. CASE Reap \/ QuoteExpires \/ MintQueued
  BY <1>4 DEF Reap, QuoteExpires, MintQueued, Left, local, env
<1>5. CASE UNCHANGED vars
  BY <1>5 DEF vars, Left
<1> QED BY <1>1, <1>2, <1>3, <1>4, <1>5 DEF Next

\* A saga in which no call runs, and that has passed the states execute goes on
\* from or whose quote has expired, is left as it is for good: a deposit debited
\* and not converted is neither minted nor refunded by any later convert(), and
\* a refund that was interrupted is not resumed (conversionSagaService.ts:288;
\* listInFlight has no caller).
THEOREM InterruptedSagasAreLeft == Spec => LeftForGood
<1>1. TypeOK /\ [Next]_vars => [Left => Left' /\ UNCHANGED <<saga, ledger>>]_vars
  BY LeftStep
<1>2. SagaInv => TypeOK
  BY DEF SagaInv
<1> QED BY <1>1, <1>2, LegsAreKnown, PTL DEF Spec, LeftForGood

=============================================================================
