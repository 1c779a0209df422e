--------------------------- MODULE ConversionSaga ---------------------------
(***************************************************************************)
(* ConversionSagaService: the conversion of one deposit, driven by         *)
(* convert() calls that may run at once, fail and be repeated.             *)
(*                                                                         *)
(* Every await on a store is a step of its own.  The quote and the         *)
(* provider reference are abstracted to whether the quote has expired and  *)
(* whether a reference is stamped; amounts are in units of the deposit.    *)
(***************************************************************************)
EXTENDS NgnLedger, DurableIdempotency, FiniteSets

CONSTANTS
  Callers,        \* processes that call convert() for the deposit
  Faults,         \* what may go wrong: {"fiat", "chain", "store", "slow", "crash"}
  MaxMishaps,     \* bound: how often it does
  MaxCalls        \* bound: convert() calls

ASSUME SagaAssumption ==
  /\ IsFiniteSet(Callers)
  /\ MaxMishaps \in Nat /\ MaxCalls \in Nat

VARIABLES
  saga,     \* the row of conversion_sagas
  expired,  \* its rate_expires_at has passed
  idem,     \* the rows of api_idempotency, one for each step
  ledger,   \* the NGN ledger of the user
  chain,    \* the CONVERSION row of the outbox: none, queued or minted
  pc, step, cur, confirmed,   \* of each caller: where it is, the step it runs,
                              \* its copy of the row, what submit returned
  mishaps, calls

vars  == <<saga, expired, idem, ledger, chain, pc, step, cur, confirmed, mishaps, calls>>
local == <<pc, step, cur, confirmed>>
env   == <<expired, mishaps, calls>>

State == {"absent", "quote_locked", "fiat_committed", "onchain_submitted",
          "onchain_confirmed", "completed", "compensating", "compensated", "failed"}
Terminal == {"completed", "compensated", "failed"}

Saga   == [state : State, stamped : BOOLEAN]
NoSaga == [state |-> "absent", stamped |-> FALSE]

Step == {"commit-fiat", "submit-onchain", "compensate"}

SagaTransitions ==
  {<<"quote_locked", "fiat_committed">>, <<"quote_locked", "failed">>,
   <<"fiat_committed", "onchain_submitted">>, <<"fiat_committed", "compensating">>,
   <<"onchain_submitted", "onchain_confirmed">>, <<"onchain_submitted", "compensating">>,
   <<"onchain_confirmed", "completed">>, <<"onchain_confirmed", "compensating">>,
   <<"compensating", "compensated">>}

CanTransition(from, to) == from = to \/ <<from, to>> \in SagaTransitions

Init ==
  /\ saga = NoSaga
  /\ expired = FALSE
  /\ idem = [s \in Step |-> NoIdemRow]
  /\ ledger = NoEntries
  /\ chain = "none"
  /\ pc = [c \in Callers |-> "idle"]
  /\ step = [c \in Callers |-> "commit-fiat"]
  /\ cur = [c \in Callers |-> NoSaga]
  /\ confirmed = [c \in Callers |-> FALSE]
  /\ mishaps = 0 /\ calls = 0

-----------------------------------------------------------------------------
(* The control flow of a caller.                                           *)

Goto(c, l) == pc' = [pc EXCEPT ![c] = l]

\* The call is over; an error ends it as well.
Return(c) == Goto(c, "idle") /\ UNCHANGED step

RunStep(c, s) == Goto(c, "start") /\ step' = [step EXCEPT ![c] = s]

Mishap(kind) ==
  /\ kind \in Faults /\ mishaps < MaxMishaps
  /\ mishaps' = mishaps + 1

\* execute, from the record it has at hand.
Continue(c, r) ==
  \/ r.state = "quote_locked" /\ ~r.stamped /\ Goto(c, "convert") /\ UNCHANGED step
  \/ r.state = "quote_locked" /\ r.stamped /\ RunStep(c, "commit-fiat")
  \/ r.state = "fiat_committed" /\ RunStep(c, "submit-onchain")
  \/ r.state \notin {"quote_locked", "fiat_committed"} /\ Return(c)

\* transition with expectedState: a compare-and-set that returns the row.
\* Mutant: the state is not compared.
CompareAndSetAnyway(c, new) ==
  /\ saga' = new
  /\ cur' = [cur EXCEPT ![c] = saga']

CompareAndSet(c, new) ==
  /\ saga' = IF saga.state = cur[c].state THEN new ELSE saga
  /\ cur' = [cur EXCEPT ![c] = saga']

\* advance; the record it returns may be in another state than asked for.
Advance(c, to) ==
  /\ CanTransition(cur[c].state, to)
  /\ CompareAndSet(c, [saga EXCEPT !.state = to])

CannotAdvance(c, to) == ~CanTransition(cur[c].state, to) /\ UNCHANGED <<saga, cur>>

\* What follows a step that has thrown: abort, compensate, or give up.
StepThrows(c) ==
  Goto(c, CASE step[c] = "commit-fiat"    -> "abort"
            [] step[c] = "submit-onchain" -> "compensate"
            [] step[c] = "compensate"     -> "idle")

-----------------------------------------------------------------------------
(* convert(): lockQuote, then execute.                                     *)

\* The row exists or is created, and execute starts on the record returned.
Convert(c) ==
  /\ pc[c] = "idle" /\ calls < MaxCalls
  /\ calls' = calls + 1
  /\ saga' = IF saga.state = "absent" THEN [state |-> "quote_locked", stamped |-> FALSE]
                                      ELSE saga
  /\ cur' = [cur EXCEPT ![c] = saga']
  /\ IF expired THEN Return(c) ELSE Continue(c, saga')
  /\ UNCHANGED <<expired, idem, ledger, chain, confirmed, mishaps>>

\* The provider converts; the reference is stamped on a row still locked.
ConvertFx(c) ==
  /\ pc[c] = "convert"
  /\ CompareAndSet(c, [saga EXCEPT !.stamped = TRUE])
  /\ Continue(c, saga')
  /\ UNCHANGED <<idem, ledger, chain, confirmed, env>>

\* It does not, or its rate is outside the slippage policy.
ConvertFxThrows(c) ==
  /\ pc[c] = "convert"
  /\ Return(c)
  /\ UNCHANGED <<saga, idem, ledger, chain, cur, confirmed, env>>

-----------------------------------------------------------------------------
(* runStep: durableIdempotencyService.start, the body, complete or fail.   *)

InsertKey(c) ==
  /\ pc[c] = "start"
  /\ IF idem[step[c]].status = "none"
     THEN idem' = [idem EXCEPT ![step[c]] = Processing] /\ Goto(c, "body")
     ELSE UNCHANGED idem /\ Goto(c, "select")
  /\ UNCHANGED <<saga, ledger, chain, step, cur, confirmed, env>>

\* A step replayed returns undefined, which is not confirmed.
SelectKey(c) ==
  /\ pc[c] = "select"
  /\ Goto(c, CASE Decision(idem[step[c]]) = "replay"    -> "advance"
               [] Decision(idem[step[c]]) = "retry"     -> "retry"
               [] Decision(idem[step[c]]) = "reclaim"   -> "reclaim"
               [] Decision(idem[step[c]]) = "in_flight" -> "idle"
               [] Decision(idem[step[c]]) = "proceed"   -> "body")
  /\ confirmed' = [confirmed EXCEPT ![c] = FALSE]
  /\ UNCHANGED <<saga, idem, ledger, chain, step, cur, env>>

ClaimKey(c) ==
  /\ \/ /\ pc[c] = "retry"
        /\ idem' = [idem EXCEPT ![step[c]] = RetryFailed(@)]
     \/ /\ pc[c] = "reclaim"
        /\ idem' = [idem EXCEPT ![step[c]] = ReclaimLease(@)]
  /\ Goto(c, "body")
  /\ UNCHANGED <<saga, ledger, chain, step, cur, confirmed, env>>

CommitFiat(c) ==
  /\ pc[c] = "body" /\ step[c] = "commit-fiat"
  /\ ledger' = DebitNgnForConversion(ledger, 1)
  /\ Goto(c, "complete")
  /\ UNCHANGED <<saga, idem, chain, step, cur, confirmed, env>>

\* outboxStore.create is idempotent, and send tells a recorded receipt; that
\* it does is proved of the outbox.
SubmitOnchain(c) ==
  /\ pc[c] = "body" /\ step[c] = "submit-onchain"
  /\ \E ok \in BOOLEAN, k \in {"queued", "minted"} :
       /\ chain = "minted" \/ ok => k = "minted"
       /\ chain' = k
       /\ confirmed' = [confirmed EXCEPT ![c] = ok]
  /\ Goto(c, "complete")
  /\ UNCHANGED <<saga, idem, ledger, step, cur, env>>

RefundFiat(c) ==
  /\ pc[c] = "body" /\ step[c] = "compensate"
  /\ ledger' = ReverseTopUp(ledger, 1)
  /\ Goto(c, "complete")
  /\ UNCHANGED <<saga, idem, chain, step, cur, confirmed, env>>

\* The wallet or the outbox store throws, before or after it has written.
BodyThrows(c) ==
  /\ pc[c] = "body"
  /\ \/ /\ step[c] = "commit-fiat" /\ Mishap("fiat")
        /\ ledger' \in {ledger, DebitNgnForConversion(ledger, 1)} /\ UNCHANGED chain
     \/ /\ step[c] = "compensate" /\ Mishap("fiat")
        /\ ledger' \in {ledger, ReverseTopUp(ledger, 1)} /\ UNCHANGED chain
     \/ /\ step[c] = "submit-onchain" /\ Mishap("chain")
        /\ chain' \in {chain, IF chain = "none" THEN "queued" ELSE chain}
        /\ UNCHANGED ledger
  /\ Goto(c, "fail")
  /\ UNCHANGED <<saga, idem, step, cur, confirmed, expired, calls>>

Complete(c) ==
  /\ pc[c] = "complete"
  /\ idem' = [idem EXCEPT ![step[c]] = CompleteKey(@)]
  /\ Goto(c, "advance")
  /\ UNCHANGED <<saga, ledger, chain, step, cur, confirmed, env>>

Fail(c) ==
  /\ pc[c] = "fail"
  /\ idem' = [idem EXCEPT ![step[c]] = FailKey(@)]
  /\ StepThrows(c)
  /\ UNCHANGED <<saga, ledger, chain, step, cur, confirmed, env>>

-----------------------------------------------------------------------------
(* The transitions of the row that follow a step.                          *)

\* Mutant: the saga is completed though the receipt is only queued.
ConfirmQueued(c) == Goto(c, "confirm") /\ UNCHANGED step

AfterSubmit(c) ==
  IF confirmed[c] THEN Goto(c, "confirm") /\ UNCHANGED step ELSE Return(c)

StepDone(c) ==
  /\ pc[c] = "advance"
  /\ \/ /\ step[c] = "commit-fiat" /\ Advance(c, "fiat_committed")
        /\ IF saga'.state = "fiat_committed" THEN RunStep(c, "submit-onchain") ELSE Return(c)
     \/ /\ step[c] = "submit-onchain" /\ Advance(c, "onchain_submitted")
        /\ AfterSubmit(c)
     \/ /\ step[c] = "compensate"
        /\ Advance(c, "compensated") \/ CannotAdvance(c, "compensated")
        /\ Return(c)
  /\ UNCHANGED <<idem, ledger, chain, confirmed, env>>

\* The fiat commit has failed: the saga has, if it is still locked.
Abort(c) ==
  /\ pc[c] = "abort"
  /\ Advance(c, "failed")
  /\ Return(c)
  /\ UNCHANGED <<idem, ledger, chain, confirmed, env>>

\* The refund runs whatever record the transition has returned.
Compensate(c) ==
  /\ pc[c] = "compensate"
  /\ Advance(c, "compensating")
  /\ RunStep(c, "compensate")
  /\ UNCHANGED <<idem, ledger, chain, confirmed, env>>

Confirm(c) ==
  /\ pc[c] = "confirm"
  /\ \/ Advance(c, "onchain_confirmed") /\ Goto(c, "finish") /\ UNCHANGED step
     \/ CannotAdvance(c, "onchain_confirmed") /\ Return(c)
  /\ UNCHANGED <<idem, ledger, chain, confirmed, env>>

Finish(c) ==
  /\ pc[c] = "finish"
  /\ Advance(c, "completed") \/ CannotAdvance(c, "completed")
  /\ Return(c)
  /\ UNCHANGED <<idem, ledger, chain, confirmed, env>>

-----------------------------------------------------------------------------
(* What goes wrong, and time.                                              *)

\* A query on conversion_sagas or api_idempotency fails.  Within runStep the
\* error is taken for one of the step, even after its body has run.
StoreFails(c) ==
  /\ Mishap("store")
  /\ \/ pc[c] \in {"start", "select", "retry", "reclaim", "fail"} /\ StepThrows(c)
     \/ pc[c] = "complete" /\ Goto(c, "fail")
     \/ pc[c] \in {"convert", "advance", "abort", "compensate", "confirm", "finish"}
        /\ Goto(c, "idle")
  /\ UNCHANGED <<saga, idem, ledger, chain, step, cur, confirmed, expired, calls>>

Crash(c) ==
  /\ pc[c] # "idle" /\ Mishap("crash")
  /\ Goto(c, "idle")
  /\ UNCHANGED <<saga, idem, ledger, chain, step, cur, confirmed, expired, calls>>

Holds(c, s) == step[c] = s /\ pc[c] \in {"body", "complete", "fail"}

\* A lease outlives its holder, unless the holder is slow.
LeaseExpires(s) ==
  /\ idem[s].status = "processing" /\ ~idem[s].stale
  /\ \/ (\A c \in Callers : ~Holds(c, s)) /\ UNCHANGED mishaps
     \/ (\E c \in Callers : Holds(c, s)) /\ Mishap("slow")
  /\ idem' = [idem EXCEPT ![s].stale = TRUE]
  /\ UNCHANGED <<saga, expired, ledger, chain, local, calls>>

Reap ==
  /\ idem' = [s \in Step |-> ReconcileStale(idem[s])]
  /\ UNCHANGED <<saga, ledger, chain, local, env>>

QuoteExpires ==
  /\ saga.state # "absent" /\ ~expired
  /\ expired' = TRUE
  /\ UNCHANGED <<saga, idem, ledger, chain, local, mishaps, calls>>

\* The outbox worker sends what is queued.
MintQueued ==
  /\ chain = "queued" /\ chain' = "minted"
  /\ UNCHANGED <<saga, idem, ledger, local, env>>

-----------------------------------------------------------------------------

Call(c) ==
  \/ Convert(c) \/ ConvertFx(c) \/ ConvertFxThrows(c)
  \/ InsertKey(c) \/ SelectKey(c) \/ ClaimKey(c)
  \/ CommitFiat(c) \/ SubmitOnchain(c) \/ RefundFiat(c) \/ BodyThrows(c)
  \/ Complete(c) \/ Fail(c)
  \/ StepDone(c) \/ Abort(c) \/ Compensate(c) \/ Confirm(c) \/ Finish(c)
  \/ StoreFails(c) \/ Crash(c)

Next ==
  \/ \E c \in Callers : Call(c)
  \/ \E s \in Step : LeaseExpires(s)
  \/ Reap \/ QuoteExpires \/ MintQueued

Spec == Init /\ [][Next]_vars

=============================================================================
