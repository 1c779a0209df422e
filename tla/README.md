# Formal specification of shelterflex-api

Shelterflex is the backend of a rent-financing platform. It keeps naira wallets,
takes payments by webhook, converts naira to USDC, and writes receipts, stakes and
deal changes to a Soroban contract through a transactional outbox. What can go wrong
in it goes wrong between two `await`s: two runs of a worker over one row, a reply
that is lost, a process that dies between two statements, a retry of what was
already done. These modules model the parts where that matters. TLC checks them on
small instances, and TLAPS proves the most important properties for every value of
the constants.

Paths below are relative to `src/src/` unless they start with `docs/`, which is
`src/docs/`.

1. [Inventory](#1-inventory)
2. [Modules](#2-modules)
3. [How the models correspond to the code](#3-how-the-models-correspond-to-the-code)
4. [Runs](#4-runs)
5. [Proofs](#5-proofs)
6. [Where code and documentation disagree](#6-where-code-and-documentation-disagree)
7. [What is not modelled](#7-what-is-not-modelled)
8. [Plan](#8-plan)

## 1. Inventory

The process is one Node event loop per server; several servers share a Postgres
database (with in-memory stores as the fallback of a single server). All mutual
exclusion is by rows: claims, leases, unique keys, compare-and-set updates, advisory
locks. Background work is driven by `setInterval`, which starts a pass whether or
not the last one has ended.

| Component | State | Operations | What is hard | What makes it correct |
|---|---|---|---|---|
| Outbox (`outbox/`, `services/outboxProcessor.ts`) | rows of `outbox_items`: status, retry count, transaction hash, claim | create, claim, send, resolve, confirm, retry, dead-letter, admin retry and mark-dead | overlapping runs; decisions from snapshots; crash after a broadcast; lost replies | SENT only with a receipt on chain; one broadcast; every row settles |
| Soroban adapter (`soroban/`) | none of its own; the circuit breaker has a state | build, sign, broadcast, wait, query | late and lost replies, error texts that decide | a transaction is reported applied only if it is |
| Job scheduler (`jobs/scheduler/`) | rows of `scheduled_jobs`: status, retry count, lease | list due, acquire, run, complete, fail, reschedule, recover stale leases, admin | listing races acquiring; leases outlived; crash while running | one worker per job; retries bounded; a waiting job settles |
| Conversion saga (`services/conversionSagaService.ts`) | `conversion_sagas` | lock quote, commit fiat, submit on chain, confirm, finish, abort, compensate | racing callers, failures before and after an effect, leases of two minutes | the row never runs ahead of the two legs; only legal moves; effects bounded |
| Idempotency keys (`services/durableIdempotencyService.ts`) | `api_idempotency` | start, complete, fail, reconcile stale | two owners of one key | a completed step is replayed, not repeated |
| NGN wallet (`services/ngnWalletService.ts`) | ledger entries, withdrawals, a lock per wallet, risk state | credit, reverse, reserve, release, debit, withdraw, approve, reject, freeze | checks in one await and entries in the next; repeated webhooks; freeze reasons overwritten | no overdraft; entries once; a payment is credited; an admin's freeze holds |
| Payment webhooks (`routes/webhooks.ts`, `payments/`) | deposit status, claimed event ids | confirmed, failed, reversed, reversal of a record | repeated, late and reordered events | status only advances; one credit per deposit |
| Stellar sequence allocator (`services/stellarSequenceAllocator.ts`) | two tables, in-process locks, an advisory lock | allocate, confirm, fail, recover holes | the lock wakes all waiters; the advisory lock is on any connection of the pool | no number is given to two transactions |
| Circuit breaker (`soroban/circuit-breaker.ts`) | CLOSED, OPEN, HALF_OPEN, counters | check, admit, refuse, record a success, a transient or a permanent error | results that come late or never, or that are no verdict | no more test calls than tokens; it recovers |
| Settlement outbox (`settlement/`, `models/dealStore.ts:475`) | `settlement_outbox` and its dead letters | mark paid with its events, claim, execute, retry, bury, replay | overlapping ticks; a crash between two tables or in `processing`; a replay beside a tick | no event of a paid instalment is lost; one tick per event; executions bounded; every event settles |
| Chain indexers (`indexer/`) | receipts, time-locks, two checkpoints that all processes share | start, poll, store, move the checkpoint | repeated pages; processes that overtake one another; swallowed errors; failures that end the process | no receipt is passed over; a transaction is shown behind only for a named reason; the tables catch up |
| Deals (`services/deals/`, `workers/dealStatusSyncWorker.ts`) | deal status, rows it shares with the outbox | transition, synchronise | two workers on the same rows | only legal transitions reach the chain |
| Key and secret rotation | versions of keys, audit | propose, activate, retire, roll back | overlapping rotations | one active key; nothing signed with a retired one |
| Outgoing webhooks, replay | deliveries | deliver, retry, replay | repeats | each subscriber gets each event |
| Reconciliation (`reconciliation/`, `routes/ledgerReconciliation.ts`) | ledger events, notices, mismatches, a leader lock; repairs and drift in memory | ingest, classify, report, repair, escalate, close by hand | notices late, short or doubled; a lock on any connection; passes that overlap; memory lost | one leader; a credit once per life; no silent verdict; every event decided; bounded drift |
| Whistleblower rewards (`services/whistleblowerRewardService.ts`, `routes/admin.ts:566`) | `whistleblower_rewards`, receipts in the outbox | open at activation, release or cancel, mark paid | looking up and inserting, listing and deciding, reading and paying are statements apart | nothing is paid before the hold period; a reward is doubled only by a race |
| Rate limits, payouts and bonds, late payments, scoring, notifications, authentication, other jobs | tables of their own | requests and daily jobs | mostly local | see section 7 |

How they interact: handlers and services create outbox rows and send them at once
through `OutboxSender`; `OutboxWorker` (one in `app.ts`, one more in
`outbox/workerEntry.ts`) sends the rest. The saga debits the wallet, and mints
through an outbox row. `stake-ngn` reserves in the wallet, converts, debits and
creates an outbox row. Webhooks move deposits and the wallet. The scheduler runs the
jobs. Marking an instalment paid inserts rows of the settlement outbox in the same
transaction. Activating a deal opens a reward, and paying it creates an outbox row.
The adapter is wrapped by the circuit breaker. The indexers and the reconciliation
read the chain back.

The list of everything in this code that is hard to test, with the line where it
bites and the properties that cover it, is `hazards` in `PROJECT.json`.

## 2. Modules

| Module | Models |
|---|---|
| `OutboxRows` | a row of `outbox_items` and the statements of `PostgresOutboxStore` as functions of rows |
| `Outbox` | runs of `OutboxWorker.process()`, `OutboxSender.send()`, the adapter's submission, handlers, admin routes, crashes, the chain |
| `ReceiptDelivery` | abstract specification: what the outbox promises the backend |
| `OutboxProps`, `OutboxProofs` | its properties; its theorems |
| `JobScheduler`, `JobSchedulerProps`, `JobSchedulerProofs` | ticks of `JobScheduler` over `scheduled_jobs` |
| `NgnLedger` | a wallet's ledger as the sum of its entries of each type, and the balances |
| `DurableIdempotency` | a row of `api_idempotency` and the statements on it |
| `ConversionSaga`, `ConversionSagaProps`, `ConversionSagaProofs` | `convert()` by several callers for one deposit; composes the two modules above |
| `NgnWallet`, `NgnWalletProps`, `NgnWalletProofs` | one wallet under webhooks, withdrawals, staking and freezes; composes `NgnLedger` |
| `Settlement`, `SettlementProps`, `SettlementProofs` | instalments that are marked paid, ticks of `SettlementOutboxWorker`, dead letters and replays |
| `Reconciliation` | events, notices, the leader lock and the classifying passes |
| `Resolution`, `ResolutionProps`, `ResolutionProofs` | extends it with the resolver, repairs, escalation and crashes |
| `CircuitBreaker`, `CircuitBreakerProps` | one breaker and its callers |
| `Rewards`, `RewardsProps`, `RewardsProofs` | the rewards of one whistleblower under racing requests and passes |
| `Indexers`, `IndexersProps` | both indexers of several processes against a growing chain |
| `ChainAccessProofs` | the theorems of the two machines before it, whose polls go through the breaker (`soroban/circuit-breaker-adapter.ts:158`) |
| `MC*` | instances for TLC |

`OutboxRows`, `NgnLedger` and `DurableIdempotency` are data modules: one operator
per SQL statement, applied by the machines that issue it. A machine module has no
properties; a `Props` module extends it with them; a `Proofs` module extends that.
No module declares a RECURSIVE operator.

The definitions marked *Mutant* in a comment are plausible bugs of the definition
that follows them. No specification uses them. They are there to show that each
property can fail (`mutants` in `PROJECT.json`).

## 3. How the models correspond to the code

Everywhere: **one action per stretch of code between two awaits**, since an await is
where another request, tick or server comes in. A process keeps in its own variables
(`cur`, `batch`, `list`, `op`, `ref`) what the code keeps in locals, so a decision
made from a row read earlier is made from a stale row here too. With in-memory
stores most awaits resolve in the same turn of the event loop, so these
interleavings are a superset of what one server does; with Postgres they are what it
does. Amounts, payloads, errors and times are abstracted to what decisions depend on:
a claim is `none`, `fresh` or `stale`; a lease is expired or not; a backoff elapses
at any time; a transaction is a number and its hash.

**Outbox.** `row` is the table, `tx` the chain. `ClaimPending`, `ListConfirming` and
`ListFailed` are the three phases of `process()` (`outbox/worker.ts:52`); each leaves
a batch of snapshots. `StartSend` to `MarkSent`/`MarkFailed`/`GiveUp` are
`send()` (`outbox/sender.ts:30`), with `Resolve`, `ClearHash`, `Reopen`, `Requeue` for
`resolveInFlight` and `Build`, `Broadcast`, `AwaitSuccess`, `AwaitFailure` for the
adapter (`soroban/real-adapter.ts:744`). `ScheduleRetry` and `PromoteExhausted` are
`OutboxProcessor`. A run is an element of `Workers`: two workers are also two
overlapping runs of one `setInterval`. `Decide` is the ledger closing on pending
transactions; `Bare` says whose adapter passes on `onTxBuilt` and status queries,
which a circuit breaker around it does not. `LostReplies`, `RpcErrors`, `FlakyUntil`
are what the RPC may do.

The items of the model are receipts. An item that carries a deal's status or a tenant's
reputation goes to the chain without an `onTxBuilt` hook (`outbox/sender.ts:72-85`,
`:247-291`), so no hash of it is stored, and a retry after a crash has nothing to ask
about. Such rows are claimed, retried and buried like the others, but what rests on
the stored hash, `NoDoubleBroadcast`, `DurableIntent` and `DeliversReceipts` with the
theorems `NothingBroadcastTwice`, `IntentIsDurable` and `OutboxDelivers`, holds for
receipts only.

**Job scheduler.** A tick lists due jobs, acquires each lease, marks it running, runs
the handler, records the outcome and releases. `Timely` says that a lease of five
minutes outlives the work. `Knows` says which worker has a handler for which job,
since `NoHandler` closes a job a worker does not know. A worker has one tick at a
time; the overlap of two ticks of one worker is in section 6.

**Conversion saga.** A caller of `convert()` goes from step to step; each step takes a
key of `api_idempotency` (`InsertKey`, `SelectKey`, `ClaimKey`), runs its body, and
completes or fails the key (`Complete`, `Fail`). `Advance` is the compare-and-set of
the row. A *mishap* is a leg or a query that fails before or after its write, a caller
slower than its lease, or the death of a process; `Faults` chooses the kinds,
`MaxMishaps` how many.

**NGN wallet.** A request arrives (`ConfirmDeposit`, `ReverseDeposit`, `StakeNgn`, ...)
with the reads and writes its handler does before it asks for the lock;
`AcquireLock` chains it behind the last promise, so `queue` is the lock, its holder
first. `Check`, `Write`, `Settle`, `ChangeRisk` and `Leave` are what the methods of
the service do under it: look for the entry and the balance, post one entry, set a
status, freeze or unfreeze, release. `EntryOf` says which entry each request posts;
the methods differ in nothing else but in what `Refused`, `RiskChange` and
`StatusAfter` say. `stake-ngn` visits the wallet up to three times (`Continue`).
`posted` counts entries by type and reference, which is what the methods search for.

**Settlement outbox.** `MarkPaid` is the transaction of
`updateScheduleItemStatus`: the status and one row per event type. A tick is one
element of `Ticks`; `Claim` is the transaction that selects one row that is due with
`SKIP LOCKED` and marks it, `Execute` to `Delete` are the rest of
`claimAndProcessOne` (`settlement/worker.ts:68`), one statement each. A statement
names its row by id (`Mine`), since a replay may have inserted another one under the
key. `BuriedBefore` is the primary key of the dead letters refusing an id that was
replayed under it: the error escapes `tick()` and ends the process. The in-memory
queue of a server without a database is left out.

**Reconciliation.** A *task* is a poll of a process under the leader lock, or one of
the two passes a `POST /run` starts at once, without the lock (`StartPoll`,
`StartRun`). `Decide`, `Classify`, `Persist`, `Mark` are `reconcileLedgerEvent`,
`ChainMark` and `ChainFails` the pass over chain positions, and the operators `Settlement`,
`DoubleDebit`, `Class`, `Drift`, `Fits` the classification and the drift bucket.
A notice is what the classifier can tell of a provider event. The lock belongs to a
session: `Lockable` and `EndPass` say that it is taken and given back on whatever
connection the pool hands out, and `SessionCloses` that an idle one is closed.
`Resolution` adds `Handle`, `Repair`, `Posted`, `PostFails`, `Awaited`, `Resolved`,
`EscalateLate`: the map of repairs done and under way (`repair.ts`) is a variable of
the process and is lost with it. In the code the poster of missing credits is a
placeholder until `setMissingCreditPoster` is called, which only a test does; the
model counts what it would post. A chain position that disagrees is not reported: its
mismatch would go under the id `chain-...` into a UUID column, an insert that fails.
The expiry of a remembered repair after 24 hours is left out; it has the effect of a
restart for that key. A poster that fails (`PostFails`) is taken not to have posted:
`repair.ts` cannot know it of the function it is given, and one that posted and then
threw would be asked to post again.

**Circuit breaker.** A call checks the state, `shouldAllowCall` checks it again and
admits or refuses, each under the mutex (`CheckState`, `Admit`, `Refuse`); the result
is recorded whenever it comes, in whatever state (`RecordSuccess`,
`RecordTransient`, `RecordPermanent`). `openedAt` is null, recent, or past when the
timeout has elapsed. `tests` is a history variable: the calls of this half-open
period that are still under way.

**Rewards.** Every statement is a step: `LookForReward` and `CreateReward` of an
activation; `ListRewards`, `Judge`, `Vet`, `Verify`, `Decide` of a release pass;
`ReadReward`, `CheckSuspended`, `CreateReceipt`, `MarkPaid` of a payment. None takes a
lock or a transaction. `standing` is what the trust store says of the whistleblower.
`met` and `cut` are history variables. `met` holds the pairs of a task and one it found
under way when it began that could get in its way: another activation, or a contender
(`Contenders`), which is a payment that named the same reward or the same reference or
a pass that has yet to decide on that reward. `cut` holds the payments that ended
halfway. A payment keeps in `cur` what it asked for, so a race is always the race of a
reward (`Contested`). Amounts are left out.

**Indexers.** `LedgerCloses` is the chain: at most one receipt and one event of one
time-locked transaction for each ledger. `Start` loads the checkpoint, `Read` polls
above `last`, `StoreReceipts` and `Apply` are the statements that store, `Save` moves
the checkpoint, whatever it has become. `ApplyFails` is the caught error of
`timelock-processor.ts:34`, `PollFails` that of a poll; at `MaxFailures` the receipt
indexer throws out of `start()`, which `app.ts:528` does not catch, and the process
ends. Migrations 003 and 008 insert both checkpoints as 0, so `startLedger` plays no
part.

## 4. Runs

| Run | Question | Bounds | Result |
|---|---|---|---|
| `outbox_default` | Is SENT always backed by a receipt, under everything that touches a row at once? | 1 item; a worker, a handler behind the circuit breaker, an admin; 2 transactions; 1 crash | holds: `SentHasReceipt`, and the inductive invariant `ReceiptInv`, of which `ConfirmingKnowsLedger` and `ClaimOnlyOnOpenRow` are conjuncts |
| `outbox_single` | Is delivery exactly-once, and does the outbox implement `ReceiptDelivery`, one run at a time? | 2 items, 1 worker, 2 crashes, NOT_FOUND conclusive | holds: `NoDoubleBroadcast`, `DurableIntent`, `DeliversReceipts` |
| `outbox_overlap` | Do claims exclude overlapping runs, and does every row settle? | 1 item, 2 runs, 1 crash, lost replies | holds: `Phase1Exclusive`, `Settles` |
| `jobs_workers` | Do leases exclude, are retries bounded, does a waiting job settle? | 2 workers, 2 jobs (one recurring), one worker without a handler, 1 mishap | holds: `LeaseExclusive`, `RetriesBounded`, `WaitingJobsSettle` |
| `saga_faults` | Does the row follow its map and its legs, and are effects bounded? | 3 callers, 5 calls, 2 mishaps of any kind | holds: `SagaFollowsLegs`, `SagaInv`, `EffectsBounded`, `OnlyLegalTransitions` |
| `wallet_requests` | Is the wallet overdrawn, an entry posted twice, a payment lost? | 2 requests at once, 4 in all; a deposit, a record, a withdrawal, a stake; 1 failing write | holds: `NeverOverdrawn`, `PostedOnce`, `WalletInv`, `ConfirmedIsCredited` |
| `settlement_workers` | Is an event lost, worked on twice, executed over and over, left behind? | 1 instalment, 2 events (one can fail), 2 ticks, 2 attempts, 2 rows per key, 2 replays, 2 mishaps | holds: `KeptInv`, `ClaimExclusive`, `ExecutionsBounded`, `DoneIsFinal`, `EventsSettle` |
| `reconciliation_passes` | Do overlapping passes of one process post a credit twice, resolve what was not posted, or decide silently? | 1 event, 1 process, a poll and a `POST /run`, closing by hand, 1 mishap | holds: `ReconInv`, `OneCreditPerLife`, `ResolvedWasCredited`, `UnmatchedIsReported` |
| `reconciliation_leaders` | Is there one leader, is drift bounded, is everything decided and settled? | 2 events (short, wrong, doubled), 2 processes, cap 1, 1 mishap | holds: `OneLeader`, `LeakBounded`, `PendingIsDecided`, `OpenIsSettled` |
| `rewards_races` | What does it take to reward a deal twice, to pay a reward twice, to pay it early? | 2 activations of a deal, 2 passes, 2 payments, 2 references, 2 moves, 1 mishap | holds: `RewardsInv`, `RewardedTwiceNeedsRace`, `PaidAfterHold`, `PaidTwiceNeedsRace` |
| `breaker_calls` | Are test calls bounded, and does the breaker recover? | 3 callers, threshold 2, 2 tokens, 4 faults | holds: `BreakerInv`, `RecoversUnlessWedged` |
| `indexers_pages` | Does a checkpoint pass over anything, and do the tables catch up? | 2 processes, 2 ledgers, 2 failures in a row, 2 mishaps | holds: `IndexedUpToCheckpoint`, `RowCatchesUp`, `ChainIsIndexed` |

**Why the bounds are enough.** Rows, jobs, deposits and keys do not interact with
others of their kind, except through a batch or a list, so one or two are
enough to see every interference; two items show a batch that is cut by a crash. Two
actors show every race of two; the saga has three because a lease can be reclaimed
from the one that reclaimed it. Two transactions per item show a retry after a
failure, with `MaxAttempts` 2 reached and exceeded. In the wallet the opening balance
covers a withdrawal or a stake and not both, and a reversal exceeds it, so refusals,
negative balances and both freezes occur; four requests are enough to reserve,
release, withdraw and be credited in one behaviour. Every action of every machine is
taken in some passing run.

In the settlement outbox two attempts show a retry and a burial, two rows of a key a
replay after a burial, and two replays the id that is buried twice. In reconciliation
one event shows every race of passes over one mismatch, two events whose differences
fit the cap one at a time show the drift bucket and the leaders; three notices of an
event would only repeat a doubled debit. Two references make two receipts of one
reward possible, two payments are as many as a doubled payment needs, and two moves a
default or a suspension that is taken back. That a race over one reward excuses nothing
of another is what the theorem says for any number of payments and rewards; TLC also
finds it so with a third payment, in minutes. Three
callers with two tokens have a test call refused, and one from before the half-open
period that ends in it. Two ledgers let a transaction be queued and over, in one page
or in two, and two processes overtake one another in either direction; two failures in
a row are the limit, so a process also ends by it.

CHECK_DEADLOCK is off where the system may come to rest: rows settle, and the calls
and mishaps a bound allows run out. In the outbox, the scheduler and the other tables
of work a worker could always start another pass; that it finds nothing to do is not a
fault. The breaker and the indexers never stop, and their runs check for deadlock.

**Fairness.** `Outbox`: a run that has started goes on (only a crash stops it) and
`setInterval` starts the next, so `WF` on a worker's steps; a claim ages; a backoff
elapses, and a failed row is listed again on each pass, so `SF` on picking it up.
`JobScheduler`: the same for ticks; leases expire, due times come. `NgnWallet`: a
handler that has started runs to its end, `WF` per request; nothing makes requests
come. `ConversionSaga` has no fairness: nobody resumes a saga (section 6), so there
is no liveness to state. `Settlement`: `WF` on the steps of a tick and on backoffs;
the oldest row that is due comes first, so `SF` on its being claimed. `Resolution`:
`WF` on the steps of a pass, on the delay window and on the closing of idle sessions;
polls come again and again and find the lock free again and again, so `SF` on starting
one; no admin request has to come. `CircuitBreaker`: callers come again, calls that do
not hang end, the timeout elapses. `Indexers`: each indexer goes on polling, and a
process that died is started again by its host, so `WF` on the steps of each. In every
machine mishaps end, since their number is bounded; what a liveness property says is
that the system recovers from any such series. `Rewards` has no fairness: its
requests are made by people.

## 5. Proofs

| Theorem | Says | For all |
|---|---|---|
| `OutboxProofs!TypeCorrect` | the types | constants |
| `OutboxProofs!ReceiptsAreRecorded` | without lost replies, SENT has a receipt, CONFIRMING knows its ledger, claims are on open or dead rows | items, runs, handlers, admins, limits, crashes |
| `OutboxProofs!ReceiptsAreJustified` | the inductive invariant behind it (`ReceiptInv`), which `outbox_default` checks | the same |
| `OutboxProofs!RunsExclude` | no two runs have one row in their phase-1 work (`Phase1Exclusive`), if no run outlasts a claim and nothing puts a row back to PENDING | items, runs, handlers, limits, crashes |
| `OutboxProofs!NothingBroadcastTwice` | no two transactions of a receipt that may take effect (`NoDoubleBroadcast`), with one run at a time that keeps its hashes and an RPC that answers truly | items, limits, crashes |
| `OutboxProofs!IntentIsDurable` | the hash of what may take effect for a receipt is in its row (`DurableIntent`), the same | the same |
| `OutboxProofs!OutboxDelivers` | the outbox implements `ReceiptDelivery` (`DeliversReceipts`), the same | the same |
| `OutboxProofs!ReopenedRowsAreStranded` | a row left REOPENED is taken up by no run, until a handler or an admin does | items, runs, handlers, admins, limits, crashes |
| `OutboxProofs!ConfirmedRowsAreParked` | a confirmed row is never sent by phase 2, if there is a depth to wait for and the RPC keeps finding the transaction | the same |
| `JobSchedulerProofs!TypeCorrect` | the types | constants |
| `JobSchedulerProofs!LeasesExclude` | two ticks never work on one job, if a lease outlives the work and a worker has one tick | jobs, workers, limits |
| `JobSchedulerProofs!RetriesStayBounded` | a job is counted past its limit at most once by every other tick (`RetriesBounded`) | jobs, ticks (a finite number), limits |
| `JobSchedulerProofs!DesertedJobsStay` | a RUNNING job nobody works on stays so until an admin request | jobs, ticks, workers, crashes |
| `ConversionSagaProofs!LegsAreKnown` | whatever the row can be written from knows of the leg it reports (`SagaInv`) | callers (a finite number), calls, mishaps of every kind |
| `ConversionSagaProofs!SagaFollows` | the row is never ahead of the legs | the same |
| `ConversionSagaProofs!TransitionsLegal` | the row only moves along `SAGA_TRANSITIONS`, terminal states are final | the same |
| `ConversionSagaProofs!LegsAreBounded` | debits and refunds are bounded by what fails (`EffectsBounded`) | the same |
| `ConversionSagaProofs!InterruptedSagasAreLeft` | a saga nobody runs, in a state `convert()` does not go on from or with an expired quote, is left for good | the same |
| `NgnWalletProofs!WalletInvariant` | types, lock, balance | requests, deposits, withdrawals, stakes, amounts |
| `NgnWalletProofs!NoOverdraft` | only a reversal takes the available balance below zero | the same |
| `NgnWalletProofs!EntriesPostedOnce` | repeated and late events and retries post each entry once (`PostedOnce`) | the same |
| `SettlementProofs!TypeCorrect` | the types, and who holds a claim | constants |
| `SettlementProofs!EventsAreKept` | no event of a paid instalment is lost | instalments, event types, ticks, attempts, replays, crashes |
| `SettlementProofs!ClaimsExclude` | two ticks work on one event only after a replay | the same |
| `SettlementProofs!DoneStaysDone` | a row that is done changes only by a replay | the same |
| `SettlementProofs!ExecutionsArePaid` | `MAX_ATTEMPTS` executions for each insertion and each replay (`ExecutionsBounded`) | the same |
| `SettlementProofs!AbandonedRowsStay` | a row a dead process had claimed, without a dead letter, stays as it is | the same |
| `ResolutionProofs!ReconciliationConsistent` | types; lists, rows and repairs under way agree | events, notices, processes, requests, limits, crashes |
| `ResolutionProofs!CreditOncePerLife` | a process posts a credit at most once in each life | the same |
| `ResolutionProofs!ResolvedCreditsWerePosted` | what is resolved automatically was posted | the same |
| `ResolutionProofs!UnmatchedReported` | no silent verdict | the same |
| `ResolutionProofs!LeadersExclude` | two processes never poll at once, when sessions outlast passes | the same |
| `ResolutionProofs!LeakIsCapped` | differences that are hidden stay within the cap of each window begun (`LeakBounded`) | the same |
| `RewardsProofs!TypeCorrect` | the types | constants |
| `RewardsProofs!RewardTablesAgree` | rewards and receipts agree | deals, requests, passes, references, crashes |
| `RewardsProofs!DoubleRewardIsARace` | two rewards of a deal need two overlapping activations | the same |
| `RewardsProofs!NothingUnheldIsPaid` | nothing is paid before the hold period | the same |
| `RewardsProofs!PaidRewardsAreCovered` | at least as many receipts as paid rewards | the same |
| `RewardsProofs!DoublePaymentIsARace` | two receipts of a reward need a payment of that very reward that was cut or met a contender (`PaidTwiceNeedsRace`) | the same |
| `ChainAccessProofs!BreakerInvariant` | counter and state agree, test calls stay within their tokens | callers, threshold, tokens, faults |
| `ChainAccessProofs!WedgedIsForGood` | a half-open breaker without tokens or calls refuses for good | the same |
| `ChainAccessProofs!ReceiptsAreIndexed` | no checkpoint passes over a receipt (`IndexedUpToCheckpoint`) | processes, ledgers, failures, deaths |
| `ChainAccessProofs!TransactionsCatchUp` | a transaction is shown behind the chain only for a named reason (`RowCatchesUp`) | the same |

They rest on the assumptions named in the modules (`OutboxAssumption`,
`WalletAssumption`, ...), which only say what the constants are, and on the hypotheses
of the theorems that have some: `LostReplies = FALSE`, `ClaimAssumption`,
`SingleAssumption`, and `Depth # 0` with `FlakyUntil = 0` for the outbox,
`LeaseAssumption` and `TicksAssumption` for the scheduler. The runs `outbox_default`,
`outbox_overlap`, `outbox_single` and `jobs_workers` are instances that satisfy them;
the depth is 3 unless the environment sets it (`config/outboxConfig.ts:28`).
`WalletAssumption` also says that no payment is a record: the entry that reverses a
payment refers to the payment, that of a record to the reversal
(`services/ngnWalletService.ts:178`).

*Outbox.* `SentHasReceipt` is not inductive: a process about to write SENT must
act for an item whose receipt is there (`SentIsJustified`), which a process that has
just waited for its own transaction, or asked about a hash, only knows if nobody
else can change what that hash stands for (`OwnTx`, `QueriesHash`, `TxFresh`).
`ReceiptInv` is their conjunction; it is an invariant of `outbox_default` too. There
is one lemma per action. `Phase1Exclusive` needs that a row some run holds is not
pending, or has a fresh claim (`HeldIsLocked`); every step but a claim takes up no row
(`Tame`) and opens none (`RowsTame`). For one run at a time, `TableInv` says that the
row has the hash of every transaction that may take effect, from which `NoDoubleBroadcast`
and `DurableIntent` follow at once; it stays so because what the run has listed is still
in the table as it was read (`ListInv`) and it builds, or forgets a hash, only when
nothing of the item may take effect (`WorkInv`). The refinement has one lemma for the
steps that change how a row is reported (`ShowsStep`), one for those that show nothing,
and one for the chain's decision, which records a receipt that was accepted because its
hash is in a row.
The two theorems about rows that no run takes further say that a state, once reached,
is left by no step. Their state must therefore name everybody who could still write the
row: all runs, handlers and admins with it in hand or in a list. TLC reaches both states.

*Job scheduler.* `LeaseExclusive` follows from `WorkerHoldsLease`: who works on a
job is its holder, and the lease has not expired. Acquiring needs a free or expired
lease, so it takes none from a worker at work; releasing names the holder, so a
worker's release frees only its own. `RetriesBounded` counts the ticks that still hold
a snapshot of the job below the limit (`Counters`): once the count has reached the limit
no tick can become one of them, as a job is listed with the count its row has, and each
that counts a failure ceases to be one, so `CountsFit` leaves room for the rest.
`DesertedJobsStay` is of the kind just described: `recoverStaleLeases` clears a lease and
leaves the status, and only pending and failed jobs are listed.

*Conversion saga.* Debits and refunds only grow, so it is enough that every place
the row can be written from, a caller's copy or a completed key, already knows of
the leg: `KnowsDebit`, `KnowsMint`, `KnowsRefund`. `TransitionsLegal` needs nothing
of the callers: each write is a compare-and-set whose source and target are a step of
the map, or leaves the row alone. `LegsAreBounded` adds to the debits made the callers that
may still make one (`Debitors`), and to the refunds those that may refund. Before the
first mishap the key of the step admits one caller (`Calm`). After it nothing keeps the
others out, but a caller that has debited comes to the body again only by another mishap,
so each mishap renews at most all of them; a caller reaches the refund by a mishap
of its own, which gives the sharper bound. `InterruptedSagasAreLeft` follows from what
`convert()` does with each state it reads.

*NGN wallet.* `NeverOverdrawn` needs that what the check found is still there at the
write (`CheckStillHolds`), for which everybody past the check must be the head of the
queue (`QueueOK`): requests are queued once, all but the first are waiting. Then
whoever posts is alone past the check, and the entry it posts either takes no more
than it found, or is a reversal, or adds. The lock is not what makes `PostedOnce` true.
A deposit is credited, and reversed, by whoever has advanced its status: while the status
is open nobody has the entry to write, and afterwards one request at most (`OneEntry`). A
stake is debited and released by the request that has reserved (`Owns`), of which there is
one, because the reserve is looked for under the lock.

*Settlement outbox.* `KeptInv` is inductive: a row leaves the table in one place, and
whoever is about to delete it has buried it. For `ClaimsExclude` the row of a tick that
holds a key no admin has replayed is the one it claimed and is still `processing`
(`HeldIsProcessing`), so nobody else can claim it; the same fact gives
`DoneStaysDone`. After a replay several ticks may hold one event, each with a count of
its own. For `ExecutionsArePaid` the attempts they still may make are therefore a set,
of pairs of a tick and a number (`Tokens`): its size, what was executed and what the
waiting row has left are together no more than what was paid for (`BudgetOK`).
`AbandonedRowsStay` needs the types alone: who works on another event does not touch
this one (`StepElsewhere`).

*Reconciliation.* `TablesInv` adds to `ReconInv` that a pass about to file a mismatch
carries its class (`VerdictFiled`). That mismatches are only
appended, and then written by id, makes every listed job a row for good (`RowsStay`).
`CreditOncePerLife` counts: the credits of an event are at most the lives of the
process, less one until this life has applied it, and a repair under way has one owner
(`FlightOwned`). `PaidInv`, `ReportInv` and `LeaderInv` strengthen the next three. For
`LeakIsCapped` the events that are concealed, or are about to be, and the units of room
left in the windows that were begun are together no more than the cap for each of them
(`LeakInv`): a difference takes a unit before its event is marked. What the chain confirms
is matched whatever its notices say, and is not counted.

*Rewards.* Who is past the look-up of an activation and sees no reward must have met
whoever inserts one meanwhile (`OpeningInv`); every place a reward can be paid from
holds one that is past its hold period (`HoldInv`); references differ from reward to
reward (`RefsDiffer`), which gives an injection of paid rewards into receipts. For
`DoublePaymentIsARace` the invariant is stated reward by reward: as long as no payment
of a reward is contested, whatever has happened to others, a payment of it is alone with
the reward and with its reference (`PaidAlone`), its receipts are the one it keeps and
the one a payment is about to give it (`PaidByReceipt`), and no pass that has yet to
decide on it finds it paid (`ReleasedUnpaid`). A contest is never forgotten
(`ContestStays`), so a step has to keep this of the uncontested rewards only.

*Circuit breaker.* The invariant is inductive as stated; a test call that ends gives
back a place and no token. With no token and nobody under way, no result can come that
would close or open it.

*Indexers.* A page holds every event of the chain above the place it was asked from, up
to any it holds (`PageOK`). So whoever saves the highest
ledger of a page it has stored passes over nothing (`SavedInv`), and who sets the
checkpoint back only lowers it. For `TransactionsCatchUp`, who puts a row back to queued
is applying a page from before the end of the transaction, so it owes the end (`Owes`):
it has it still to apply, or will ask from below it. If it dies the checkpoint is below
the end too, unless another has overtaken it, which is what `abandoned` records.

Only model-checked: the liveness properties `Settles`, `WaitingJobsSettle`,
`ConfirmedIsCredited`, `EventsSettle`, `PendingIsDecided`, `OpenIsSettled`,
`RecoversUnlessWedged` and `ChainIsIndexed`, since liveness under fairness and ENABLED are
beyond the prover. Every invariant and every action property that a run checks is proved.
Nothing here is recursive, so nothing had to be left out for that reason. The five
properties `StrandedForGood`, `ParkedForGood`, `DesertedForGood`, `LeftForGood` and
`AbandonedForGood`, with `RefusesForGood` of the breaker, are in no run: they say of states
in which section 6 finds the system stuck that they are final, for every value of the
constants. What TLC adds is that it reaches those states.

## 6. Where code and documentation disagree

Each of these is a property of a `Props` module that states the sentence quoted, and
that the code violates. To see the counterexample, take the configuration named, change
the constants as said, and put the property in the place of its own.

* A retry of a transaction whose reply was lost gets DUPLICATE, which
  `soroban/errors.ts:71` takes for a receipt that is already recorded
  (`soroban/real-adapter.ts:834`, with the comment at `:218`). The row is SENT and the
  transaction may never apply. *`Outbox_default.cfg` with Clients, Admins = {},
  LostReplies = TRUE, MaxCrashes, FlakyUntil, MaxAdminOps = 0; INVARIANT
  `SentHasReceipt`.*
* A CONFIRMING row is to "wait for (confirmationDepth) more ledger closes"
  (`outbox/worker.ts:159`): the depth is compared with the ledger of inclusion, which
  never moves (`:178`), so the row stays so. *`Outbox_default.cfg` with
  Clients, Admins = {}, MaxTx = 1, RpcErrors = FALSE, FlakyUntil, MaxAdminOps = 0;
  FairSpec; PROPERTY `ConfirmingIsTransient`.*
* Acquiring a lease does not look at the status (`jobs/scheduler/store.ts:402`): a
  worker that listed a job before another completed it runs it again, which the test
  `distributed.test.ts:13` says does not happen. *`Jobs_workers.cfg` with
  MaxMishaps = 0; PROPERTY `CompletedIsNotRunAgain`.*
* The refund of a conversion is written as the reversal of a deposit, so it debits the
  user a second time (`services/ngnWalletService.ts:305`; `models/conversionSaga.ts:12-14`
  promises a refund). *`Saga_faults.cfg` with Callers = {c1}, Faults = {"chain"},
  MaxMishaps = 1, MaxCalls = 2; INVARIANT `RefundRestores`.*
* A slow caller's `compensate()` goes on after its compare-and-set has failed and
  refunds a saga another caller has completed (`services/conversionSagaService.ts:387`,
  against `:135-137`). *`Saga_faults.cfg` with Callers = {c1, c2}; INVARIANT
  `CompletedIsNotRefunded`.*
* A reversal overwrites an admin's MANUAL freeze by NEGATIVE_BALANCE, and the next
  top-up lifts it (`services/ngnWalletService.ts:187`, against
  `docs/REVERSAL_QUICK_REFERENCE.md:18`). *`Wallet_requests.cfg`; Spec; INVARIANT
  `AdminFreezeHolds`.*
* "Arrival order does not change the outcome" (`reconciliation/INVARIANTS.md:13-14`,
  `reconciliation/engine.ts:63-66`): an event that is classified after its delay window
  and before its notice is ingested is unmatched, and only pending events are listed
  again (`engine.ts:80`). *`Reconciliation_passes.cfg` with OnChain, Closable,
  Runs = {}, MaxMishaps = 0; FairSpec; PROPERTY `PairConverges`.*
* A half-open period ends with a test call that succeeds or fails
  (`docs/CIRCUIT_BREAKER.md`, State Transitions). A permanent error, or a call that
  never ends, is neither and keeps its token: when all are gone the breaker stays
  HALF_OPEN and refuses every call (`soroban/circuit-breaker.ts:126`).
  *`Breaker_calls.cfg`; PROPERTY `HalfOpenEnds`.*

Met while modelling, and present in the models:

* Outbox: a NOT_FOUND that is not conclusive leads to a second broadcast
  (`outbox/sender.ts:10-18`); a handler sends a row that is already SENT
  (`services/stakingService.ts:51`, `routes/payments.ts:90`); a crash between
  `reopenItem` and the next update leaves a REOPENED row nobody lists
  (`outbox/worker.ts:86`, `outbox/store.ts:458`); an attempt that fails counts two
  retries (`outbox/sender.ts:114`, `services/outboxProcessor.ts:65`); re-queueing a
  dead letter counts one more (`routes/adminOutbox.ts:82`); a row goes to SENT without
  CONFIRMING when sent directly; phase 3 may handle the row phase 1 has just failed.
* Scheduler: two ticks of one worker overlap and re-acquire their own lease
  (`jobs/scheduler/worker.ts:47`); releasing resets the fencing token, which nobody
  compares (`jobs/scheduler/types.ts:36`); a cancelled job that was already listed
  still runs (`routes/adminJobs.ts:113`); a crash in a handler leaves the job `running`
  for good.
* Saga: an error after the debit ends in `failed`, where `models/conversionSaga.ts:15`
  says nothing was committed; a quote that expires after the commit refuses every
  later `convert()`; `onchain_submitted` and `compensating` are resumed by nobody;
  a CONFLICT raised by a step's own body is taken for one of the key.
* Wallet: approving resets the status, so a second approval posts
  WITHDRAWAL_CONFIRMED again (`services/ngnWalletService.ts:512`); a withdrawal can be
  rejected after it was paid; an error after the outbox row of a stake was created
  releases its reserve (`routes/staking.ts:545`); `stake-ngn` does not ask whether the
  user is frozen, where `docs/REVERSAL_QUICK_REFERENCE.md:30` lists it as blocked; a
  confirmation between the two halves of a reversal is credited and never taken back
  (`routes/webhooks.ts:142`).
* Settlement: a row in `processing` whose process has died is selected by nobody
  (`settlement/worker.ts:73`); a row that is replayed under its id and fails again
  cannot be buried a second time, and the error ends the process; a tick that is slower
  than a replay overwrites the replayed row.
* Reconciliation: the leader lock is taken and released on any connection of the pool
  (`reconciliation/store.ts:24`), so a process may keep it without knowing until the
  session is closed; a restart forgets which credits were posted; a pass reopens a
  mismatch an admin has closed meanwhile; each process has a drift bucket of its own.
* Rewards: two activations of a deal that overlap open two rewards, as no index forbids
  it; a release pass makes a reward payable again that was paid while it ran; two
  payments of one reward with different references both queue a receipt.
* Indexers: an event whose statement fails is skipped for good; a slow process resets
  an executed transaction to queued and moves the checkpoint back, and if it dies then,
  after the other has passed on, the transaction may stay queued; five failing polls of
  the receipt indexer end the server process with every other worker in it, and a
  breaker that is open for 30 seconds is enough for that.

## 7. What is not modelled

* Of the modelled parts: timestamps and the length of backoffs, payload validation,
  metrics, logging; cron expressions (a next time in the future); the request hash and
  the time to live of idempotency keys and their in-memory fallback; slippage and the FX
  provider (they succeed or fail); the pending entry of a top-up (it is in no balance),
  the demo funds of a new wallet, `failWithdrawal` and `processTopUp`, which have no
  caller; the deduplication of webhook events by id, which only removes events, so the
  model's events may always come again; several `NgnWalletService` instances in one
  process.
* `retryAllDead`-like loops of admin routes are modelled as read-then-write over the
  rows they list; other requests for other rows are not.
* Sequence allocator: with a database every allocation fails, since
  `generateAllocationId` (`services/stellarSequenceAllocator.ts`) yields
  `<time>-<random>` and the column is a UUID (migration 043). A faithful machine would
  show this one thing; the outbox counts it among the errors of building a transaction.
* Deals: `PATCH /deals/:id/status` sets any status at any time, and nobody imports
  `DealStateMachine`, so there is no life cycle to state. The schedule of instalments is
  part of the settlement outbox, the default of a deal of the rewards, the sync worker of
  the outbox.
* Outgoing webhooks: a delivery is a job of the modelled scheduler, and each retry a
  new job; replays send stored messages again.
* Rate limits and quotas: counters local to a process, or one atomic Redis script for
  each request. Payouts and bonds: single guarded statements, whose messages are outbox
  rows. FX and staking services: idempotent by a unique key; their composition is the
  saga and the outbox.
* Late payments: a daily pass over due dates. Escalation steps are marked in memory
  before they are carried out, so an error loses one and a restart repeats them.
* Key and secret rotation: cryptography and storage around the states of keys. It has a
  protocol of its own that is not in this project.
* Indexers: events that do not parse (one such receipt event fails its page at every
  poll), pause and resume, which nobody calls; `workers/sorobanEventIndexer.ts` is a
  placeholder that fetches nothing and that nobody starts.
* Scoring, fraud rules, underwriting: pure weights and thresholds over one application.
* Notifications, authentication, tenancy, HTTP plumbing, retention and backup jobs: I/O
  through libraries, no protocol of this code's own.

## 8. Plan

What is modelled is listed in section 2: outbox, scheduler, saga, wallet, settlement
outbox, reconciliation, circuit breaker, rewards, indexers, each with its proofs. What
would add most next, in this order:

1. The exactly-once theorems of the outbox with two runs at a time: which of their
   hypotheses phase 3, which lists failed rows without a claim, really needs.
2. Key rotation: one active key under overlapping rotations.
3. The deduplication of webhook events together with redelivery (`routes/webhooks.ts:82`).
