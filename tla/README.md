# TLA+ models of the reconciliation core

This directory holds the specifications, model-checking configurations and
proofs kept beside the code in `src/web`. They cover the part of the program
that owns money (which invoice or bill a bank movement pays, what is still
outstanding on it, and who may change that), the path by which movements get
there (the bank's feed and the rebuild of movements), and the machinery that
runs it (the reconciliation lock, the job queue, the gate to the language model).

Contents: 1 inventory, 2 plan, 3 the modules and the code, 4 runs and bounds,
5 fairness, 6 proofs, 7 divergences found, 8 assumptions, 9 not modelled.

## 1. Inventory

The program is a Next.js application (`web/`) over PostgreSQL, with background
workers. Bank data (Plaid), accounting data (QuickBooks, Xero) and commerce data
(Stripe, Shopify) are fetched, bank movements are classified, and movements are
reconciled with receivables (AR) and payables (AP).

| Component | State | Operations | Interacts with | What makes it correct |
|---|---|---|---|---|
| AR/AP status rules (`lib/ar-ap-status.ts`) | none (pure), writes one row | `statusFromOutstanding`, `writeStatusChange` | every writer of `cash_events`; the sync, unmatch and mark-paid carry their own copies of the rule in SQL | all copies agree: paid exactly when no more than a cent is outstanding |
| Cash event ledger (`app/api/ar-reconciliation/matches`, `dashboard/reconciliation/unmatch`, `mark-paid`, `lib/ar-reconciliation-queries.ts`) | `cash_events`, `movement_attributions`, `ar_reconciliation_matches`, `ar_ap_status_log` | create, confirm, reject, delete a match; unmatch; mark paid, unpaid | sync and waterfall write the same rows | no interleaving leaves a wrong status; a confirmed match's cash is on its invoice's account; paid events reopen only by a user's act |
| Accounting sync (`lib/cash-events-build.ts`) | `cash_events` | row-by-row upsert of a feed, stale marking per kind, orphan cleanup, each statement committed on its own | ledger, waterfall | a reduced balance survives any feed and any interleaving |
| Reconciliation waterfall (`lib/reconciliation-waterfall.ts`, `lib/attribution-persist.ts`) | `movement_attributions`, `cash_events`, review flags on `movements` | snapshot, plan, then one transaction: D4 to D7, inserts, status writes | ledger, sync, lock | a plan made from stale reads does not undo what happened since; balances are explained by attributions |
| Reconciliation lock and background run (`app/api/ar-ap-step/route.ts`, `api/admin/clear-recon-lock`) | `reconciliation_locks` | acquire with stale cleanup, run in eight steps with clock checks, release, clear | starts sync and waterfall | one run at a time while runs end in time; the lock recovers from a crash |
| Stage 4 language-model matching (`lib/reconciliation-llm-match.ts`, `lib/full-reconciliation.ts`, `lib/llm-hallucination-detector.ts`) | attributions, balances, review flags | after the waterfall: read unmatched movements, ask the model, apply in one transaction, clear flags, filter; off unless `ENABLE_LLM_STAGE4=true` | waterfall, the brain's waterfall, unmatch, rebuild | balances follow attributions, no movement gives more than its cash, a run's replacement of matches is never seen half done, ungrounded suggestions are not applied |
| Language-model gate (`lib/llm-circuit-breaker.ts`, `lib/llm-rate-limiter.ts`, `callLLM`) | circuit, slots, minute window, queue, per process | allow, acquire, release, flush, retry, time out | every language-model call of the process | no slot lost or used twice, limits kept, queued calls end |
| Bank transaction feed (`api/plaid/webhook`, `api/plaid/transactions-sync`, `lib/plaid-item-store.ts`, `lib/plaid-persistence.ts`) | cursor, `plaid_transactions` | loops of fetch, save cursor, upsert rows, delete, classify | starts rebuilds | no update of the bank is skipped; movements catch up |
| Movement classification (`lib/movement-classify.ts`, `lib/movement-tag-enrich.ts`) | `movements`, `movement_observations`, `movement_attributions`, an advisory lock | rebuild movements, patch entity ids | started by feed, jobs and pages; waterfall reads movements | rebuilds exclude each other, attributions survive, nobody waits for ever |
| Job queue and workers (`lib/queue/`) | Bull jobs, `job_status` | enqueue, process, retry, restart, chain | started by onboarding; runs the rebuild | each job ends, its row tells how, the chain runs once |
| Refresh jobs (`api/dashboard/refresh-job`) | `refresh_jobs` | start, run in the web process, poll | starts syncs | a started job settles |
| Financial brain (`lib/financial-brain.ts`), attribution engine | suggestions | sync and waterfall without the reconciliation lock | ledger, stage 4 | overlapping writers do not corrupt the ledger |
| Fusion engine (`lib/reconciliation-fusion-engine.ts`) | attributions, balances | alternative engine (`RECONCILIATION_ENGINE=fusion`), resets in autocommit before it plans | ledger | a crash between reset and plan loses nothing |
| Apply-match and split-match | none in effect | always roll back (section 8) | | |
| Connectors, admin scripts, forecasts, confidence scoring, sessions and UI | | input and output, or read-only computation | | |

Behaviours that are hard to test: handlers that read before their transaction
(unmatch, match deletion, mark-paid, waterfall); a sync that commits statement
by statement while users act; lock waits between unmatch, the orphan cleanup
and the waterfall's D5; a time-out that passes while its run works; process
loss with a lock held; a run after a run; copies of one status rule in four
places; minutes between what the language model is shown and what is applied; an
error caught inside a transaction; movements that are deleted, inserted and given
back their attributions in statements that commit one by one; a session lock taken through a pool; a cursor
that is ahead of the rows; results of calls that were sent before the circuit
opened; a row that the request and the worker both write. `PROJECT.json` lists each at its line under "hazards".

## 2. Plan

Done, in this order:

1. `ArApStatus`: the row functions every writer uses.
2. `CashLedger`: ledger, user requests and sync. It is what all else composes with.
3. `CashLedgerProofs`: the status rules, then type correctness, safety and action
   properties of the ledger for every instance.
4. `RunExclusion` (abstract) and `ReconLock` (detailed, refines it), `ReconLockProofs`.
5. `Waterfall`, `WaterfallProofs`: the engine over `CashLedger`, whose actions it
   interleaves with, for any number of engines.
6. `LlmGate`, `LlmGateProofs`: circuit breaker, rate limiter and retries.
7. `BackgroundJobs`, `BackgroundJobsProofs`: the chain of queue jobs and the refresh jobs.
8. `BankFeed`, `BankFeedProofs`: overlapping loops over the bank's feed.
9. `MovementRebuild`, `MovementRebuildProofs`: the rebuild under its session lock.
10. `Stage4`, `Stage4Proofs`: the second writer of attributions.

What a continuation would add, most useful first:

11. `LockedRuns`: `ReconLock` composed with `Waterfall`, so that the hypothesis
    `TransactionsApart` follows from the lock for the runs that take it.
12. Runs of `Waterfall` with processors and the fee band, which so far only the
    theorems cover.
13. `Fusion`: the variant whose reset commits before its plan.
14. Tagging, and the arithmetic of forecasts, as functions over bounded inputs.

## 3. The modules and the code

**`ArApStatus`.** A `cash_events` row is a record with its amount, outstanding
balance, status, and three bits that the rules read: `reconciled`
(`last_reconciled_at` is set), `manualPaid` and `stale` (metadata keys). Amounts
are whole cents, the tolerance `EPS` is one cent. The helpers are
`statusFromOutstanding` and the UPDATE of `writeStatusChange`; the inline forms
are `UnmatchStatus`, `KeptOutstanding`/`KeptStatus` (ON CONFLICT of the upserts)
and `StaleRow`.

**`CashLedger`.** Tables are functions from ids to a row or `NoRow`. A request in
progress is a record in `inflight` that carries what the handler has read:

| Code | Actions |
|---|---|
| `POST matches` | `CreateMatch` |
| `PATCH matches/[id]` | `PatchSelect`, `PatchCommit` |
| `DELETE matches/[id]` | `DeleteRead`, `DeleteCommit` |
| `DELETE unmatch` | `UnmatchRead`, `UnmatchDelete` (takes the row lock), `UnmatchSum`, `UnmatchCommit` |
| `POST mark-paid` | `MarkPaidRead`, `MarkPaidCommit`, `MarkUnpaidRead`, `MarkUnpaidCommit` |
| `syncCashEventsForUser` | `SyncStart`, `SyncUpsert`, `SyncUpsertsDone`, `SyncStaleAr`, `SyncStaleAp`, `SyncDeleteOrphans` |
| the cascade from movements that a rebuild deletes (`lib/db.ts:1876`) | `RebuildMovements` |
| any catch block, or process loss | `Fail` |

`audit` holds the log rows the last step added. `overwritten` is a history
variable: the events whose balance an unmatch, mark-unpaid or a new amount has
written over, on which a confirmation has found less than it takes, or to which two
DELETEs have given back one match. `ConfirmedMatchesHoldCash` says of every other
event, in cents, that its balance and what its confirmed matches took are together
no more than its amount. It allows cash to stay taken without a match (after a
rejection, or the cascade); `RejectionGivesBack` and `DeletionGivesBack` state that,
and fail.

**`Waterfall`.** EXTENDS `CashLedger`; each step of it is a step here, with the
guard that it does not touch attributions an engine holds. `Snapshot` is
`loadOpenCashEvents`; `Plan` reads the movements' available cash and runs
`PlanOf`, one `PlanMovement` per movement in date order (stage 0 the document a
tag names, stage 1 the exact amount or the processor's fee band, stage 3 first
in first out, then the review of what is left); `StartClearing` and `ClearPrevious`
are D5: the DELETE takes its snapshot (READ COMMITTED), then waits for rows that
others have deleted without a commit, and deletes what is left of its snapshot and
no row that another run stored meanwhile; `Commit` is D6, D7, the inserts, the status writes and the commit; `EngineFail` is a
roll-back. Which events fit a movement by class and name is the constant
`Candidates`, the tag is `DirectLink`. A statement waits for a row that another
transaction has deleted without a commit (`FreeOfOthers`, `NewId`, `Waits`).
`MovementsWithinCash` is what planning from available cash, D5 and the inserts
are to add up to; `HistoricalOnce` and `PaidOnceByPlan` are the two sides of
`usedPaidEventIds`, one kept and one not.

**`ReconLock`.** `Acquire`/`RefuseStale` are the two outcomes of the one
statement in `acquireReconciliationLock`; the INSERT and the cleanup CTE see the
same snapshot, so the request that frees a stale lock is refused. `FinishStep`
(steps 1 to 6, with the clock check), `FinishLastStep` (7 and 8, where failures
are warnings), `StepThrows`, `Crash`, `AdminClear`, `Tick`. The release names the
user and not the run. `overran` and `forced` are history variables that say why
exclusion may have been lost. **`RunExclusion`** is the promise: one run at a
time until it is broken, and it breaks for those two reasons only.

**`LlmGate`.** One process: `state`, `failures`, `sinceOpened` are the breaker,
`concurrent`, `recent` (the minute window), `retryLeft`, `queue`, `flushDue` the
limiter, `calls` where each caller is in `callLLM`. Code between two awaits is one
action: `AttemptAs` is `allowRequest` with `acquireSlot`; `Answer` the release when
the headers are there; `TooMany` a 429, whose release only schedules the flush;
a second one overwrites the `retryLeft` of a first, longer or not; `RequestFails`,
`BodyArrives`, `BodyFails` the other ends of an attempt; `Flush` is `tryFlushQueue`; `Retry` the end of a backoff. Time is kept as ages, which stop
at the limit they are compared with, so `Tick` needs no bound.

**`BackgroundJobs`.** `jobs` is the list of Bull jobs with how far the processor
of an active one has come, `rows` the table `job_status`. `PostAdd`, `PostInsert`
are the request, which adds the job first; `WriteProgress`, `AddNext`, `Complete`
the processor, `Throws`, `WriteFailed`, `Fail` its error path, `Promote`,
`StallCheck`, `MissingHandler` what Bull does; `updateJobStatus` may fail and
be swallowed, anywhere. `Handled` names the jobs that a handler serves. The refresh
job is `RefreshPost`, `RefreshStep`, `RefreshThrows`, `RefreshCatch`; `WebLost` and
`WorkerLost` are lost processes.

**`BankFeed`.** `feed` is the bank's log; the version of a row is the place in the log that wrote
it. A loop is `ReadCursor`, `Fetch`, `SaveCursor`, `UpsertRow`s, `DeleteRemoved`,
then again or `Classify`. `SyncFails` and `ProcessLost` end loops. `late` and `torn`
are history: transactions whose page was overtaken by the cursor while it was
written, or given up half written. The two properties except exactly these.

**`MovementRebuild`.** `held` counts how often each database session holds the
lock, `waiter` whose request blocks it. `AskLock`, `Grant`, `GiveUp`, `Unlock`, `CloseIdle`
are the lock through the pools; `Extract`, `Save`, `Delete`, `InsertMovements`,
`InsertObservations`, `InsertDuplicates`, `Restore` the statements of
`classifyMovements`, each on any free session; `Refresh` is
`refreshMovementEntityIds`. `Throws` ends a run where the code catches nothing.
`AttributionsSurvive` is about the attributions that a run finds. When two rebuilds
interleave, the observations of one's movements can go to the other's; attributions
of a movement left without observations are found by no later run, and lost.

**`Stage4`.** A run is `Start` (its own waterfall has committed), `Read`, `Answer`
(any suggestions about what was shown), `Begin` and `Clear` (the transaction's DELETE:
its snapshot, then the rows once nobody holds them), `SkipLine`, `ApplyLine`,
`LineFails` (after which the transaction is aborted although the loop goes on),
`RowVanishes` (the row to be overwritten is deleted by another while the UPDATE waits
for it: the program's own error, which aborts nothing), `Commit`, `Filter`. What a
transaction has written stays in the run's record until `Commit`; who holds which row
is read off those records.

The others write meanwhile, and wait for what a run holds. `OtherWaterfall` is a match
of the brain's waterfall. An unmatch is `UnmatchRead` (before the transaction),
`UnmatchSum` (its DELETE and the SUM without a lock), `UnmatchCommit` (the UPDATE, once
no run holds the document) and `UnmatchFails`; it may be of any attribution, those of the
model too. A rebuild is `SaveAttributions`, `DeleteMovements` (with the cascade),
`InsertBatch` several times, `RestoreRow` once per attribution, and `RebuildFails` at any
point, which loses what is not restored yet. `rebuilds` stands for the new ids that
movements get: what was read under another number is not found.

`disturbed` is a history variable that says why the sums may be wrong. It becomes true
when a run starts while another is active; when a run reads, or an unmatch sums up, while
a rebuild has attributions set aside; when attributions are changed after a rebuild has
saved them and before it has put them back, or between an unmatch's SUM and its UPDATE on
the same document; and when a rebuild loses what it saved. `BalancesFollow` and
`ModelWithinCash` hold until then. `NeverWithout` has no such hypothesis: it names the steps
that may leave a movement without its matches.

Definitions whose comment starts with "Mutant" are plausible bugs. No
specification uses them; each shows, when put in place of the definition that
follows, that a property can fail.

## 4. Runs, bounds, what they show

| Run | Instance | Shows |
|---|---|---|
| `ledger` | 1 invoice, amounts 3 and 5, 2 attributions of 2, 2 matches of payments of 2, 2 requests | types, paid exactly when settled, confirmed matches are on the invoice's account, and the two rules on who may reopen or give back, under every interleaving of two requests of any kind, with failures |
| `ledger_bills` | 2 bills of 3, 1 attribution, 2 requests, fair | paid exactly when settled under stale marking, which needs a document that stays and one that goes; every request ends although they compete for the locks on an attribution |
| `recon_lock` | 2 runs, 8 steps (6 checked, then the last), limits of 2 ticks, fair | exclusion while runs end in time, its refinement, the lock recovers |
| `waterfall` | 2 invoices of 4, a payment of 6, 2 attributions, 1 request, no matches and no bills, repeated runs | ledger properties with the engine at work: what an unmatch, manual marking or the sync does between snapshot and commit is not undone; a movement gives no more than its cash, with one engine |
| `waterfall_locks` | 1 bill of 3 linked by tag to a payment of 6, 2 requests, fair | locks of D5, unmatches and orphan cleanup: nobody waits for ever |
| `llm_gate` | 3 callers, 2 slots, 3 starts a minute, circuit opens at 2 failures, 1 retry, a tick is 30 s, fair | slots and limits kept on every way a call can end; the circuit closes healthy although late results arrive; queued calls are served while requests are sent |
| `jobs` | 1 request, 1 refresh, 3 attempts, 1 restart, 4 faults, fair | every job ends, its row tells how, no forks, a refresh settles unless its process is lost or its last write fails |
| `jobs_chain` | the same without faults | violation: the status the page polls never settles |
| `bank_feed` | 2 loops, 2 transactions, 3 updates, pages of 2, 1 fault, fair | the cursor skips no update except of pages given up or overtaken; a lone webhook makes good what earlier loops left |
| `rebuild` | 2 rebuilds, 1 refresh, pools of 2 and 1 sessions, 2 transactions, 1 attribution, 1 fault, fair | processes exclude each other while the lock lasts; attributions survive an undisturbed rebuild; a waiting run is served, or the lock was left behind |
| `stage4` | 2 runs, 2 movements, 2 documents, answers of 2 lines, 1 planned match of the brain, 1 unmatch at a time, 1 rebuild, 1 fault | balances follow attributions and the model stays within the cash until somebody gets in the way; only a rebuild's DELETE or an unmatch leaves a movement without its matches |
| `stage4_unfiltered` | 1 run, no faults | violation: a suggestion the filter rejects has been applied |

Further configurations are kept for divergences that the runs above do not list.
Each is run by hand, `tlc -config <cfg> <module>`, and reproduces a trace:

| Configuration | Module | Property it violates |
|---|---|---|
| `MCLedgerUnlogged.cfg` | `MCLedger` | `EveryTransitionLogged` |
| `MCLedgerReject.cfg` | `MCLedger` | `RejectionGivesBack` |
| `MCLedgerCascade.cfg` | `MCLedger` | `DeletionGivesBack` |
| `MCLedgerWiped.cfg` | `MCLedger` | `ConfirmedAlwaysHoldCash` |
| `MCLedgerUnmatch.cfg` | `MCLedger` | `UnmatchReaggregates` |
| `MCLedgerMarkPaid.cfg` | `MCLedger` | `MarkPaidTakesEffect` |
| `MCReconLockOverrun.cfg` | `MCReconLock` | `AtMostOneRunUnlessForced` |
| `MCWaterfallRerun.cfg` | `MCWaterfall` | `BalancesExplained` |
| `MCWaterfallStale.cfg` | `MCWaterfall` | `PlanTakesEffect` |
| `MCWaterfallTwo.cfg` | `MCWaterfall` | `MovementsWithinCash` |
| `MCWaterfallAgain.cfg` | `MCWaterfall` | `PaidOnceByPlan` |
| `MCLlmGateQueue.cfg` | `MCLlmGate` | `QueuedCallEnds` |
| `MCLlmGateShorter.cfg` | `MCLlmGate` | `RetryAfterKept` |
| `MCLlmGateProbe.cfg` | `MCLlmGate` | `OneProbe` |
| `MCRebuildTwice.cfg` | `MCRebuild` | `NoSecondMovement` |
| `MCRebuildLeft.cfg` | `MCRebuild` | `NeverLeftWaiting` |
| `MCStage4Window.cfg` | `MCStage4` | `NeverEmptied` |
| `MCStage4Twice.cfg` | `MCStage4` | `CashGivenOnce` |
| `MCStage4Sum.cfg` | `MCStage4` | `BalancesExact` |

The last three, `MCLedgerWiped.cfg` and `MCRebuildLeft.cfg` show that each exception that
a property of section 3 makes is needed: without it the code breaks the property, for
`MCStage4Twice.cfg` and `MCStage4Sum.cfg` with no two runs active together.

Why these bounds are enough for the questions asked: every interference the code
allows is between what one handler read and what another committed, so two
requests (or one request and an engine) exercise it; 3 and 5 with attributions of
2 give an open, a partially paid and a settled balance, a balance of exactly
`EPS` (3 less 2), and a change of the amount in the source in both directions;
6 against 4 pays one document in full and another in part. Two attributions
of one event are the least with which a sum can be stale. Two matches of 2 on an invoice
of 3 or 5 give a second confirmation that finds enough or too little, and a deletion of
one match while the other is confirmed; ids of matches are not used again, so that two
bound what a trace can do with them. Ages in `ReconLock` are capped one
tick past the larger limit, beyond which the code cannot tell them apart.
`SYMMETRY` in `waterfall` permutes attribution ids, which no definition
distinguishes; that run has safety and action properties only. `NetAmounts` bounds the
attributions that a ledger starts with; a match in full may give a cent more than
the movement has, so what a waterfall stores goes up to `MaxNet`. A
waterfall may use the id of a row it deletes again for a row it stores, which
keeps the id set small; no reader can hold a deleted id then (`NewId`).

For the newer modules: three callers are the least with two requests in flight
and one that waits or newly arrives; two failures make a count below the
threshold different from zero; one retry separates first and last attempts. Four
faults in `jobs` reach a job that is lost, restarted, fails all its attempts and
loses a status write. With pages of two, three updates give a page that holds two
updates, one of which may be of the same transaction, and a second page; two loops
are enough for one to overtake the other. One rebuild per process, and a refresh that
shares a pool with one of them, give every case of a lock: taken on one session, given
back on another, abandoned, closed under its holder. In `stage4` a movement of 3
against documents of 3 and 2 gives one whose cash ends in the middle of a second line or is
used up by the first, and a match of 1 by the brain leaves a balance between; a second
movement lets a rebuild come back in two batches. The model's suggestions name no amount, so
the document's is taken. One rebuild gives every window (`MaxRebuilds`), one fault
(`MaxFaults`) every aborted transaction, failed save and failed restore.
`SYMMETRY` there permutes the two runs; it has no liveness property.

`CHECK_DEADLOCK FALSE` is set where the system really stops: when every job has
ended (`jobs`, `jobs_chain`), when the bank has no update left to report and no
loop is under way (`bank_feed`), when all rebuilds are over (`rebuild`), when all
runs are (`stage4`, `stage4_unfiltered`). The other runs check for deadlock.

## 5. Fairness

`CashLedger!Fairness` and `EngineFairness` are strong fairness of the steps of a
request, or engine, that has started: nothing in a handler waits for a user, and a
statement that waits for a row lock is in PostgreSQL's queue for it, so
intermittent availability is enough. Nothing is assumed to start, and `Fail` is
never required. `ReconLock!Fairness`: a step of a run ends or throws, time
passes, and somebody keeps asking for a run. The last is an assumption
about users: without a request nothing ever frees a stale lock. Nothing is
assumed of administrators.

`LlmGate!Fairness`: time passes, the scheduled flush, abort timers and backoffs
fire. Nothing is assumed of callers or of the service, so `ServedWhileBusy`
states that requests keep being sent as its hypothesis.
`BackgroundJobs!Fairness`: the worker and Bull go on with every job (weak fairness
per job, as a job is never disabled by another for ever), and a request or refresh task that
has started goes on; clients need not send anything. `BankFeed!Fairness`: the bank
delivers the webhook it owes, loops that run go on. `MovementRebuild!Fairness`:
runs go on, and the database grants a free lock. That a pool closes idle sessions
(node-postgres does after 10 s) is an action and not assumed: the pool serves every
request of the process, so a session that was left with the lock may never be idle.
`WaitersServed` excepts that case (`LeftBehind`), `MCRebuildLeft.cfg` shows it. `Stage4` states
no fairness: what it promises is safety.

## 6. Proofs

All theorems hold for every value of the constants allowed by the named
assumptions (`AmountAssumption`: documents are above the tolerance, amounts are
naturals; `IdAssumption`: attribution ids are finitely many, invoices and bills
differ, `NoRow` is no row; `LimitAssumption`: time limits are naturals;
`EngineAssumption`: `MovementOrder` lists each movement once, as a query by primary
key does, and the planner's tables speak of events and movements).

* `CashLedgerProofs` begins with the row functions: `CanonicalStatusPaid`,
  `UpsertKeepsSettled` and the lemmas that each writer's row function yields a
  consistent row. For the ledger, the inductive invariant is
  `TypeOK /\ ReferencesExist /\ PaidIffSettled`.
  `ReferencesExist` is the strengthening: a request that waits names a row that
  exists, otherwise a commit would write to a row that is not there. One lemma per
  action, each resting on `WriteEvent` (a consistent row written to one event) and
  `MoveRequest`/`EndRequest`. From it: `TypeCorrect`, `PaidIffSettledHolds`,
  `ConfirmedMatchesHold`, and the action properties
  `PaidReopensOnlyByUserHolds` and `ReducedBalanceGrowsOnlyByUserHolds`, both from
  one lemma that each step keeps an event's balance down or is a user's.
  `ConfirmedMatchesHold` needs `TakenIsHeld` beside it: for an event not overwritten the
  balance and the sum of its matches stay within the amount, where a match counts that is
  confirmed or that a DELETE under way has seen confirmed, as that one will give its cash
  back whatever has become of the match. The sum is the
  cardinality of a set of cents, so that one more or one less match is a disjoint union.
* `WaterfallProofs`: `EInv` is the ledger's invariant and `EngineInv`: what an engine
  has read exists and was settled, it has read what its plan pays, and every
  attribution has its movement. It says nothing about how old the snapshot is, and
  need not: D6 and D7 take the plan off the rows that are there.
  - The planner and the replay are recursive functions over a sequence. What they
    return is shown by induction, from the least natural number that a claim fails for
    (`LeastNatural`, `SetInduction`); `RecursionExists` shows that the functions their
    definitions choose exist. `PlanIsPlan` is the planner's contract for any events,
    movements and cash; `ReplayIsTaken` says that a replay keeps rows consistent and
    raises no balance.
  - For any number of overlapping engines: `EInvHolds`, `EngineTypeCorrect`,
    `EnginesKeepPaidIffSettled`, `EnginesReopenNothing`, `EnginesGiveNothingBack`, and
    `HistoricalMatchedOnce`, which rests on `PaidIffSettled`: a paid event with a
    balance would be open to a second match.
  - `ApartStaysWithinCash`: as long as no two runs are between D5 and commit at a time
    (`TransactionsApart`: from the start of D5, as one that waits keeps its snapshot), no movement gives more than its cash, though runs overlap
    while they read and plan. Its invariant `CashInv` adds that a movement has one
    attribution at most, that a plan keeps to the cash, that D5's snapshot has every
    attribution while no other run is between D5 and commit, and that a run past D5 has
    deleted every attribution. `OneRunStaysWithinCash` is the case of one engine, which
    the run `waterfall` checks. The hypothesis is what the reconciliation lock promises
    (`OneRunInTime`) to those who take it; the brain does not, and the code takes no
    lock at D5. Without the hypothesis `MCWaterfallTwo.cfg` refutes the conclusion.
* `ReconLockProofs`: the inductive invariant is
  `TypeOK /\ AtMostOneRunInTime /\ ActiveRunHoldsLock`; the second needs the
  third, as the guard of `Acquire` excludes a second run only because an active
  run's lock is running. `LockImplementsExclusion` maps every step to a step
  of `RunExclusion` or a stutter.

* `LlmGateProofs` (from `GateAssumption`): the inductive invariant is the conjunction of the four invariants
  of the run and `BackoffHasRetry`, as a retry stays within `MAX_RETRIES` only because a call
  without retries left is never sent to its backoff. The count of requests in
  flight is inductive only with the queue's distinctness: the flush turns as many
  entries into requests as it adds to the counter.
* `BackgroundJobsProofs` (`JobsAssumption`): the properties speak of jobs that have ended; the invariant
  adds how far a running one has come (`ChainInv`, `RowInv`): what its row holds
  between a write and its end, and that it has no successor beyond those of
  stalled runs until it is behind `queue.add`.
* `BankFeedProofs` (`FeedAssumption`): `RowsFollowCursor` is not inductive, as a loop that ends may have
  excused a row. `RowsBounded` says how old such a row can be: not older than the place from
  which a loop that carries it has read. `PagesWhole` and `RemovedForGood` make that
  bound survive single writes.
* `MovementRebuildProofs` (`RebuildAssumption`, `Waiters`): at most one session holds the lock, a run that has its
  lock took it on a session of its pool that holds it, a session waits only for a run
  of its pool. For `AttributionsSurvive` (`KeepInv`): until an undisturbed run restores,
  each attribution that it found has a copy under an observation of its movement
  (`Copied`), and an observation only goes to a movement made of it (`OwnerMade`), so
  that the copy comes back where the property says.
* `Stage4Proofs` (`StageAssumption`): a run whose transaction is good, has missed no row and
  has deleted a movement's rows has put one in their place or has a suggestion and cash for
  one ahead (`RunOK`), hence `NeverSeenWithout`. `BalancesAlwaysFollow` and
  `ModelAlwaysWithinCash` need sums over sets of rows: `NetOf` is a fold, and what it does with
  an empty set, one more row and a disjoint union follows by induction on strict inclusion of
  finite sets (`SubsetInduction`, the `NetOf...` lemmas). Their invariant `SumInv` says of each
  open transaction that what it has taken off documents and movements is the sum of its rows
  and that no two of its lines have one key (`Counted`). While nothing is disturbed
  (`Alone`): one run at most is active and has nothing of an earlier run to replace; what
  a rebuild is going to delete is what it has saved; what an unmatch has summed up is still right, which is the
  reason why a commit in between must disturb; and stored and set-aside rows together add up.

Only model-checked: liveness (`RequestsComplete`, `EnginesComplete`,
`LockRecovers`, `ServedWhileBusy`, `EveryJobEnds`, `RefreshSettles`,
`LoneWebhookCatchesUp`, `WaitersServed`), which the prover does not reach under
fairness, and the violations. Every invariant and every action property of a passing
run is the property of a theorem.

## 7. Divergences between code and its documentation

Two have a run and a row under "findings" with the quoted line:

* The second job of the onboarding chain is added to the queue of the first, where
  no handler serves its name; the chain never runs (`jobs_chain`).
* Suggestions of the language model are applied before the filter that is to
  ground them (`stage4_unfiltered`).

The others are reproduced by the further configurations of section 4:

* Sync, unmatch and manual marking change a status without a log row, although
  `lib/db.ts:1532` says every transition is recorded (`MCLedgerUnlogged.cfg`).
* A confirmed match that is rejected keeps the cash it took (`MCLedgerReject.cfg`), and so
  does one that is deleted with its movement when movements are rebuilt
  (`MCLedgerCascade.cfg`; `matches/[id]/route.ts` says of its DELETE that it restores the
  amount, the cascade of `lib/db.ts:1876` does not).
* Unmatch sums up attributions only and mark-unpaid restores the whole amount: both write
  over what a match took that stays confirmed (`MCLedgerWiped.cfg`).
* Two interleaved requests make an unmatch write a stale balance (`MCLedgerUnmatch.cfg`).
* Marking an event with an open balance as paid always rolls back (`MCLedgerMarkPaid.cfg`).
* A run that outlives the time-out shares the ledger with the next (`MCReconLockOverrun.cfg`).
* A second waterfall deletes the attributions of the first but keeps the balances
  they reduced (`MCWaterfallRerun.cfg`).
* A status write is skipped against an old snapshot (`MCWaterfallStale.cfg`).
* Two waterfalls of one user (the brain runs one without the lock) both delete, then
  both store a plan for the same cash: a movement gives more than it has
  (`MCWaterfallTwo.cfg`).
* A document that a run has just paid is matched a second time by the next movement,
  in spite of the comment at `lib/reconciliation-waterfall.ts:543` (`MCWaterfallAgain.cfg`).
* `lib/llm-rate-limiter.ts:10` says queued requests fail after 30 s; a queue with
  nothing in flight is never looked at, so they wait for ever (`MCLlmGateQueue.cfg`).
* Line 11 there says "Respects Retry-After headers when a 429 is received"; a second 429 in
  flight replaces a longer wait by its shorter one (line 48), and a request is sent while the
  first still runs (`MCLlmGateShorter.cfg`).
* `lib/llm-circuit-breaker.ts:80` says "HALF_OPEN: allow exactly one probe request"; the
  line after it lets every call through (`MCLlmGateProbe.cfg`).
* An advisory lock that stays with a session which other requests keep in use blocks
  every later rebuild (`MCRebuildLeft.cfg`).
* While a rebuild runs, readers see matched movements without their matches
  (`MCStage4Window.cfg`), although `lib/reconciliation-llm-match.ts` says of its own
  transaction that readers never do; a run that reads then gives the cash out a second time
  (`MCStage4Twice.cfg`).
* An unmatch beside a run of stage 4 writes a balance without what the run took
  (`MCStage4Sum.cfg`), as it does in the ledger.
* Two rebuilds of one process may both get the advisory lock, which the session
  they share holds already, and store each movement twice (`MCRebuildTwice.cfg`).

## 8. Assumptions of the models

* Amounts are whole cents and documents exceed one cent; floating-point residue
  below a cent is not modelled.
* Locks: a transaction that locks its rows first is one action. Confirmation
  locks the match then the event, deletion the event then the match; PostgreSQL
  aborts one of two that deadlock, which is `Fail`.
* Apply-match and split-match end in an error before they commit (a uuid compared
  with text, a column that does not exist), so they have no action.
* Attributions of source `user` never exist for an event: the only writer is the
  sentinel of mark-paid, which the NOT NULL constraint refuses. Attributions in
  `Waterfall` are therefore all of earlier waterfalls.
* The unmatch fallback for a missing event is not reached, since rows of
  `cash_events` are never deleted.
* Parts of the waterfall that cannot be reached are left out: the settlement
  branch (its class is excluded first), stage 2 (stage 1 takes its whole fee
  band) and a second match of one movement in stage 3 (events of one kind have
  distinct entity ids).
* Fee lines hold no bank cash (`component_type != 'fee'` in the sum) and change
  no event, so they are not stored.
* A feed may list any documents with any amounts; a bill with nothing due is
  skipped by the code, hence not listed.
* Bull, Plaid, PostgreSQL's locks and node-postgres pools are external and modelled
  from how the code uses them: a job added under a name without a handler fails, a stalled
  job is restarted `MaxStalled` times, pages of the feed are contiguous and a removed
  transaction does not return, a session may take an advisory lock again that it holds,
  `COMMIT` of an aborted transaction rolls back.
* Timers fire at their time or later.
* An amount that the language model names is above zero, or it names none.
* A rebuild's batches of 50 rows are one batch in `MovementRebuild`; in `Stage4` they are any.
* In `CashLedger` a rebuild's DELETE takes the matches; what it does to attributions is in
  `Stage4`, and a rebuild beside a waterfall is in neither.
* In `Stage4` the stages before find nothing to match, the brain's waterfall commits one match
  and before it no other waterfall row, and the DELETE of the model's earlier rows finds them by
  the movement ids the run has read. One rebuild at a time: `MovementRebuild` is about two.
* Transactions run at READ COMMITTED, PostgreSQL's default, which nothing in `lib/db.ts` changes.

## 9. Not modelled

The components of the inventory without a module, each with its reason in
`PROJECT.json`: the fusion engine (off by default), admin scripts (run by hand),
connectors, forecasts, scoring, sessions and the user interface (input, output and
read-only computation: the largest part of the repository by lines). Apply-match and
split-match change no state.

Within modelled components: names, classes and confidences of the waterfall (their
outcome is a constant), the review metadata of D4, the match audit log, expected
dates (an order), the page reads of `ar-ap-step`; the fee band of stage 1, as no run
gives `Processor` a member; prompts, masking and logging of language-model calls;
`match-customers` jobs (their step violates the CHECK of `job_status.step`, so they
never write a row) and `process-webhook` jobs (nothing adds one); the balance refresh
and the other webhooks of the bank; how transactions are grouped into movements (any
grouping is allowed, so that the properties hold for each), their naming and
their tagging.
