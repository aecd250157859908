# A TLA+ model of auto-invest-manager

auto-invest-manager plans and executes trades for one broker account. Six parts
of it run at the same time and share PostgreSQL and Redis: the HTTP API, the ARQ
worker, the scheduler, the stream listener, the broker and the administrator.
This directory models what these do to each other. TLC checks the models on
small instances, and TLAPS proves the results that matter most for any number of
orders, sessions, workers and runs.

Paths below are relative to the repository. `app/` stands for `src/app/`.

## Inventory

| Component | State | Operations | Talks to |
|---|---|---|---|
| execution (`app/execution`) | `planned_orders`, `virtual_trades`, `execution_orders`, `order_events` | plan_orders, execute, execute_sandbox, approve, reject | settings, broker, plans of portfolio |
| automation cycle (`app/automation`) | `automation_runs`, Redis lock `automation-cycle:{account}`, ARQ jobs | POST /automation/run, scheduler tick, run_automation_cycle, recover_stale | calls signals, portfolio and execution in one database session |
| stream inbox (`app/streams/repository`, `processor`) | `broker_stream_events`, debounce key and reasons in Redis, ARQ jobs | persist_event, claim/complete/fail/retry_event, startup_recovery, cleanup, schedule_debounced_reconciliation, run_reconciliation_job | listener, worker, admin API |
| account reconciliation (`app/streams/reconciliation`) | `account_reconciliations`, `account_events`, `broker_operation_cursors`, snapshots | reconcile, commit_cursor, save_account_event, trigger of a cycle | broker, automation queue |
| stream supervisor (`app/streams/supervisor`, `lease`) | `broker_stream_states`, Redis lease per stream type | acquire, renew, release, reconnect, stale detection | broker streams, inbox |
| portfolio (`app/portfolio`) | `rebalance_plans`, `target_allocations` | optimize, plan lots, create_plan | signals, snapshots |
| signals (`app/signals`) | `signals` | run | market data |
| admin (`app/admin`) | `system_settings`, `risk_profiles`, `watchlist_items` | PATCH settings, risk profile, watchlist | read by everything |
| broker adapters, retry, notifications, health, security, frontend, migrations | none of their own | translation, output, read-only views | |

What is hard in it:

- A cycle lives in one SQLAlchemy session made with `expire_on_commit=False`
  (`app/db/session.py:18`). What it has once loaded, it keeps.
- The API and the worker execute the same orders without a lock between them.
  The unique keys decide after the fact.
- The post to the broker and the row that records it are not one step.
- ARQ delivers jobs again after a crash and silently drops a job whose id is in
  use. Lock and debounce key live for a fixed time. `asyncio.timeout` cuts off
  any await, the release of the lock included.
- Recovery happens only when a worker starts.

Correct means, per component:

- execution: an order trades at most once, in the mode it was planned in; its
  status agrees with its rows; manual orders never trade; kill switch, mode,
  limits and cooldown hold at the moment of the trade.
- automation: one cycle at a time, a correlation id once; every run ends; a lock
  is never stolen and never left behind; recovery does not hurt live runs.
- inbox: a dedupe key has one row; an event is never left without a job and is
  not processed again once processed; every event leads to a reconciliation.
- reconciliation: no operation missed or counted twice; each deposit triggers.
- supervisor: one leader per stream; an orphaned lease expires; a listener told to
  stop does.
- portfolio and admin: weights stay within caps, the cash reserve is kept, and the
  cross-field checks hold for the stored values.

`PROJECT.json` lists the hazards line by line with the property that covers each.

## Modules

| Module | Role |
|---|---|
| `Execution` | orders, sessions, settings, broker posts, clock |
| `OrderLedger` | what execution promises, without sessions, checks or time; `Execution` implements it |
| `AutomationCycle` | runs, ARQ jobs, API request, lock, workers, timers |
| `StreamInbox` | inbox rows, ARQ job ids, debounce key, workers, streams, admin requests |
| `StreamLease` | the lease of a stream, the listeners' tasks, the renewing task, Redis |
| `AccountReconciliation` | operations of the broker, cursor, account events, notifications, triggers, jobs |
| `AdminSettings` | watchlist and risk profile, overlapping PATCH requests |
| `Rebalancing` | extends `AdminSettings` by signals and plans: analysis, optimizer, lot planner, create_plan |
| `ExecutionProofs`, `AutomationProofs`, `StreamInboxProofs`, `StreamLeaseProofs`, `AccountReconciliationProofs`, `RebalancingProofs` | theorems and their proofs |
| `ExecutionLimitProofs`, `PlanProofs` | extend the first and the last of them by the properties that count rows, and by those of plans |
| `MCExecution`, `MCAutomationCycle`, `MCStreamInbox`, `MCStreamLease`, `MCAccountReconciliation`, `MCRebalancing` | model values, and the sets and functions the configurations choose from |

Some operators have a neighbour marked as their mutant: a plausible bug,
used to show that a property can fail. No specification refers to them.

### Execution

Actions follow the code's awaits. A *session* is a database session with the
coroutine that uses it. A request's session is new for every call; a cycle's
keeps its settings row and the order rows with the attributes first read
(`get_settings`, `held`).

| Code | Actions |
|---|---|
| plan_orders, save_orders | BeginPlan, SaveOrders |
| execute, execute_sandbox up to the context | GetOrder, GetHeldOrder, SkipExecutedOrder, HeldOrderConflict |
| _build_risk_context | ReadSettings, ReadLatestTrade, CountTrades, Evaluate |
| RiskManager.evaluate | RiskAllows |
| reject, simulate, post, save_sandbox_execution | Reject, Simulate, post_sandbox_order, SaveSandboxExecution, IntegrityError |
| approve, reject (manual) | GetManualOrder, SetConfirmationStatus |
| PATCH system settings | UpdateSystemSettings |

Abstractions:

- `get_order` and the look-up of the execution order are one step, as are the
  order and settings reads of `_get_manual_order`, and the two SELECTs of
  `latest_trade_time` and of `count_trades_since`.
- Only the rules on settings, mode, daily limit, cooldown and duplicates are
  computed. All others (account, watchlist, prices, amounts, weights) may refuse any order.
- A cycle takes its orders in any order. `Fail` stands for every way in which a
  call can end early.
- A row is dated by the start of its transaction, because `executed_at` and
  `created_at` default to `now()`.
- `nr` stands for the primary key of a row. A second row of an order is
  another row, whatever its time, so that one order with two trades can be told from
  one with one. The unique index on `planned_order_id` is the guard of `Simulate` and
  `SaveSandboxExecution`.
- `lost` is a history variable: it counts the posts whose call failed before
  `save_sandbox_execution` committed.

Bounds: `MaxTime` ends the clock, `MaxCallTicks` limits a call, `MaxPosts` limits
the posts of one order. With 2 of them and two sessions, `cycle` shows a post that is lost
and repeated, and one that two calls make, but it cannot exceed the bound `PostsAccounted` sets for
a recorded order; `serial`, with one session and two posts, can.

### AutomationCycle

A run stands for a correlation id and the one job that carries it. A worker is at
`safety_check`, `account_sync`, `locked`, `pipeline`, `skipped` or `succeeded`
inside `asyncio.timeout`, and `unwinding` or `failing` outside it. Timers are ages and
remaining times, so no bound on time is needed.

`broken` says that an exception has left the job's database session in a transaction that must
be rolled back. `_fail` uses the session of the run without a rollback (`service.py:252-260`), so that
its commit raises in its turn and the run stays PENDING or RUNNING: `Abandon`, which then needs no
further fault. `MayBreakSession` lists where this happens: anywhere in the pipeline (the
IntegrityError of an execution commit or of `save_broker_state`), and before it at a statement that fails
or that the timeout cuts off.

Abstractions:

- All runs are of one account (`_select_account`), so there is one lock. Its token
  is the worker: a worker holds no two leases.
- `Begin` is `get_settings`, `_resolve_run` and the first `update_step`.
- The steps of `_run_pipeline` are one place, `pipeline`, at which a heartbeat, an
  exception or the end may come at any time; a mode the pipeline does not execute ends
  it like a closed market (`Succeed`). `update_step` writes no status, since
  SQLAlchemy updates changed columns only.
- `DropJob` covers duplicates and a failing first statement. `recover_stale` is atomic: a run stale
  enough to be read has no worker left that could change it (RecoverySparesLive).
- ARQ's `max_tries` and kept results are left out: `Schedule` may queue a run again
  at any time.

### StreamInbox

An event stands for a dedupe key. A process is a worker, a stream task of the
listener or an admin request, and all three run
`schedule_debounced_reconciliation` as MarkAccount (`SET NX`), AddReason (`SADD`) and
QueueReconciliation. ARQ jobs are known by id, as in the code: `stream-event:{id}`
and its variants for recovery, retry and dead letter. A finished job's result
occupies its id until ResultExpires.

| Code | Actions |
|---|---|
| _handle_event, persist_event | Receive, persist_event, EnqueueEvent |
| process_broker_stream_event, process_event | claim_event, ClaimNothing, complete_event, fail_event, Requeue |
| run_reconciliation_job | TakeReconciliation, ReadAccount, ClearReasons |
| admin API | RequestReconciliation, retry_event, EnqueueRetry |
| startup, cleanup | ReadProcessing, startup_recovery, startup, cleanup |

Abstractions:

- A failing or stalling Redis call of a worker ends in `fail_event`, whether Redis
  has done it or not. A timeout that hits a database await leaves the session
  unusable, so it is an Abort: the job raises and the row stays.
- The SELECT of pending events and the queueing of their jobs are one step. The
  states of streams that `startup_recovery` also resets are not part of this module.
- A row lock held by another claim makes a claim find nothing: the claim is atomic
  here, and the row is then PROCESSING.
- The reasons of a reconciliation are left out; `ReadAccount` is the place of
  `AccountReconciliation`. `deaths`, `stalled` and `overtaken`
  are history variables, with which a property can say in whose absence it holds.
- ARQ's `max_tries` and `record_trade_signal` (which adds an order event) are left out.

Bounds: `MaxReconciles` limits how many reconciliation jobs wait when the key expires,
`MaxDeaths` how often a process dies or gives up.

### StreamLease

A listener is a process with one of its stream tasks and the task that renews the
lease. The tasks of a process share nothing but the stop event, so one is enough.

| Code | Actions |
|---|---|
| run | Start, Stop, Exit |
| acquire, release | acquire, Refused, AcquireFails; release, ReleaseFails |
| _run_stream, the loops | Connect, StopConsuming, LeaveLoop |
| _run_stream, except and finally | StreamFails, Backoff, GiveUp, Reconnect; Close |
| _renew_lease | renew, LeaseLost, RenewFails |
| outside | Crash, Forget (Redis restarts), Tick (expiry) |

Abstractions:

- What a task does with an event is in StreamInbox. The rows of
  `broker_stream_states` and the heartbeat key are left out: only status views
  read them.
- A call to Redis, PostgreSQL or the broker answers or fails. Where it fails, the
  Redis command may have been carried out.
- A renewal is sent every `RenewInterval` and arrives up to `RenewDelay` later. That
  bound stands for the pauses and latencies of a real process.
- `failures` stops counting at `ReconnectLimit + 1`. From 1025 on, `2 ** (failures - 1)`
  overflows a float and the stream ends (GiveUp). It never goes back: the code that resets it
  (`supervisor.py:168-171`) follows a loop that only ends by the stop event.

### AccountReconciliation

An operation is one the broker will report as executed at some time, with the date of its
execution. The account has one row in `account_reconciliations`, since its correlation id
is a constant of the account. ARQ's workers run the jobs, which therefore overlap.

| Code | Actions |
|---|---|
| schedule_debounced_reconciliation | Notify, KeyExpires (its steps are in StreamInbox) |
| run_reconciliation_job up to reconcile | TakeJob |
| reconcile: broker reads, get_or_create_cursor | get_cursor |
| _read_operations, save_broker_state | read_operations, ReadFails |
| save_account_event, Notifier.send | RecordEvent, Announce, RecordChange |
| commit_cursor, finish_reconciliation | commit_cursor |
| the trigger, the deletion of the key | Trigger with Kind and Enqueue; Clear |
| the job of the triggered cycle | StartCycle (its run is in AutomationCycle) |
| the except branch | FailReconciliation, Raise |
| outside | Tick, Report (late ones too), Crash |

Abstractions:

- A step ends where the code commits, calls the broker or calls Redis. The operations of
  one read are recorded in any order.
- The snapshots of positions and portfolio, the audits and the status of the reconciliation
  row are left out: only views read them.
- `classify_operation` keeps what the rest depends on: whether an operation makes an event,
  and whether that is a deposit.
- The pages of a read appear as their total (`MaxOperations`), without the opaque
  cursor that leads from one page to the next.
- The id of the row and the kind make up the id of the cycle's job and the correlation id of its
  run. So there is one cycle of each kind (`cycles`): it is queued while `stream_automation_trigger_enabled`
  is on (it is off by default), and one more job of a cycle that has started is dropped by
  `_resolve_run`. `served` and `dropped` are history variables: the deposits that were recorded when the cycle for
  deposits started, and those for which it was asked for in vain.

Bounds: `MaxTime` ends the clock, `MaxJobs` limits the jobs in the queue when a key expires,
`MaxFailures` how often a job fails or dies.

### AdminSettings and Rebalancing

A PATCH request is two steps: it reads its row and checks the row as it would become, and
later it writes the columns it changes. Between them other requests commit. `raced` remembers
the rows a request wrote that had changed since it read them.

| Code | Actions and operators |
|---|---|
| POST, DELETE watchlist | add_watchlist_item, remove_watchlist_item |
| update_watchlist_item, update_risk_profile | ReadWatchlistItem, WriteWatchlistItem; ReadRiskProfile, WriteRiskProfile; FailUpdate |
| SignalAnalysisService.run | AnalyzeWatchlist |
| create_plan | get_risk_profile, create_plan, RaisePlan |
| PortfolioOptimizer | Valid, Cap, ManualWeights, Shares, Uncapped, optimize |
| RebalancePlanner | Orders, Delta, WholeLots, Spend, Allocate, Allocations |

Abstractions:

- A weight is in parts of `Whole`, an amount in parts of 1/`Whole` of a rouble. In the
  checked instance `Whole` is 7200, the prices are whole and the weights are
  tenths, so that all divisions of the optimizer are exact. In the code they are rounded to 28 digits.
- The loop of the optimizer is the recursive function `Loop` inside `optimize`.
- The watchlist and the risk profile are read at different times. The signals, the
  broker's answers and the computation are one step with the read of the watchlist, because
  nothing else in them depends on what others write.
- A score is any of `Scores`. The engine's formula is left out.
- `plan` keeps the inputs beside the result: the properties relate the two.
- `PortfolioAssumption` says only that quantities, prices and money are numbers. `Valid`, which is `_validate` with
  its checks of values and lots that are not negative, refuses the rest.
- The order of targets with the same key is that of the query, hence any.

Bounds: `MaxEdits` limits the accepted requests, `MaxPlans` the plans.

## Runs

| Run | Instance | Shows |
|---|---|---|
| Execution_cycle | 2 orders, a cycle and a request, 3 modes, failures | types; status agrees with rows; one trade per order; manual orders never trade; requests recheck safety; every post recorded or lost by a failure; refusals final; implements OrderLedger |
| Execution_limits | 5 orders, 2 requests, 2 days, limit 1 | a day exceeds the limit by at most 2 x sessions - 1 |
| Execution_serial | 2 orders of an instrument, 1 request at a time, failures | posted again only as often as a post was lost, and once after it was recorded at most; cooldown kept |
| Execution_kill_switch | 1 order, a cycle | **violated**: a cycle trades after the kill switch was turned on |
| AutomationCycle_crash | 2 workers, 2 runs, crashes, faults | types; mutual exclusion; each run once; recovery spares live runs; no foreign lock deleted; a finished run is not taken up again |
| AutomationCycle_all_end | the same, fairness, crashes, broken sessions, but the stores answer | a run in hand ends unless its session breaks; one left RUNNING ends if workers are started again; the lock is always freed again |
| StreamInbox_inbox | 1 event, 2 workers, a stream, an admin, Redis failing, a death, late starts | types; no open event and no debounce key without a job; a processed event is never processed again |
| StreamInbox_settles | fairness, a trade and a status event, 1 worker, Redis failing | every event settles |
| StreamInbox_dead_letter | 1 worker, an admin | **violated**: a retried dead letter cannot be claimed |
| StreamLease_listeners | 2 listeners, crashes, faults, renewals up to a tick late | types; one leader; foreign leases kept; orphaned leases expire; a listener told to stop does stop |
| AccountReconciliation_found | 2 workers, 3 operations reported in any order, a failure or death at any step, pages for 2 operations, fairness | types; the cursor passes nothing unrecorded; a deposit is notified once and gets the one cycle for deposits or finds it started; every operation is found as long as events come |
| Rebalancing_plans | 3 instruments, 5 kinds of watchlist rows, 2 overlapping requests, 4 accounts | types; the stored settings keep their checks; limits, fair division, cash reserve; no plan takes back what the one before it did |

Why the bounds suffice. A conflict on one order needs two sessions, a conflict on the
lock two workers, one on an event or a key two processes, so two of each show every
pairwise interleaving. The cycle's session is the stronger one: it does all a request
does, with rows that are older. A second order, run or event shows what one leaves behind for the next.
Retries need two attempts to show a first, a repeated and a last one. Five orders
are what it takes to exceed the daily limit of one by more than the bound, so
`DailyOverrunBounded` is tested at its edge. Durations are small numbers that keep
the order of the real ones (run timeout < job timeout, lease, stale threshold). A
cycle still outlives its lease in `crash`: the job timeout leaves it the time to release
late, when the lock may be another worker's. In `listeners` the lease is just longer than
the latest renewal, so one tick more would lose it.

In `found`, one failure is enough to separate any two commits of a job, and the second worker
may have done everything in between. Two operations of one date and one of a later date
give a cursor that moves, stays and is passed by a late report, and two pages of three
operations a backlog. In `plans`, three candidates are the least for which a cap shifts money twice, and the
rows differ in each field the optimizer or the planner reads. The four accounts are empty, far too heavy in
one position, without money, and valued at marks that are not the last prices. Four edits
are a watchlist of two with two overlapping requests, or of three with one change.

Every run but `plans`, which stops after its plan, checks for deadlock.

## Fairness

Fairness is assumed only where the code or its deployment gives it.

- Time passes, and `asyncio.timeout` cuts off a guarded step that takes too long.
- A coroutine that waits for nothing but an answer goes on, or fails.
- A stream task goes on, and a due renewal is sent. That a stream delivers or fails, and that
  a listener starts, stops or crashes, is not fair.
- A stopped worker is started again (`restart: unless-stopped` in
  `docker-compose.yml`).
- ARQ takes the job with the lowest score, hence the oldest: strong fairness for taking
  a job. Redelivery, the scheduler, clients and the broker are not fair.
- A reconciliation job goes on or fails, and Redis drops a key whose time is over. That
  the account has further events is no fairness of the system: `EveryOperationFound` has it
  as its premise.

## Proofs

For every value of the constants that satisfies the named assumptions:

| Theorem | States |
|---|---|
| ExecutionProofs: TypeCorrect, StatusTruth, SingleRow, ManualSafe, RequestsSafe | `[]` of TypeOK, StatusAgreesWithRows, OneRowPerOrder, ManualOrdersNeverTrade, RequestsRecheckSafety |
| ExecutionProofs: Refinement | `Spec => Ledger!Spec` |
| ExecutionLimitProofs: DailyLimit | DailyOverrunBounded, if there is a session |
| ExecutionLimitProofs: EveryPostAccounted | PostsAccounted |
| ExecutionLimitProofs: RefusedForGood | RefusalIsFinal |
| ExecutionLimitProofs: CooldownKept | CooldownRespected, if no calls overlap |
| AutomationProofs: TypeCorrect, AtMostOnce | `[]` of TypeOK, ExecutedOnce |
| AutomationProofs: RecoveryIsHarmless | RecoverySparesLive, if `JobTimeout <= StaleThreshold` |
| AutomationProofs: MutualExclusion | CycleMutex, if `RunTimeout < LockTtl` |
| AutomationProofs: LocksRespected, EndsAreFinal | ForeignLockKept, FinishedStaysFinished |
| StreamInboxProofs: TypeCorrect, NothingStranded, ProcessedOnce, KeyIsBacked | `[]` of TypeOK, OpenEventsQueued and KeyHasJob; SettledStaysSettled |
| StreamLeaseProofs: TypeCorrect, SingleLeader, LeasesRespected | TypeOK; OneLeader, if `RenewInterval + RenewDelay < LockTtl`; ForeignLeaseKept |
| AccountReconciliationProofs: TypeCorrect, NothingPassedOver, NotifiedOnce, DepositsAskForCycle | `[]` of TypeOK, CursorBehindEvents, AnnouncedOnce, DepositTriggers |
| RebalancingProofs: ChecksKept, SettingsTypeCorrect | `[]` of ChecksHold and SettingsTypeOK under the whole of Rebalancing |
| PlanProofs: PlanTypeCorrect, LimitsKept, PlanIsAffordable, NothingTakenBack | `[]` of TypeOK, TargetsWithinLimits, PlanAffordable and NoReversal |
| PlanProofs: SharesAreFair | FairShares of a plan whose rounds left no rest |

The two assumptions of AutomationProofs are not checked by `app/core/config.py`; its defaults
(630 <= 1200 seconds, 600 < 1800 seconds) satisfy them.

The invariant for Execution is `TypeOK`, `OrderConsistent` (the status, mode, posts
and rows of each order agree), `UniqueRows`, `SessionConsistent` (a session past the
risk decision holds an order of its mode) and `BarredConsistent` (what a barred
session has read does not permit trading). The last two are needed because the
decision and the write it justifies are different steps.

ExecutionLimitProofs adds an invariant for each property that counts rows or compares times.

- `LimitInv` says by how much a day may exceed its limit. While the day lasts, each call that
  has passed the check has counted the rows of the day, so only calls that passed it
  together exceed the limit. After midnight a call counts the rows of the new day, but its own
  is still dated by its start: then each call begun on the day may add one more. This
  is where `2 x sessions - 1` comes from.
- `PostBounded`: before an order has a row, its posts are those that were lost and those of calls
  that have posted and not yet recorded. After it, posts and calls that may still post are
  together no more than the lost posts and the sessions, because no further call passes the look-up.
- `CooldownInv`: a call that `latest_trade_time` has let pass would keep the cooldown with the row it
  is about to write. The distance kept is less by the length of a call, because the
  row is dated by the start of the transaction and the check is made with the clock.
- `RefusedForGood` needs no more than the types: a step that changes a refused order, or makes
  it busy again, is that of a call that had read it before (`Quiet` says there is none).

`CooldownKept` has a condition, that of the run `serial`: overlapping calls do trade within the
cooldown. The others hold for any number of sessions that overlap and fail. They say how
much goes wrong, and through whom: an order whose call failed is posted again, calls that overlap
post it twice, and one that was under way may trade a refused order (see Findings).

The invariant for AutomationCycle is `TypeOK`, `WorkerConsistent` (a worker's step, run
and clock fit), `JobsExclusive` (two workers never execute one run),
`EnteredConsistent` (a run that was entered is not PENDING, unless its worker is about
to leave), `HeartbeatFresh` (the age of a run is at most the time its worker has spent) and
`ApiConsistent`. `MutualExclusion` adds `LeaseValid`: the holder's lease outlives the
rest of its timeout. `EndsAreFinal` adds `EarlyOpen`: what a worker is about to mark RUNNING
has not succeeded and was not skipped.

The invariant for StreamInbox (`InboxInv`) is the types with `Seated` (where a worker, a stream
and a request can be), `HeldConsistent` (a job id and an attempt number belong to one worker),
`AbsentConsistent` and `EnqueueConsistent` (a row has one stream that queues its first job, and
no trace before it is inserted), `OpenEventsQueued` itself, and, until a recovery overtakes a live worker,
`LiveConsistent` (the row still says what the worker claimed), `RetryConsistent` (a retry
has the number of an attempt that failed, so that its id is free), `OutcomeConsistent` and
`Attended` (a row is PROCESSING because of a worker, unless something died). `KeyHasJob`
is inductive with the types.

The invariant for StreamLease is `TypeOK`, `RenewerConsistent` (the renewing task lives
inside the try statement only) and `LeaseInStep`: the lease of a listener that renews is its
own, and its remaining time and its age make up `LockTtl`. `app/core/config.py:80` checks
`RenewInterval < LockTtl`, which leaves the difference for `RenewDelay`. `OneLeader` is about
listeners that renew: one whose renewal raised goes on consuming without a lease.

AccountReconciliation has an invariant for each property. That of `CursorBehindEvents` is
needed because the cursor a job writes was computed from what it read long before:
`Passed` and `Reached` say of the cursor, and of the copy or the operations of each job
(`ReadConsistent`), that what is older has been recorded, missed, or is still in the
job's hands, and that an operation of that date was reported, so that one that comes
later counts as late. `AnnounceInv` adds that a deposit about to be notified is nobody else's.
`TriggerInv` adds to `DepositTriggers` that what a job has created is recorded, and that the cycle for
deposits is queued only if there is one and starts with one. The theorem also covers the setting
being off, and jobs that find deposits and other operations in any mixture.

The invariant of the settings (`SettingsInv`) is the types, `ChecksHold` and `Checked`: what each
request in progress has read, and that the row it would make of it passes the check. A row that
nobody changed since is the row that was checked.

The invariant of plans (`PlanInv`) adds `Made`: what `create_plan` has saved was computed from
an account of `Portfolios` and rows that passed `_validate`. The rest is about the computation:

- `optimize` is a recursion and `Allocations` a fold, each written as a recursive function, of
  which first the existence has to be proved (`LoopExists`, `FoldExists`). Each round of the loop leaves less
  than it found, so the recursion is one over what remains. The library's induction
  theorems take an operator; the induction here is over the set of numbers, and that of finite sets, of
  which the claim is true (`NatSet`, `FiniteSetSet`), and only needs that such a set has a least element.
- `Sound` holds in every round: no weight exceeds its limit, and the weights with what remains
  do not exceed what may be invested. It needs only that a share is rounded down, so
  `LimitsKept` holds whatever such divisions leave. The code's Decimal rounds half to even instead, and
  can exceed a limit by 1E-28 (0.8 among three equal weights does).
- `FairRound` adds that who is below its cap still takes part, and has its share. That is true only when
  the divisions leave no rest (`DivisionsExact`): in parts of `Whole` a rest is as large as
  a part, while in the code it is 1E-28. Every plan of `plans` satisfies it, by the choice of `Whole`.
- `AffordableTrades` holds of every prefix of the fold: what is spent and what can still be
  spent are together no more than the budget.
- `NothingTakenBack` follows from rounding towards zero: a plan trades no more lots than bring the
  position to its target, so what is left has the sign of what was traded, or is nothing (`FilledDelta`).

Only model-checked: everything about liveness and ENABLED, which the prover cannot reach
(EveryRunEnds, LockFreed, EveryEventSettles, OrphanExpires, StopsWhenTold, EveryOperationFound). All
other properties of the passing runs are stated by a theorem; `FairShares` is one
that a theorem states in part.

## Findings

Two runs end in a counterexample to what a document says; `PROJECT.json` quotes the
lines. They are: a cycle that ignores the kill switch, and a dead letter that cannot be retried.

Seen while modelling and noted under the hazards:

- Execution: two overlapping calls post a sandbox order twice; a posted order has no record
  when the call fails, and is posted again by the next (README.md:144-146 promises that a
  repeated call does not post again, which holds once the order is recorded); a cycle that ends with an error leaves its other orders PLANNED, and they
  block later ones as duplicates; the planner looks neither at `max_trade_amount` nor at the
  limit price, which `risk.py:33,46` apply, so an order that exactly fills its cap is refused.
- Automation: a run stays RUNNING when its worker restarts quickly, and when the exception that ends it
  has left its session unusable. `tests/automation/test_cycle.py:251` expects FAILED after a timeout, with
  mocks in the place of the session. One still PENDING is never recovered.
- Inbox: a recovery overtakes a live worker (`startup_recovery` overwrites a row it read as
  PROCESSING); a reason is deleted unread during a reconciliation.
- Reconciliation: the correlation id is the account's, so only the first cycle of each kind
  runs while the audit of a later one says "Event-driven automation cycle queued" (`processor.py:135`); ACCOUNT_CHANGE is recorded once
  ever; a failure expires the row, and the handler raises in its turn, so FAILED
  is written only by the first job (`tests/streams/test_domain.py:272` has mocks in its place); a backlog
  beyond the pages of one read never ends; an operation reported late is not read.
- Supervisor: a quick restart leaves a listener without the lease for good; one consumes on after its
  renewal raised; the reconnect delay overflows after 1024 failures.
- Settings: overlapping PATCH requests break the checks across fields; values that pass all checks can
  make every plan fail (manual targets of more than may be invested, `max_position_weight` 0).
- Portfolio: a `max_weight` of 0 is no cap; a position off the watchlist counts as cash
  (`service.py:94`); a remainder of 1E-28 can keep the optimizer in its loop for tens of
  thousands of rounds.

## Plan

1. Done: Execution with OrderLedger, AutomationCycle, StreamInbox, StreamLease,
   AccountReconciliation, AdminSettings and Rebalancing, with proofs of all their safety properties.
2. A composition of StreamInbox, AccountReconciliation and AutomationCycle: which broker
   event leads to which cycle. Each module now has the step of its neighbour that it waits
   for as one action.
3. The strategy profile and the sync of accounts and instruments, if they get checks of their own.

## Not modelled

- Broker adapters, notifications, health, security, frontend and migrations keep no state
  that the properties are about. The broker appears as the external state `posts` and `reported` and as
  answers chosen nondeterministically.
- The retry policy repeats reads that change nothing: it is a delay or a failure of the call.
- The formula of the signal engine is a sequential calculation on candles. Its result is any score.
- The strategy profile has no check across fields. `sync_instruments` and
  `sync_accounts` insert rows that a model of fixed instruments and one account already has.
