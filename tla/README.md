# token-throttle in TLA+

token-throttle limits the rate at which a program consumes a resource with
several quotas at once (requests and tokens per second, minute, day), across
tasks, threads and processes. A caller reserves the usage it expects
(`acquire_capacity`), does its work, and refunds what it did not use
(`refund_capacity`); usage that already happened is recorded and may put a
bucket into debt (`record_usage`). This directory holds TLA+ models of that
machinery, TLC runs on small instances, and TLAPS proofs for all instances.

## 1. Inventory

| component | state | operations | correct when |
|---|---|---|---|
| capacity arithmetic (`_capacity.py`, `_memory/_bucket.py`) | stored amount, time of the last read, limit, rate | lazy refill on read, write-back, change of the limit | no time is paid twice, no capacity appears, also when the clock steps back |
| memory backend (`_memory/_backend.py`, `_memory/_sync_backend.py`) | buckets, table of open charges, FIFO of refunded ids, waiter rows | await, consume, refund, set limit, rebuild | an id is charged once and settled once; interrupted calls leave nothing behind; waiters return |
| SQLite backend (`_sqlite/`) | bucket rows, acquire markers, refund tombstones, overrides | the same in transactions, shared between processes; pruning by age | the same, across crashes and expiry |
| Redis backend (`_redis/`) | keys with TTLs, per-bucket locks, scripts | the same under locks that may expire | the same, with lost replies and expired keys |
| async limiter (`_rate_limiter.py`) | pending and in-flight reservations, delivery cleanups, drain event, refund states and locks, closing flags, family tables | acquire, record, refund, close, evict idle families, override limits, refresh config | every charge is delivered, refunded or reported; one credit per reservation; close drains what runs |
| sync limiter (`_sync_rate_limiter.py`) | the same | the same on threads | the same, with contended guards |
| limiter configuration (in both limiters) | quota snapshot, runtime overrides, alias table | refresh from a callable config, override, restore | config and override are applied in order; no metric set changes under a pending acquire |
| callbacks, DTOs, validation, diagnostics, OpenAI factories, conformance suite | none of their own | pure or read-only | not modelled |

Interaction: the limiter builds one backend per model family, asks it to charge
in a task of its own, and keeps the reservation in a bounded table until it is
refunded, expires or the limiter closes. Backends know reservations by their
markers; one that has *marker authority* rejects refunds it did not issue or
has settled, otherwise the limiter's own tables are the only guard. User
callbacks run at suspension points and may raise. A caller may be cancelled at
every await.

Hard behaviour: cancellation between the charge and its delivery; refunds that
race refunds, cleanups, evictions from bounded tables and close; limits and
bucket sets that change under waiting calls and open reservations; lazy refill
from a wall clock that may step back; drains that time out and are retried;
processes that crash or close around a committed transaction, rows that expire
by several lifetimes, a database that is lost under running engines.
`PROJECT.json` lists the hazards by line.

## 2. Modules

| module | models | extends |
|---|---|---|
| `Capacity` | one bucket: `calculate_capacity`, `set_capacity`, `set_max_capacity` as operators | |
| `ReservationLedger` | abstract specification: what any backend promises about reservation ids | |
| `MemoryBackend` | the memory backend of one family, async and threaded | `Capacity` |
| `MemoryAccounting` | history variables for what buckets should hold | `MemoryBackend` |
| `SqliteEngine` | the SQLite store of one family and every transaction on it, as operators | `Capacity` |
| `SqliteBackend` | the calls of `SqliteBackend` and `SyncSqliteBackend`, processes, reconfiguration | `SqliteEngine` |
| `SqliteAccounting` | an eager token bucket to measure the shared rows against | `SqliteBackend` |
| `RedisStore` | the Redis keys of one family, the scripts and pipelines on them, as operators; changes of limits and quotas | `Capacity` |
| `RedisCalls` | what the calls of both Redis backends share: locks, reading, amounts, running a script, a process that dies | `RedisStore` |
| `RedisBackend`, `SyncRedisBackend` | the calls of either backend: tasks that are cancelled, threads that are signalled | `RedisCalls` |
| `RedisFleet` | both on one server, with lapsing locks, expiry and eviction | `RedisBackend`, `SyncRedisBackend` |
| `RateLimiter` | the reservation lifecycle of either limiter, one limited family | |
| `LimiterConfig` | how either limiter configures one family: alias registry, cached backend, quota snapshot, runtime overrides, eviction | |
| `MemoryBackendProofs` | theorems about the calls and tables of the memory backend | `MemoryBackend` |
| `MemoryAccountingProofs` | theorems about the amounts in its buckets | `MemoryAccounting`, `MemoryBackendProofs` |
| `RateLimiterProofs`, `RateLimiterChargeProofs` | theorems about the limiter | `RateLimiter` |
| `LimiterConfigProofs` | theorems about the configuration | `LimiterConfig` |
| `SqliteProofs` | theorems about the SQLite store and its calls | `SqliteBackend` |
| `SqliteAccountingProofs` | theorems about the amounts in its rows | `SqliteAccounting`, `SqliteProofs` |
| `RedisProofs` | theorems about the Redis keys, locks and calls | `RedisFleet` |
| `MCMemoryBackend`, `MCMemoryAccounting`, `MCSqliteBackend`, `MCSqliteAccounting`, `MCRedisFleet`, `MCRateLimiter`, `MCLimiterConfig` | instances for TLC | |

`MemoryBackend`, `SqliteBackend` and `RedisFleet` each implement
`ReservationLedger` (`ImplementsLedger`): the three stores keep different tables
and lose them in different ways, and promise the same of an id.

Several modules take a *set* of instances as a constant (`Deployments`,
`Instances`, `Bounds`). `Init` picks one and no step changes it, except that
bounds count down. One run so covers every instance, and no behaviour mixes two.

Operators whose comment begins with *Mistake* are plausible errors of the code.
No specification uses them; each shows, put in place of the definition that
follows it, that a property can fail.

### Capacity and MemoryBackend

Amounts are whole and scaled: a bucket that refills `max` tokens in
`PerSeconds` seconds keeps tokens multiplied by `PerSeconds`, so that one second
refills exactly `max` and no fractions arise. Floating-point rounding is
therefore left out. Time is relative: each bucket carries the seconds since its
last read (`elapsed`, negative after the clock was set back) instead of a time
stamp.

A *task* is one call of the backend. The condition variable is never held
across an await, and a critical section is one step. In the threaded backend a
thread may be switched out between its checks before the lock and the section,
so `RefundCall`/`RefundCommit` and `SetMaxCall`/`SetMaxCommit` are separate
steps; an asyncio task takes both at once, which is the special case of two
adjacent steps. `objs` are the bucket objects a call captured: a rebuild between
capture and use makes them unreachable (`gen`, `Reachable`), and what is written
to an unreachable object is lost, as in the code.

| step | code |
|---|---|
| `AwaitCall`, `TryReplay`, `TryReject`, `TryConsume`, `TryWait`, `WaitStartReturns`, `Wake`, `Unregister` | loop of `await_for_capacity` |
| `CallbacksReturn`, `InterruptCallbacks`, `Undo` | delivery, or the shielded `_refund_cancelled_consumption` |
| `Record`, `RecordReturns` | `consume_capacity` |
| `RefundCall`, `RefundReject`, `RefundCommit` | `refund_capacity_for_buckets` |
| `SetMaxCall`, `SetMaxCommit` | `set_max_capacity`, `apply_configured_max_capacity` |
| `Reconfigure` | `prepare_reconfigured_backend` and `install_reconfigured_state` |
| `Tick`, `ClockSetBack` | `time.time()` |

One simplification: `consume_capacity` of the threaded backend compares the
metric keys before it takes the lock; the model compares them at the commit. The
limiter refuses to change a metric set while other acquires are pending.

### SqliteEngine and SqliteBackend

Every operation of the engine is one `BEGIN IMMEDIATE ... COMMIT`, with the
clock read inside it, so it is one step; a transaction that raises changes
nothing (`Rollback`), pruning and repairs included. Inside it the order is the
code's: prune a batch of each table (which rows, the database chooses), classify
the reservation id, load and repair every bucket of the engine (`Load`: expired
row, ended override, suspected loss, future time stamp, extended deadline of a
debt), decide, write, insert or move the marker. Time is the absolute wall clock
here, because lifetimes are what this store is about.

`row`, `marker` and `tombstone` are the three tables; `updated_at` and
`created_at` are never read and left out. `engine[e]` is one `SqliteEngine`:
its configured limits and `_state_confirmed_until`, the evidence by which it
tells a lost row from one that expired. Engines that start and crash are
processes; `BuildNext`, `ClearOverrides` and `Replace` are the steps of a
limiter that exchanges its backend for one with other quotas. `Replace` comes
after the transactions queued on the old worker, as `aclose` does.

| step | code |
|---|---|
| `AwaitCall`, `TryReplay`, `TryReject`, `TryConsume`, `TryWait`, `GiveUp` | loop of `await_for_capacity` / `_wait_for_capacity_impl` around `try_consume` |
| `CallbacksReturn`, `Interrupt`, `InterruptClosed`, `Undo`, `UndoFails` | delivery, cancellation and `cleanup_consumption` |
| `Record`, `RecordReturns` | `consume_capacity`, `consume` |
| `RefundCall`, `RefundCommit`, `RefundReject` | `refund_capacity_for_buckets`, `refund` |
| `SetMax`, `ApplyConfigured` | `set_max_capacity`, `apply_configured_max_capacity` |
| `Reconfigure`, `StartProcess`, `Close`, `Crash` | `prepare_reconfigured_backend`, builder, `aclose`/`close`, the end of a process |
| `Lose`, `Tick`, `ClockSetBack` | the database files and `time.time()` |

`held[r]` is what callers know of a reservation; it is history, except that a
refund is called with the caller's copy of scope and usage. A call cancelled in
the transaction that charged submits its cleanup outside the `try` that records
failures (`_backend.py:481`). When `close()` has shut the worker down by then,
the charge stays unreported until it expires: `InterruptClosed` models it and
`NoOrphanCharge` exempts it.

Left out: schema creation and migration, retries and abandonment of a build on a
busy database, diagnostics, the error for a debt that would need more than
2^31-1 seconds of retention, reservation lifetimes below the maximum.

### RedisStore, RedisCalls, RedisBackend, SyncRedisBackend, RedisFleet

A call of a Redis backend takes the locks of its buckets one by one, in the
order of their keys, reads all buckets, extends its locks, sends one Lua script
or MULTI pipeline, and waits for the reply. Each of these is a step; a script is
atomic, and nothing else is. `call[c].locks` is what the call believes to hold,
`lock[b]` who does: `LockLapses` stands for the lock's time-to-live running out
under a caller that stalls. `amount` is what the call computed from its reading
and the script writes as it is, so that an update can be lost; `_extend_locks`
is what stands against that.

| step | code |
|---|---|
| `AwaitCall`, `RecordCall`, `RefundCall`; `WaitCall`, `SyncRecordCall`, `SyncRefundCall` | the three entry points of each backend |
| `Lock`, `Contend`, `Extend`, `ExtendFails`, `GiveUp` | `_lock`, `_extend_locks`, lock contention, cancellation before the write |
| `ReadAndCompute`, `ReadAndWait`, `ReadAndReject`; `SyncRead` | `_get_capacities_unsafe`, `get_capacity` with its repairs, the wait loop |
| `Send`, `Resend`, `NoReply`, `Reply`, `CheckLanded`, `CheckRaises` | `_set_capacities_unsafe`, a reply that is lost, the look for one's own write |
| `InterruptSent`, `Interrupt`, `CallbacksReturn`, `CleanupDrainEnds`; `Signal`, `SignalInCallback` | delivery, cancellation, `_refund_cancelled_consumption`, its time limit |
| `OverrideLimit`, `ConfigureLimit`, `ReplaceConfig` (`SetMax`, `ApplyConfigured`, `Reconfigure` of the store) | `set_max_capacity`, `apply_configured_max_capacity`, `prepare_reconfigured_backend` |
| `Crash`, `Tick`, `EvictState` | the end of a process, the server's clock, state keys that the server evicts |

`held[r].status` is what the client knows. The ways the code is known to leave
a charge behind until it expires have a status each: `unanswered` (the reply and
the look for it both fail), `resent` (redis-py sent the acquire script twice, its
second answer is "replayed", and the cancelled call takes the charge for that of
an earlier call: `_backend.py` 2425-2433), `signalled` (an exception raised by a
signal inside the script of a thread) and `crashed`. `NoOrphanCharge` says that
there is no other. An id that a caller uses twice is marked `reused`, and
`DeliveredIsLive` and `CreditedOnce` do not speak of it: a second acquire of an
id that is interrupted in its callbacks undoes the charge of the first.

Simplifications. Buckets are windows of one metric. Changes of limits happen
while no lock is held and their process makes no call; the keys one of them
writes, including the retained history before the new override, are written in
one step. A request that timed out and runs on the server only after the backend
looked for its traces is left out. Also left out: key schema and format checks,
corrupt values, the resolution of the server's clock, diagnostics, lifetimes
below the maximum, refunds without a marker.

### LimiterConfig

One model family as its limiter sees it. `validated`, `counts`, `aliases` and
`representative` are the registry of the models that share the family,
`backend`, `quotas` and `overrides` its rows in the tables of that name, `lock`
is `_lock`. The backend is external and reduced to an identity (`gen`; a rebuild
carries the charges on, which `epoch` expresses) and the limit of each bucket.
`source` is the user's callable config, which may answer for one alias before
it does for another (`Rollout`).

Both limiters run this code, in the same order. A thread of the sync limiter may
be overtaken at every step; a task of the async one gives way only at an await
of the backend or of `_lock` (`MayRun`). `limiter` says which one it is.

| step | code |
|---|---|
| `Resolve`, `BeginPending`, `Validate`, `Conflict` | start of `acquire_capacity`/`record_usage`, `_validate_shared_model_family_config` |
| `Reuse`, `Miss`, `StartBuild`, `FinishBuild`, `FailBuild` | `_get_backend`, `_build_backend` |
| `Synchronized`, `RefuseRebuild`, `StartRebuild`, `FinishRebuild`, `FailRebuild`, `StartApplying`, `ApplyLimit`, `FinishApplying`, `FailApplying` | `_sync_backend_quotas`, `_restore_runtime_max_capacity` |
| `SetMax`, `NothingToSet`, `WriteMax`, `FailWrite`, `UnknownBucket` | `set_max_capacity`, `_commit_runtime_max_capacity` |
| `Deliver`, `GiveUp`, `Refresh`, `Credit` | the end of an acquire, `_refresh_backend_for_reservation` |
| `Scan`, `Evict` | `clear_unused_model_families` |

Two properties are stated for the event loop only. In threads the unlocked path
of `_get_backend` can pair the backend it read with a snapshot that another
thread replaced after, and return the backend that was replaced
(`_sync_rate_limiter.py:2262`); and an acquire may begin between the scan and
the eviction, whose `_validation_lock` `_begin_pending_acquire` does not take. `LimitsInForce` holds of
both, with exceptions kept in history variables: `torn` are buckets of a refresh
that raised half-way and an override whose write landed although the call and
its re-read raised; `overtaken` records an eviction during `set_max_capacity`
or an acquire. `OneSignature` counts aliases under the family's signature, and
does not claim that every alias was last seen with it: when the representative
has moved, one alias moves the count of the whole family, and a sibling whose own
row is unchanged still passes the first test of
`_validate_shared_model_family_config` with its old config
(`_rate_limiter.py:2870`).

Left out: unlimited configs, a model that changes its family, the branch that
leaves overrides to a SQLite database.

### RateLimiter

An acquire or record call is named by its reservation id, a fresh uuid4.
`RateLimiter` lives on one event loop; `_acquire_guard` and `_refund_state_lock`
are never held across a suspension, so sections under them belong to the step
around them, and a step ends where the code may really suspend.
`refund_lock[r]` is the per-reservation lock: its head holds it, the others wait
in FIFO order.
`refund_state` and `refund_order` together are the ordered dict of refund
states, `Remember` inserts and evicts. The backend is external: it charges,
refuses, fails its own cleanup, credits. `deployment` says which kind of backend
it is (`authority`, `probe`, `lost_replies`), who calls, whether reservations
expire and whether a close times out; `given_up` and `credits` are history.

`SyncRateLimiter` (`threads`) takes the same steps, because its threads too
share state only in sections under a guard. It differs where the code does:
nobody is cancelled; a `threading.Lock` goes to any of the waiting threads
(`Turns`), so a close is done draining when nobody *holds* a lock; and an
undelivered acquire is finalized once more before it is refunded.

`probe` is the comparison of bucket contents before and after a failed backend
call. On one event loop the memory backend's refund has no suspension before its
write, so there the probe tells the truth. In threads it does not: a write of
another thread (`Touched`) makes a refund that failed look written, the limiter
commits it, and the reservation keeps its charge until refill makes up for it
(`RefundMisread`, `_sync_rate_limiter.py:1954`). Such charges are in `given_up`.
The opposite mistake does not happen: its own write is always seen, which
`SettledFreesSlot` says of deployments with lost replies too.

Not in this module: unlimited reservations, several families and aliases, config
refresh beyond its failure and runtime overrides (both in `LimiterConfig`,
which also has `clear_unused_model_families` in threads), the `reserve()` scope,
signals that interrupt a thread between two statements.

## 3. Runs

Every run finishes in less than five minutes on two workers. `CHECK_DEADLOCK
FALSE` everywhere: callers may stop calling, so a system at rest is a legitimate
end. A run asks all questions that fit one instance, so that each property meets
the hard behaviour of the others.

| run | instance | shows |
|---|---|---|
| `memory_calls` | 2 calls, 2 metrics, a limit lowered, one metric removed and added, 2 ids of which callers reuse one, refund memory of 1 | no orphaned charge, no delivered reservation without marker; the marker tables implement `ReservationLedger`, open and refunded ids are disjoint, the FIFO bounded |
| `memory_liveness` | 2 calls, limit 2 lowered to 1, requests of 2, debt, clock set back 1 s | every await returns |
| `memory_accounting` | 2 calls, a 1 s window and a 2 s window that is added and removed, limits lowered and restored, clock set back 1 s | no capacity from nothing, open charges held, nothing leaks |
| `sqlite_calls` | 2 calls, 2 ids of which callers reuse one, markers for 1 s, tombstones for 3 s, a crash, a lost database | delivered reservations stay refundable for their lifetime; no orphaned charge; the two tables implement `ReservationLedger` with expiry |
| `sqlite_rows` | `Lowered`: limits 3 and 1, an override to 1, debt of a full window, clock set back 1 s; `Replaced`: 3 engines, 2 quota sets that replace each other, a crash | expiry forgives no debt; an override lasts its term; an expired row is never taken for a lost one |
| `sqlite_budget` | 2 processes that start, crash and close, one id used again and again, debt, refunds, a lost database, clock set back 1 s | all engines find what one eager bucket holds; losses and corrections create no capacity |
| `redis_calls` | 2 tasks and a thread, 2 windows, 2 ids, no time; a lock that lapses and a request or reply that is lost or resent, or an id used again | no lost update unless a lock lapses under the script itself; charges are delivered, undone or reported; one credit per charge; markers and tombstones implement `ReservationLedger` |
| `redis_retention` | 1 task, one window, 3 quota sets, an override to 1, debt of a full window, an eviction, a crash, 8 s | the history of an override outlives the state it explains; keys outlive debt; expired state is never taken for lost |
| `limiter_calls` | `Marked`: an acquire and a record with lost replies, expiry, cancellations, a close that times out; `Crowded`: 3 calls for 2 slots, no marker authority, refund table of 1; `Racing`: 2 callers that refund, without marker authority, in tasks or threads; `Twice`: two closes; `Patient`: a close without timeout; `Threaded`: the same in threads, 2 refunding callers, lost replies and a probe | no charge without slot, no slot without charge, no raising acquire that keeps its charge; one credit per reservation, the slot goes with it, the cap holds; backend resources released only when idle; close returns |
| `limiter_config` | 2 callers, 3 quota sets over 2 buckets, an override; event loop with one model or two aliases, threads with one model; failures and an eviction | one signature per family; acquires served by the family's backend in their scope; reservations keep their backend; buckets work with the limit the limiter remembers |
| `memory_readded` | violation | a refund credits a bucket that was never charged, after its id was removed and added again |
| `memory_debt_floor` | violation | recording usage erases debt after the limit was lowered |

Bounds. Two calls are enough for every race of the memory backend: critical
sections are atomic and each race is between one call's two sections and one
other step. `Replays` is the set of ids that callers use more than once; two ids
with tables of one entry force evictions, and properties that only hold for
callers who keep to fresh ids speak of the others. `MaxElapsed`, `MaxSkew`,
`MaxTicks` bound clocks; windows are two seconds, so a bucket can be empty,
partly and fully refilled. `MaxStored` bounds what a bucket keeps above a
lowered limit and is never reached before the limit rises again. `MaxGen` bounds
how often an id is built anew: once suffices for every finding. In the SQLite
runs the lifetimes are the shortest the builder accepts (`StoreAssumption`: rows
for two windows, markers for less than half of that), so that 4 to 8
seconds (`last_second`) let every kind of row expire while calls are open. `PruneBatch` is
1: the tables are shared with other families, so a batch may remove any one
expired row of this family or none, and expired rows lie around next to pruned
ones. One crash, one loss and one second of skew are enough for one repair to
meet another. Configured limits agree between processes, as
`docs/sqlite-backend.md` requires, except while `Replaced` replaces an
engine. In the limiter two ids overlap with `MaxInFlight = 2`, and three compete
for two slots in `Crowded`; a refund in threads is misread because of another
one of a different reservation, or because of an acquire. In `redis_calls` time stands still, since expiry is
the other run's subject; with limits of 1 every second acquire waits. One lapsed
lock with one lost message lets a call lose its lock before, between and after
another's section and then its reply; two tasks of one process and a thread of
another meet in every pair. `redis_retention` gives its keys the shortest
lifetimes the builder accepts, and eight seconds are enough for an override, its
history and a debt of one more window to end one after the other. In
`limiter_config` two rollouts let a config go and come back, three backends a
build and two rebuilds; two models are needed only for the registry, and the
instance with two does without overrides and failures.

Fairness. `MemoryBackend!FairSpec` assumes that a call that can go on does
(event loop, or threads that all run), that the clock runs, and that it is set
back only finitely often; a call gets its
turn because waiters poll at least every second and the number of calls is
finite. `RateLimiter!FairSpec` assumes that runnable tasks, or threads,
run and that the backend answers, which `CallsReturn` shows of the memory backend. Nobody is
obliged to call, to cancel or to time out.

The two violations are findings: `docs/operations.md` promises that refunds
after a config change avoid "crediting unrelated capacity", and the property
tests state that no operation creates capacity from nothing.

## 4. Theorems

Each theorem holds for all values of the constants that the named assumptions
admit. An invariant of a run is proved with an inductive one of which it is a
part or a consequence, and that one with a case, or a lemma, per action or per
kind of step that the actions share.

**Memory backend** (`ShapeAssumption`, `BoundAssumption`).

- `MemoryBackendProofs!TypeCorrect`: `TypeOK` is inductive as it stands because
  it says that calls past their start know their id.
- `MemoryAccountingProofs!CreatesNoCapacity`: `NothingFromNothing`. The
  inductive invariant is `AccountingInv`: `TypeOK`, the types of the history
  variables, and `NothingFromNothing` itself, stated of what a bucket holds
  *uncapped* (`Holding`): stated of what it shows (`Avail`) it would not be
  inductive, since a lowered limit hides an amount that a raised limit shows
  again. Reading never increases the holding (`ReadBound`); writing back what
  was read less what was taken keeps the bound, action by action; a change of
  the limit anchors the bucket at the old rate (`AnchoredAmount`); a second adds
  the same to both (`OneMoreSecond`), and a clock set back adds nothing
  (`ShiftedAmount`).
- `MemoryAccountingProofs!OpenChargesStayHeld`, `NoCapacityLost`:
  `OpenChargesAreHeld` and `NothingLost`, under `Replays = {}` and
  `[]NoneRebuilt` (no bucket id is removed and added again). Neither hypothesis
  can go: an id used twice is credited twice when the second call is undone after
  the first was refunded, and an id that returns starts a new account to which
  refunds of older charges still go (`memory_readded`). Limiter ids are fresh
  uuid4s; the run has both hypotheses by its bounds. `ChargeInv` is
  `OpenChargesAreHeld` together with `CallsMatch`: what a call carries to undo or
  refund (usage, metric keys, scope) is what the marker of its id says. A credit
  then takes from the account the term that leaves the sum with the marker; an
  account is therefore never overdrawn. For `NothingLost`, `KeepInv` adds the
  bound for what a bucket *stores* (`StoredKept`); a cap at the full window cannot
  break it because the account is not negative, and the debt floor only raises. The sum over the open charges
  is a fold, which the provers cannot unfold by induction. `Adds` says of any
  function on the subsets of a finite set that it adds up term by term; such
  functions agree (`AddsUnique`, `AddsWithin`), exist (`AddsExists`), and lose
  the term of the element taken out (`TotalWithout`), each shown on a smallest
  counterexample (`MinimalSet`) instead of by induction.
- `MemoryBackendProofs!MarkersStayDisjoint`, `MemoryImplementsLedger`: every step
  leaves the two tables alone or charges, drops or settles one id (`TableStep`).
  With disjoint tables each of these is `Issue`, `Undo` or `Settle` of
  `ReservationLedger`, the ids that the FIFO evicts being those the ledger
  forgets (`LedgerStep`).
- `MemoryBackendProofs!DeliveredStaysLive`, `NoChargeOrphaned`: neither
  property is inductive. `DeliveryInv` adds that an id that callers use once has
  at most one call that acquires it (`OneOwner`), that its marker is there from
  the charge to the delivery (`OwnerCharges`), that ids not handed out yet are
  used by nobody (`UnissuedUnused`), that a refund is under way only for what
  was delivered (`RefundsFollowDelivery`), and which outcomes a call can still
  have (`OutcomesInPlace`). Without them an arbitrary second call with the same
  id could undo the delivered charge.

**Limiter** (`LimiterAssumption`: finitely many reservations, at least one, none
of them also a user; positive caps).

- `RateLimiterProofs!LimiterTypes`, `SlotsStayWithinCap`, `BackendClosesIdle`.
  `LimiterInvariant` has four parts. `CallsInvariant`: types, the order of the
  refund table, which call holds or waits for which lock, and what the program
  counters of the calls on one reservation say of each other. `SlotsInv`: an
  acquire has its slot, and its cleanup mark until the refund of an undelivered
  reservation has committed, and the drain event is set only when nothing is
  pending or cleaned up; `CloseInv`: a close that has drained the acquires finds
  none and lets none in, and waits for every refund in a lock; and
  `SlotsWithinCap` itself.
- `RateLimiterChargeProofs!ChargesStayTracked`, `InFlightStaysCharged`,
  `RaisedGivesBack`, `CreditedLeavesSlot`, `CreditedAtMostOnce`: from
  `LedgerInvariant`, which adds to `LimiterInvariant` what the backend has of an
  id at each place of its acquire (`ChargeInv`), and why what was credited once
  cannot be credited again (`CreditInv`: no live marker of it is left, or it has
  left its slot with the write). `CreditedAtMostOnce` has a hypothesis on the
  backend, `Accountable`, that every deployment of `limiter_calls` meets: marker
  authority, a probe that shows the write of a refund whose reply was lost, or
  no lost replies. A backend with none of these can be asked again for what it
  wrote, and the limiter cannot tell.

**Configuration** (`ConfigAssumption`: finitely many models, a start
configuration, and `None` apart from everything it is compared with).

- `LimiterConfigProofs!RegistryKeepsOneSignature`, `AcquiresServedInScope`,
  `BackendOutlivesReservations`, `RememberedLimitsInForce`. `ConfigInv` has the
  types of the application's world and of the calls (`WorldTypes`,
  `CallTypes`), the registry with cardinalities (`RegistryInv`), what the holder
  of `_lock` has built or written so far against backend and snapshot
  (`BackendInv`), what the event loop excludes between two awaits (`LoopInv`),
  and the limits that `LimitsInForce` speaks of, also in the middle of a refresh
  (`ForceInv`).

**SQLite** (`StoreAssumption`, `CallsAssumption`). `SqliteProofs` first follows
one row through a transaction (`SurvivingRow` to `LoadedRow`, `WrittenRow`,
`RelimitedRow`), then classifies every step (`NextKind`): a call takes one of
eleven kinds of step on its id (`CallKind`), an operator acts, a process dies,
the database is lost, or the clock moves.

- `StoreAndCallsTyped`, `IdlenessNeverDrains`, `OverridesLastTheirTerm`, from
  `StoreInv`: the types, `RowsSound` (a row that is not there has no override)
  and `EvidenceHolds`: while the database stays and the clock runs forward,
  every second of evidence that some engine has of a bucket is covered by a row
  with state that outlives it. `DrainsOnlyLosses` alone is not inductive: it
  does not say that the row stays past the evidence. The argument is that a
  commit takes at most nine tenths of the row's life for evidence
  (`NineTenths`), that every other engine's write only prolongs the row
  (`TransactionKeepsEvidence`), and that a replacement inherits evidence of the
  same rows (`InheritedEvidence`).
- `DeliveredStaysLive`, from `DeliveryInv`: for an id used once, `OwnerInv` (one
  call acquires it, callers know nothing of it before that call returns, refunds
  come after) and `MarkerInv` (from the charge on, the marker ends when the
  caller's copy says). The second does not survive without the first: a cleanup
  of another call could take the marker away.
- `NoChargeOrphaned`, from `BookInv`, for ids used twice as well.
- `SqliteImplementsLedger`: `Spec /\ [](skewed = 0) => ImplementsLedger`.
  `BookInv` also says that no id has both a marker and a tombstone
  (`Exclusive`), without which an expiring marker would uncover a tombstone.
  `FadedEntry` shows that pruning is invisible, `CallMovesBook` that a call's
  step is one of the ledger's, `ForgottenBook` that a second or a lost database
  is `Forget`. The hypothesis excludes a clock set back, which may bring several
  expired, unpruned ids back to life in one step; the run of this property keeps
  the clock running forward for the same reason. `DeliveredIsLive` and
  `DrainsOnlyLosses` exclude it too: a marker pruned at its end is missing when
  the clock returns to a time before it.

- `DebtOutlastsItsRow`:
  `Spec /\ []Concord /\ [][Announced]_<<vars, agreed>> => []DebtOutlivesIdleness`,
  for all limits, windows and overrides, over crashes, lost databases and clocks
  set back. The property speaks of rows that expired; the invariant `Solvent` of
  every row with state: the time left between its last write and its deadline
  pays what is owed and a window more at the slower of its limits, and its
  override was not over when the state was written (`Pays`). The second half is
  what makes the first inductive: without it an override that ends could leave
  an older state with a fresh, short deadline. Each repair of a load leaves the
  row as it was or just touched (`Renewed`), and the extension on the same read
  makes up for that (`ExtendedPays`); `DebtPaid` is the arithmetic of
  `debt_ttl_seconds`. `RowMoves`, which comes out of `NextKind`, says that any
  step rewrites a row in one of four ways or makes it fresh. The hypotheses are
  about configurations and not about the store: `agreed` remembers the limit of
  each bucket, processes that have the bucket configure it so (`Concord`), and it
  changes only by an `apply_configured_max_capacity` that writes it to the row
  (`Announced`). They are needed: TLC gives a second process with limit 1 a full
  bucket of 2 seconds 4 seconds after one with limit 3 left it 3 tokens in debt,
  when it alone would have refilled 2. A replacement that gives a kept bucket another limit
  is outside them too, for the time in which old and new engine disagree. Within
  them are limits lowered and raised at run time, in-place changes by the only
  process of a bucket, and replacements that add and drop buckets; the run
  `sqlite_rows` has no others.

- `SqliteAccountingProofs!ExpiryMakesNoCapacity`, `ProcessesShareOneBudget`:
  `NeverMore` and `OneSharedBudget`, from `BudgetInv`. With the fixed limits of
  the accounting specification a row in debt by a full window is full two windows
  later, and rows live at least that long. `Backed` says so of each row with
  state: the eager bucket holds no less, and is full again by the row's deadline,
  so that expiry only forgets a full bucket. `Unspent` says of a bucket without
  state that the eager one is full, or that a loss happened which every engine
  can prove; `Exact` adds equality while the clock runs forward and the database
  stays. The first two are proved without the third, and so hold across losses
  and corrections.

**Redis** (`RedisAssumption`, `CallsAssumption`, `FleetAssumption`: lifetimes
that the constructors enforce, limits above zero, and a call belongs to a task or
to a thread, not to both). `RedisProofs` first says what each script and pipeline
does to the keys of one bucket and what reading finds afterwards, then classifies
every step of a task or thread by what it does to locks and keys (`StoreKind`: it rests, waits, takes or gives back
locks, reads, extends, executes) and to its id (`CallKind`), so that both
backends share each argument.

- `KeysAndCallsTyped`: `Typed` has the types together with what later proofs
  need of a call in its locked section: it has the locks of all buckets of its
  process, and its amounts are of these buckets (`RecSound`); and with how long
  each key of a bucket lives beside the others (`KeyTypes`), which gives
  `HistoryIsThere`.
- `ExpiryIsNoLoss`, from `Typed` and `Evidence`: each second at which a process
  remembers having confirmed a bucket, and each write it is about to confirm, is
  backed by keys that live a full `BucketTTL` from then on, or that were evicted
  since. The property itself forgets the keys that are still there and is not
  inductive.
- `RedisImplementsLedger`: the invariant is `Exclusive`, no id has a live marker
  and a live tombstone. `StepKinds` sorts every step into one of a caller, one
  that leaves ids and calls alone, a crash and a second; each is a step of
  `ReservationLedger` or a stutter.
- `NoChargeIsOrphaned`, from `Cared`: a marker whose client knows nothing has a
  call of the owning process that has the answer of the script, will look for
  the marker, or undoes it. Which of these a call is in must be said by its place
  (`Cares`), as a lost reply, a resent script and a cleanup follow each other.
- `DeliveredKeepsMarker`, `OneCreditForACharge`, from `Once`: for an id used
  once, at most one call consumes or undoes it (`Acts`), what such a call knows
  agrees with what the client knows and with the marker (`Acting`), a refund is
  of a known reservation (`Refunding`), charges exceed credits while the marker
  is there (`Account`), and ids beyond the last issued are untouched. The two
  properties need each other: a cleanup that ran on after its client recovered
  the reservation would both take the marker and credit it again.
- `StaleWritesTakeAStall`, from `LockInv`: a lock is held for a bucket of its
  holder's process (`LockHolders`); unless a lock lapsed under a script, a call
  that writes holds all its locks (`Guarded`); what a call has read it would
  read again in every bucket whose lock it still has (`Accurate`). The third is
  said of calls before the extension as well, where some locks may already be
  gone: the extension turns "whose lock it still has" into "of all its buckets".
  `ReadAmounts`, `AmountKept` and `AmountSame` show that reading twice, a read by
  another process and writes to other buckets leave the amount alone.
- `DebtOutlastsItsKeys`: `Spec /\ []Concord => []DebtOutlivesKeys`, from `Debts`
  beside the invariants above. The property speaks of keys that expired, and the
  invariant of those that have not: `Solvent` says that the time left between
  the last write and the deadline pays what is owed and a window more, at
  `SlowRate`, the slowest rate under which the bucket may refill from then on.
  `Matching` says that the override in force is the one its history remembers,
  without which that rate could drop later than the deadline was computed.
  `Careful` says that a call that holds the locks it read under writes for a limit
  no faster than `SlowRate`. `CeilDivCovers` and `ProductGrows` do the
  arithmetic of the rounded quotient. `Concord` is the hypothesis, and TLC shows on
  instances larger than the run's that neither part can be dropped. Processes
  agree on the configured limits (`docs/configuration.md` asks to coordinate
  rollouts): one that is ahead with limit 3 leaves a debt for 4 seconds, drops
  the bucket from its quotas, and the process that stayed at limit 2 finds it
  full before it is paid. And no lock lapses under a call that writes.
  The extension of the locks
  aborts when a lock was lost before it, but after it a refund still awaits the
  pipeline that retains the history and the script, which ask for no lock
  (`_backend.py:2086`), and stores the lifetime computed for the limit it read.
  TLC finds the behaviour once `redis_retention` has a second process and
  `Bounds <- {Upto(1, 0, 0, 0)}`: the other process lowers the limit from 2 to 1
  in between, the debt of a full window then lives for 4 seconds and not for the
  6 that `_debt_ttl.py` asks for at the new limit.
  `docs/operations.md` (line 359) says without exception that such a write "is
  aborted and makes no change".

Only model-checked:

- `CallsReturn`, `CloseReturns`: liveness is out of the proof system's reach.
- `RefundsCreditOwnBucket`, `RecordingNeverCredits`: violated, as is
  `DebtOutlivesKeys` without `Concord` and `DebtOutlivesIdleness` without its
  hypotheses, on instances larger than their runs'.

## 5. Plan

1. `LimiterOnMemory`: `RateLimiter` composed with `MemoryBackend`.
2. The part of `DebtOutlivesIdleness` that a replacement with another limit
   leaves: the bound on what is forgiven while the two engines disagree.

## 6. Not modelled

- Callbacks (`_interfaces/_callbacks.py`): dispatch, time limits and logging
  wrappers. The modules know them as suspension points that may raise.
- DTOs and validation: stateless checks; the models take inputs that pass them.
- Diagnostics: read-only, and diagnostic waiters that feed them.
- OpenAI factories: construction, and token counting by tiktoken.
- Conformance suite: tests for other people's backends. It was read as a
  statement of what a backend promises.
- Of the modelled components, what the end of each part of section 2 lists.
