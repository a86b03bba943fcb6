# A verification project for warpline

warpline is a multi-tenant function runtime: tenants upload WebAssembly
components to a control plane, and a host invokes them under per-tenant limits
on CPU time, memory, storage and concurrency. This directory holds TLA+ models
of it, TLC configurations that check them on small instances, and proofs, checked
by TLAPS, of the invariants that matter most. Line numbers refer to
`src/crates/`, those of the storefront to `src/examples/storefront/`.

## 1. The system

| Part | State it keeps | Operations | What makes it correct |
| --- | --- | --- | --- |
| `Runtime` (`core/src/runtime.rs`) | in-flight count per tenant, admission semaphore (one permit per MiB), compile semaphore, blocking tasks, the meter guard of each call | `invoke`, `stage`, `activate`, `activate_digest`, `deactivate`, `gc` | nothing leaks on any exit or cancellation; guest memory within budget; a call is billed once iff its guest started; everything ends |
| Component cache (`core/src/registry.rs` 190-363) | LRU of digests with weights, running byte total, one mutex | `lookup`, `load_existing`, `recompile`, `insert` | both caps hold; the total means what it says |
| Module store (`registry.rs`, `cache.rs`) | files: `wasm/`, `cwasm/`, pointers under `tenants/`, their mtimes | stage, activate, load, republish, startup gc | a pointer's source is always on disk; crashed uploads are collected |
| Publishing (`control/src/lib.rs`) | `warpline.functions` rows, advisory lock per tenant, pointer files | `publish_in_db`, `reconcile_pointer` | quota holds; row and pointer agree; refused uploads are never served |
| Authenticator (`core/src/pg/auth.rs`) | LRU of rows by key hash with times | `authenticate`, changes of the row | answers are only boundedly old; changes are seen |
| Usage meter (`core/src/pg/meter.rs`) | bounded channel, batch, drop counter, stop notice | `record`, writer task, `shutdown` | no row vanishes uncounted; shutdown flushes and ends |
| Sandbox (`core/src/sandbox.rs`) | engine epoch, the ticker's schedule; deadline, tick counter and limit of each store | `run`, deadline callback, `EpochTicker::spawn` | a call gets its budget and no more, is billed for its own time, and ends |
| Host capabilities (`types.rs`, `sandbox.rs`, `kv.rs`) | limiter totals, per-invocation counters, `MemKv` and its per-tenant totals | memory and table growth, `kv::put`, `log::emit` | combined memory under the cap; tenants charged exactly what they store |
| Storefront (`examples/storefront`), the app that embeds the runtime | merchants and their hooks; per checkout its order and the hook's decision; in Postgres the rows of `hook_kv`, a transaction and an advisory lock per put | `create_merchant`, `upload_hook`, `checkout`; `PgKv::get`, `put`; the hook's `decide` | tenants stay within their kv quota; an order is counted once; totals and discounts are justified; checkouts end |
| Outbound HTTP, administration, HTTP front ends, configuration, artifact format | little or none | see section 8 | not modelled, or only where they touch the above |

How they interact. The host's handler authenticates (Authenticator), then calls
`Runtime::invoke`, which takes a slot and admission, resolves the pointer (module
store), looks in the component cache, loads or recompiles on a blocking thread
under a compile permit, runs the guest (Sandbox, with the host capabilities as
its callbacks), and reports to a `MeterSink` (the usage meter) through a guard
that also works when the call is dropped. The control plane's upload calls
`Runtime::stage` (which shares the compile semaphore with `invoke`), then writes
row and pointer in one transaction. Host and control may be one process or two
that share only the modules directory and Postgres. The storefront is a third
process: its handler calls `invoke`, the guest calls back into `PgKv` through the
host capabilities, and handler, kv, authenticator and meter share one connection pool.

What is hard in it: cancellation of a future at any await while a blocking task
it spawned runs on; two sources of truth (row and pointer file) with a commit
whose outcome may be unknown; a collector that reads references first and
deletes later; a cache that deliberately has no single-flight; a byte counter
kept beside a structure that evicts on its own; time counted in ticks of a thread
that is not the guest's; a queue that is closed while senders are in the middle
of sending; rows cached under a time that is not the time they were read; a
transaction whose caller may be cut off at any statement; a client told to retry.

## 2. The modules

Each component has one module, an `MC` module with the values of its constants,
and one cfg per question. Definitions are named after the code where they can be.
`PROJECT.json` maps every definition to its lines. Definitions commented
`mutant:` are plausible bugs; they occur in no action.

* **Invocation** - `Runtime::invoke` and the compile gate of `Runtime::stage`.
  A job's `pc` is the await it stands at: `lookup`, `load`, `permit`,
  `recompile`, `running`; `unadmit` and `unslot` are the drops of
  `_admission` and `_slot` in reverse order of declaration. `task` is its blocking task,
  `permitQ` the FIFO of the compile semaphore, `poolQ` that of tokio's pool.
  `CancelCall` and `CancelStage` drop a future at any await: a queued or running
  task stays, detached, with the permit in its closure (`DetachedTaskEnds`).
* **InvokeContract** - what `invoke` promises, without semaphores, queues or
  threads: guests run only within both limits, and a bill is written as the guest
  stops. `Invocation` implements it (`Contract`, `ImplementsContract`).
* **ComponentCache** - one action per critical section of the mutex; a loader
  reads or compiles between them. `Put` is the `lru` crate's `put`, with the
  difference between the entry it returns and the one it drops.
* **Registry** - the files as ages (`wasm`, `cwasm`) and pointers; a writer, a
  reader and a gc pass each as a sequence of file-system steps with everything
  interleaved. `mode` is the deployment: gc before serving and alone, or beside
  another process's uploads of new or of already stored components. The pass may
  fail to stat a file (`GcCannotStat`) or to remove it (`GcCannotRemove`) and goes on;
  a pointer it cannot read or a directory it cannot list ends it (`GcAborts`).
* **Publish** - `publish_in_db` and `try_reconcile`, one action per statement.
  A session exists on the server (`open`) and, separately, for its client
  (`linked`); the advisory lock lives and dies with the server's. `activate`
  touches only the file system, so it does not notice that its session is gone.
* **AuthCache** - one bearer token. A copy of the row is `live` or has been out
  of date for `lag` ticks, so the model needs no versions.
* **UsageMeter** - the channel with the gap between taking a permit and linking
  the row, the writer's loop, INSERTs given up on that may still commit
  (`inDoubt`), `shutdown`, its deadline and the exit of the process.
* **Sandbox** - `call` holds the distance of each store's deadline to the shared
  epoch (`due`), the counted `ticks`, and, as history, the periods it really ran.
  `ticker` is the ticker thread against its absolute schedule: `Tick` is a bump on
  time, `Stall` a period that ends without one, `Bump` and `Schedule` make up for
  missed periods one by one, or start a new schedule (`Resync`).
* **HostCaps** - `TenantLimiter`, `kv::put` with `MemKv`, and `log::emit`.
  A put is counted before it waits for the lock, and quota check and write are
  one step under it. `size` is what regions really hold, which can be less than
  what was charged when a growth fails after it was accepted.
* **PgKv** - the kv of the storefront in Postgres, one action per statement of
  `put`: the pool, the advisory lock, the SUM, the upsert, the COMMIT. `heard` says
  whether the call still waits for its session: when it does not, the server
  finishes the statement under way and then rolls back. The quota is checked
  against the SUM read before; `rows` are the committed ones.
* **Storefront** - extends `PgKv` with the checkout handler, the policy
  (`Subtotal`, `Resolve`) and the hook from fraud check to decision, and takes the
  runtime as `InvokeContract`, so its steps are those `Invocation` was shown to
  implement. A guest may be cut off at any point (`CutOff`), a shopper may go away
  at any await (`Leave`) or ask again after a 503 (`Retry`). A merchant may replace
  the loyalty hook by any other program and back: one that gets and puts what it
  likes under any key of the merchant, the loyalty counters included, as often as
  it likes (`RogueCalls`), and answers what it likes (`RogueDecides`). Two variables
  are history: `counted`, the counters that the loyalty hook committed for each order,
  and `planted`, the largest count another program committed under each key.

Theorems and proofs are in `InvocationProofs`, `PublishProofs`, `RegistryProofs`,
`UsageMeterProofs`, `HostCapsProofs`, `CacheProofs` (the component cache and the
authenticator's; `ComponentCache` prefixes its `Init`, `Next` and so on with `Lru` so that
one module can extend both), `SandboxProofs` and `StorefrontProofs`. Where a module
has an inductive invariant of its own it is the last section of the component's
module (`IInv`, `LruInv`), so that TLC can check it on the run's instance too.

## 3. The runs

| Run | Question | Bounds |
| --- | --- | --- |
| `invocation` | Does anything leak, starve, or get billed wrongly? Is it the contract? | 3 calls of 2 tenants (1, 2 and 2 MiB of a budget of 3), 1 stage, cap 1, 1 compile permit, 2 pool threads |
| `component_cache` | Do both caps hold with racing loaders? When is the total wrong? | 3 digests, 2 loaders, 2 entries, 4 bytes; weights differ between disk and compile |
| `component_cache_drift` | Is an inserted component that fits resident? (violated) | as above |
| `registry` | Can a pointer dangle, a current function fail to load, a leak survive? | 2 digests, 2 functions, 1 writer, 1 reader, grace 3, windows 1 |
| `registry_touch` | Does the touch protect a staged source? (violated) | as above, in mode `any` |
| `publish` | Quota, agreement of row and pointer, repair, termination | 3 uploads, 2 of one function, quota 1, 2 faults (unheard commit or crash; lost sessions where the guards allow) |
| `publish_reconcile` | Can a reconciliation clobber a later commit? (violated) | as above |
| `auth_cache` | How old can an answer be? Is a change seen? | 2 requests, TTL 2, stale window 20, lookup timeout 1, 2 changes |
| `usage_meter` | Does a row vanish? Does shutdown flush, and end? | 3 rows, channel 2, batches of 2, 2 attempts |
| `sandbox` | Budget, billing, termination, with a ticker that is late | 1 call, budget 2, grace 1, slack 3, 2 host calls; up to 5 missed periods, 1 made up for |
| `host_caps` | Do the caps on memory and kv hold? | 2 calls of one tenant, 2 memories and a table, 3 keys (one too long), caps of 2 to 5 units |
| `storefront` | Quota, counting, charges, termination of checkouts | 2 orders of one customer in one shop, two keys, quota 2, pool 2, one retry; `u64` is 128, discount from the 2nd order; other programs put no number, 1 or 127 |

Why the bounds suffice. Each is the least at which the interesting case occurs:
two calls that exclude each other and a third that runs beside them; a permit
that is contended by a call, another call and a stage; a cache with one digest
more than it holds, and one that alone fills the byte budget; an upload of the
same function twice and of one function more than the quota; a grace period just longer
than the windows it must cover; a channel smaller than the rows, with a batch
that is cut; a ticker more periods behind than it makes up for; a quota that
one grown counter uses up, a count that wraps around when it is incremented, and a cart
whose product wraps to a small total. The mutants confirm it: under each property's own bounds a
plausible bug in the code it is about is found, one mutant for every property.
`Horizon`, `MaxChanges`, `MaxFaults`, `MaxHostCalls`, `MaxStalls` and `MaxTries` cap counters that the
program does not cap; `Horizon` exceeds every bound the properties speak of, and
the proofs hold for all their values.

The `sandbox` run has a single call because calls meet only in how long each waits
to be resumed, which is arbitrary there; the theorems are about any number.

`CHECK_DEADLOCK FALSE` is set where a finite job is done: all uploads, all rows,
all sandboxed calls, all checkouts have ended.

### What the violated runs show

* **The cache's byte total drifts.** `LruCache::put` returns only a value it
  replaced under the same key; the entry displaced at the count cap is dropped
  with its weight still in `total_bytes` (`registry.rs:347`). At a full count cap
  every insert of a new digest adds drift, until the byte loop empties the cache and the new
  entry is popped too, contrary to the comment at `registry.rs:342`. The passing run shows
  that this is the only source of drift and that the error is always upwards.
* **A touch does not stop a pass that has judged already** (`registry.rs:480-482`
  against the comment at 113-117). In the shipped binaries gc runs before serving;
  the case needs a second process on the directory.
* **A reconciliation can write a digest over a later commit** if its session dies
  between the read and the write (`control/src/lib.rs:407` against 218-222).

Further facts, bounded by passing runs:

* A cached answer can be a TTL *and a lookup* old, because an entry's time is that
  of its arrival (`pg/auth.rs:169-174`).
* A tick that passes while the guest waits in a host call is counted when it
  returns (`sandbox.rs:614`), though `meter.rs:13-14` says time in a host call does
  not count. `BilledForOwnTime` bounds it by one tick per host call. It also says
  what a late ticker does to a bill: it adds at most the periods missed while the call
  waited and one burst, and takes off at most those missed while it ran.
* The storefront's hook reads its counter and writes it back in two calls, and
  nothing orders two orders of one customer between them: both may read the same
  count, and two approved orders are then counted as one (`hook/src/lib.rs:95-100`).
  Between orders the customer's discount comes late, never early (`ChargeJustified`).
* The loyalty counter is an ordinary kv entry: the host scopes keys by tenant, not by
  program (`sandbox.rs:366`). Another program that a merchant uploads can reset it,
  set it so that a first order is discounted, or leave text there, which counts as 0
  (`hook/src/lib.rs:95-98`); after the last `u64` the count wraps around in the release
  build. `ChargeJustified` therefore says that the loyalty hook discounts only orders it
  has counted itself, and counts no further than the orders counted and what another
  program put under the key together; where no other program put a number, discounts
  are earned by orders.
* The log of an invocation may exceed its 64 KiB (`src/README.md:186`) by less than one
  message, which is tested before it is added (`sandbox.rs:60-77`); `TypeOK` of
  `HostCaps` allows just that.
* An order whose hook is cut off, or whose COMMIT goes unheard, may be counted and
  still go through without its discount: the policy fails open.

## 4. Fairness

Safety needs none. Liveness assumes, and the code justifies:

* *Invocation*: the pool runs queued tasks, tokio's semaphore grants permits in
  order, every future is polled again when it can proceed and every guest ends
  (the Sandbox shows why). Cancellation is never assumed to happen.
* *Publish*: a task is polled, and Postgres ends the session of a client that
  is gone. `lock_timeout` and `statement_timeout` are why a statement that cannot
  succeed fails.
* *AuthCache*: lookups end (`LOOKUP_TIMEOUT`), answers are used, time passes.
* *UsageMeter*: the writer task is polled; its attempts are bounded in number and
  time. The database is assumed nothing of.
* *Sandbox*: the ticker thread gets to run, running guests look at the epoch,
  yielded ones are resumed, the timeout fires. A host call need not return and a
  guest need not finish; the ticker may be late.
* *Storefront*: the handler is polled and the wall clock cuts every guest off
  (`Handles`), which is what `Invocation` and `Sandbox` show of `invoke`; Postgres
  answers a statement, grants a lock that is free and ends a transaction that was
  rolled back (`Serves`). Nothing is assumed of shoppers, merchants, guests or the pool.

## 5. Proofs

All are for arbitrary constants within the modules' named assumptions (section 6).
Every safety invariant and every safety action property of a passing run is a theorem,
under the two hypotheses named below where they are needed (`RegistryProofs`,
`StorefrontProofs`).

* `InvocationProofs`: `TypeCorrect`, `SlotsNeverLeak`, `AdmissionExact`,
  `MemoryBounded`, `QueuesExact`, `PermitsNeverLeak`, `MeteredExactlyOnce`.
  The invariant is `IInv` in `Invocation`. The accounts are not inductive alone: that a
  drop gives back what was taken needs `AdmittedFit` (only what fits is ever admitted, so
  the sum never wraps); that a permit has one owner needs `TasksMatch` (which
  jobs may have a task, and where a permit's owner can stand); and `BilledOnce`
  needs `OpenBill` (nothing is reported before the guest stops). Sums over calls are cardinalities of sets of
  pairs (call, MiB), which lets `FiniteSetTheorems` do what induction over sets
  cannot. `GuestMemoryBounded` is a corollary: running guests are a subset
  of the admitted calls.
  `RuntimeImplementsContract` follows from the same invariant; each action maps to one of the contract's or to a stutter. The start of a
  guest is the interesting one: both limits of the contract must be derived from
  the slot and the admission its call holds.
* `PublishProofs`: `PublishTypeCorrect`, `QuotaNeverExceeded`, `PointersSettle`,
  `RefusedUploadsLeaveNoTrace`, `NextUploadHeals`. The lock excludes less than it seems:
  it dies with its session, and a task whose session is gone keeps walking. The
  invariant therefore speaks of live sessions (`LiveSessionHasLock`): only they can
  still write a row, and for them the room the quota check found is still there
  (`RoomUntilCommit`) and the row a reconciliation read is still the row
  (`ReadIsCurrent`). Pointers are written without the lock, so a pointer that differs
  from its row is a debt: `Owed` says some task still has to pay it, also for an upload
  about to commit whose digest another has already overwritten. `NextUploadHeals` is a nested
  temporal formula; `Repairs` is its step invariant, from the moment the upload starts alone.
* `RegistryProofs`: `RegistryTypeCorrect`, `PointersNeverDangle`,
  `FailedLoadWasSuperseded`, `StartupPassCollects`. The invariant is about ages: an
  upload's source is no older than the upload (`YoungerThanUpload`), a pointer the
  pass has missed is to a source younger than the window and the pass together
  (`MissedIsYoung`), hence younger than the grace period, and what the pass is about
  to remove has no pointer (`DoomedIsLost`). Dangling and failed loads
  are excluded under `"any" \notin Modes`: in mode `any`, two processes on one
  directory that upload stored components again, the touch races a pass
  (`registry_touch`) and the invariant does not hold; TLC checks `NoDanglingPointer` in the
  other two modes as well. The type and `StartupPassCollects` need no such hypothesis.
  `StartupPassCollects` excepts the files the pass itself could not stat or remove
  (`gc.skipped`), and only those: `CollectedSoFar` says of every stale source that it is
  still to be looked at, referenced, skipped or gone.
* `UsageMeterProofs`: `MeterTypeCorrect`, `NoRowVanishes`, `ShutdownLosesNothing`.
  The hard parts are the permit taken before the channel closes and linked after (what was
  recorded before shutdown is never in that gap), and INSERTs given up on: a row is
  stored at most as often as its batch has been attempted (`StoredByAttempts`,
  a count of undecided INSERTs), which needs that no row is in two places of the pipeline.
* `HostCapsProofs`: `HostCapsTypeCorrect`, `StoreNeverExceedsCap`, `KvChargeIsExact`.
  `CountersCoverRegions`: the limiter's totals are at least what the regions hold (a
  growth that fails after it was accepted leaves them higher), and at most the cap. The kv
  charge is an invariant by itself; that `used - old_cost` never underflows follows,
  because an entry costs no more than all of its tenant's together (`SumSplits`).
* `CacheProofs`, component cache: `LruTypeCorrect`, `CacheStaysWithinCaps`, `TotalNeverTooLow`,
  `OnlyCountCapDrifts`. What is not resident weighs nothing (`GoneWeighsNothing`),
  so the bytes of any order without repetition split into those popped and those kept
  (`OrderPopped`, `BytesSplit`), and the subtraction that saturates never does.
  `ChargedCovers` is the account of one `insert`: exact unless `put` dropped
  `lru[1]`, then too high.
* `CacheProofs`, authenticator: `AuthTypeCorrect`, `AnswersNeverTooStale`. The
  strengthening is `EntryFits` (the lag of
  a cached copy is at most its age plus a lookup) and `RequestFits` (the same for
  a lookup under way and for the stale copy it may fall back to).
* `SandboxProofs`: `SandboxTypeCorrect`, `BudgetAlwaysHonoured`,
  `NeighboursNeverBilled`. The strengthening
  `TimeFits` counts the deadline that was reached but not yet noticed as a tick
  owed, and the bumps a late ticker still has to make (`ToCome`) as ticks that may
  still be billed; these never exceed `LateBumps`, because a burst ends in a
  resynchronisation. `LimitFits` ties the limit to the phase.
* `StorefrontProofs`: `QuotaNeverExceeded`, for any tenants, keys, costs and pool.
  The invariant `KvInv` adds that at most one session of a tenant is past its lock
  and that what such a session is about to write fits the rows as they are now.
  What a tenant uses is the cardinality of a set of bytes, split into one row and
  the others (`UsedSplits`). `OrdersCountedOnce`: `CountInv` relates, call by call,
  where the order is, what it was told, where its session is and what it has
  committed; a session that nobody hears belongs to an order that has ended, and
  `retry` is only ever said to an order whose guest did not run.
  `CheckoutTypeCorrect` and `ChargesAreJustified` use `IInv`: `Earned` follows the
  counter from the read over the put to the decision: what an order may write is at
  most one more than its customer's row may be said to count (`Claims`, the orders counted so
  far and the largest count another program put), and a discount was counted
  first. A put of another program raises `Claims` by what it puts, so `RowsCounted`
  survives it; `Claims` never shrinks, so what was justified stays so. `Paid` follows
  cart, subtotal and total.
  Their hypothesis `PricesRight(Carts)` says that the fold `Subtotal` of a cart that
  is not rejected is the price of the cart. It is a statement about data, by induction
  over the cart, which the provers cannot do; TLC evaluates it as an
  assumption of `MCStorefront` over the run's carts and all carts of up to three items
  with quantities and prices around 0, the cap and the wrap of the word (`EdgeItems`).

Sums are written as cardinalities of sets of pairs (owner, unit) throughout, so that
finite-set theorems do what induction would.

Only model-checked: liveness (`EveryJobEnds`, `EveryUploadEnds`, `ChangeIsSeen`,
`QueuedRowsSettle`, `EveryCallEnds`, `EveryCheckoutEnds`), which is out of the
prover's reach, and `PricesRight`.

## 6. Assumptions of the models

* A blocking task, once started, ends; a panic in one is its error result.
* Files appear and disappear atomically (`atomic_write` renames), reads see whole
  files, and mtimes are a clock shared by the processes.
* `Window + GcWindow < Grace`: an upload goes from first write to pointer, and a
  gc pass from first read to last delete, within the hour of `GC_GRACE_PERIOD`.
  The code does not enforce it.
* Timers fire promptly: an authenticator lookup that is over its timeout is cut
  off before the next tick; guests check the epoch before the next tick. The ticker
  may be any time late.
* Sets that are counted are finite: the rows recorded, the calls of a checkout run, the
  memories, tables and keys of a store, the digests ever uploaded. `None` and
  `Absent` are values of nothing else. An
  invocation may log at all (`MaxLogBytes > 0`).
* In the storefront a number has one spelling: a row that a guest reads as a count n costs
  what the hook's own n costs. Another program might put "+5" or "05"; that changes
  what the row costs, which the theorems leave arbitrary, and not what is read. The number of kv
  calls of one invocation is not bounded (`HostCaps` is about that cap).
* Postgres keeps what it commits and releases an advisory lock with its session.
  The hash of a tenant's name that keys the lock does not matter: a collision only
  orders more writers.

## 7. Plan

Done: the modules above, in the order Invocation, ComponentCache, Publish,
Registry, AuthCache, UsageMeter, Sandbox, HostCaps; then the late ticker in Sandbox,
PgKv, and Storefront, which composes the runtime's contract with the kv and the app; then
the proofs of every safety property of the runs. Next:

1. The limits path: `patch_tenant` and `set_limits` (two writers of one row)
   composed with `AuthCache` and the limits an invocation runs with.
2. Shutdown of the host: graceful shutdown, embedded control, detached blocking
   tasks and the meter, composed from `Invocation` and `UsageMeter`.
3. An abstract specification of the store (a map from functions to components)
   that `Registry` and `Publish` implement together.

## 8. Not modelled

* Outbound HTTP: the allowlist, `is_blocked_ip` and the guarded resolver are
  pure functions with tables of tests; a fetch is a host call of any length in `Sandbox`.
* `create_tenant`, `usage_summary`, migrations: single statements or transactions
  (a new merchant is `CreateMerchant` of `Storefront`).
* The HTTP front ends: straight-line code around the modelled calls. A client
  that disconnects is a cancellation.
* The `.cwasm` integrity header and compatibility hash, name validation, limit
  validation: pure functions.
* The storefront's authentication (`AuthCache` is its model), its usage route, which
  only reads, and its fraud service, which may answer anything.
* Benches, `hello-wasm` and the test guests.
