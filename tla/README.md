# A TLA+ model of resource_pool

resource_pool is a header-only C++ library. A pool owns a fixed number of
*cells*, each of which may hold a resource; clients lease a cell through a
*handle*, put a resource into it if it is empty, and give the cell back, to be
recycled (the resource stays) or wasted (it is destroyed). There is a
synchronous pool (threads sleep on a condition variable) and an asynchronous one
(requests wait in a queue with timers and are answered through Boost.Asio).

Paths below are relative to `src/include/yamail/resource_pool/`.

## 1. Inventory

| component | state | operations | interaction | what makes it correct |
|---|---|---|---|---|
| `time_traits.hpp` | none | `now`, `add` | every date of the library is computed with `add` | `add` saturates, for the default durations are `duration::max()` |
| `detail/storage.hpp`, `detail/idle.hpp` | lists `available_`, `used_`, `wasted_`; per cell `value`, `drop_time`, `reset_time`, `waste_on_recycle` | `lease`, `recycle`, `waste`, `is_valid`, `invalidate`, `stats` | called by both pools under their mutex; the holder of a leased cell writes `value` and `reset_time` without it | cells are neither lost nor shared; expired and invalidated resources are not handed out |
| `handle.hpp` | the cell's iterator, the strategy of the destructor | `reset`, `recycle`, `waste`, moves, destructor | calls the pool through `pool_returns` | a cell is given back exactly once |
| `async/detail/queue.hpp` | requests in order and by deadline, a pool of nodes, a timer per io_context | `push`, `pop`, `cancel` (from a timer) | own mutex; called by the pool with and without the pool's mutex | a request leaves the queue once, and no later than its timer |
| `async/detail/pool_impl.hpp`, `async/pool.hpp` | storage, queue, `_disabled` | `get`, `recycle`, `waste`, `disable`, `invalidate`, `stats` | posts completions to io_contexts; goes on after unlocking | each request is answered once; each leased cell has one owner; a free cell and a waiting request meet |
| `sync/detail/pool_impl.hpp`, `sync/pool.hpp` | storage, condition variable, `_disabled` | `get`, `recycle`, `waste`, `disable`, `invalidate`, `stats` | `notify_one` per returned cell, `notify_all` on disable | nobody sleeps on beside a free cell or in a disabled pool |
| `error.hpp` | none | error codes and their texts | | |

Hard to test: what happens between two critical sections of one call (`get` and
its `push`, `recycle` and its `post`, the drain of `disable`); a timer, a
returned cell and `disable` competing for one request; notifications that reach a
thread which no longer wants them; dates at the edge of the clock's range; long
sequences of leases and invalidations. `PROJECT.json` lists each hazard at its line.

## 2. Modules

| module | models | how |
|---|---|---|
| `TimeTraits` | `time_traits::add` | as written, every operation a machine operation of a parametric width; `Saturate` is the reference |
| `Clock` | `time_traits::now` | an instant that only grows, up to the bound `MaxNow`; `AddSaturates` compares `add` with its reference |
| `Storage` | storage and cells | one operator per member function, used by the pools; `StorageSpec` is the storage with callers that return or write only leased cells |
| `TimeTraitsProofs` | | the lemmas about `add` |
| `StorageProofs` | | the theorems about `Storage` |
| `Subsequences` | unlinking from the middle of a list | the subsequence at given positions, without recursion |
| `ListFacts` | | lemmas about lists that all proofs share: splicing, cutting, inserting, unlinking |
| `RequestQueue` | the queue as its users see it | a bounded FIFO with deadlines; one operator per member function; `QueueSpec` is the queue with any users |
| `AsyncQueue` | the queue in detail | both indexes, the spare nodes, the timers and their handlers; implements `RequestQueue` |
| `AsyncQueueProofs` | | the theorems about `AsyncQueue` |
| `Handle` | `handle` objects | moves, assignment, explicit return, destructor, over several pools |
| `AsyncPool` | asynchronous pool, handles, completions | extends `Storage` and `RequestQueue`; one action per critical section and one for what follows it |
| `AsyncPoolProofs` | | the theorems about `AsyncPool` |
| `HandleProofs` | | the theorems about `Handle` |
| `SyncPool` | synchronous pool, handles, condition variable | extends `Storage` |
| `SyncPoolProofs` | | the theorems about `SyncPool` |
| `MCAsyncPool`, `MCSyncPool` | | add the symmetry of the clients (threads) for the safety runs |

Correspondence, where it is not by name:

- A *resource* is abstracted to its history: when it was put into its cell, how
  many invalidations there had been, when it was last parked in `available_`. The
  code keeps none of this; the properties compare it with the dates and marks
  that the code does keep.
- `used_` is a set: no code depends on its order. `available_` and `wasted_` are
  sequences, for `lease` takes from the front.
- The loop of `lease` is one step, under the mutex: `DropsPrefix(k)` says that it
  drops the `k` leading expired cells.
- In `AsyncPool` a client is at `unlocked` between the `lock.unlock()` of a
  failed `get` and its `push`, and at `returning` between the `lock.unlock()` of
  `recycle` or `waste` and the `post` of the popped request. `draining` means that
  `disable` is in its loop, with `_mutex` held; every section under `_mutex` has
  `~draining` as a guard, `push` and the timer do not. `disable` checks nothing but
  the mutex: in both pools it may be called again (pool objects that share one
  `pool_impl` each call it when they are destroyed), and drains or notifies again.
- `posted` is what Asio has been given and has not run. `asio::dispatch` in
  `get` comes after the unlock and is treated as a post. In `disable` it is either
  a post (`DisablePop`) or, on a thread that runs the io_context, a call under
  `_mutex` (`DisableInline`). `HandlersUsePool` says whether such a handler may
  call the pool; if one does, its thread waits for itself (`reentered`) and
  `_mutex` is never released.
- `Expire(c)` is a timer that fires for the deadline of `c`'s request at or after
  that deadline; which timers are armed is the business of `AsyncQueue`.
- `AsyncPool` contains the abstract queue. `QueueSpec` states its own bound on the
  length, not with `fit_capacity`, so a pool that pushed into a full queue would not
  implement it. Its run shows that it uses the queue
  only as `QueueSpec` allows, and `Expire` lets every step of `QueueSpec` that
  removes due requests happen; `AsyncQueue` is shown to take no step that
  `QueueSpec` does not allow. What is shown of the pool with the abstract queue
  therefore holds with the detailed one, as far as safety goes; for liveness,
  `OverdueLeave` says under which condition `Expire` really happens.
- In `AsyncQueue` a node is a number. `ordered`, `spare` and `expiring` are
  `_ordered_requests`, `_ordered_requests_pool` and `_expires_at_requests`; the
  iterators kept in a node are the positions at which these hold its number. A
  wait is `pending`, then its handler is `ready`, fired or aborted: an aborted
  wait's handler does nothing, a fired one calls `cancel` with the deadline it
  was armed for, however late it runs. Equal aborted handlers are one element of
  the set `ready`.
- In `Handle` the pools are the other side of `pool_returns`: per cell, whether it
  is leased or how it came back last. `open` are the pool objects; a pool_impl
  lives on with its handles.
- In `SyncPool` a thread is `asleep` in `wait_for`, `awake` once something has
  woken it and it contends for the mutex. The status that `wait_for` returns
  depends on the clock when the mutex is held again. `OverflowWraps` says what the
  build's standard library makes of `now + d` when it overflows: where it wraps,
  `get(duration::max())` times out at once.
- A thread's `handle` is typed by the way its `get` ended (`HandlesFitAnswers`, part
  of `TypeOK`): a cell at `holding`, `list_iterator()` at `failed`, nothing elsewhere.
  `Singular` is the `list_iterator()` of a failed `get`. Dereferencing it ends the
  process: `crashed` stops every action. That is why the runs of `SyncPool` do not
  check for deadlock; nor does `async_inline_disable`, whose point is that disable
  stops. All others do.

## 3. Runs

| run | shows | bounds |
|---|---|---|
| `storage` | `add` saturates, partition of the cells, nothing in wasted cells, invalidated resources never return, leases are fresh and unmarked | 2 cells, 5 instants, idle timeout 2 and lifespan 3 (each can end first), 2 invalidations |
| `async_requests` | one answer per request; every request with a finite wait is answered; `disable` returns, if handlers leave the pool alone; `Spec` implements `QueueSpec` | 4 clients, 1 cell, queue of 2, waits 1 and 2: one holder, a full queue and an overflow |
| `async_cells` | each used cell has one owner, no invalidated resource is served, `Spec` implements `StorageSpec` | 3 clients, 2 cells, queue of 1, waits 0 and 1 |
| `queue` | both indexes hold the same nodes; a wait is always armed for the earliest deadline; `Spec` implements `QueueSpec`; overdue requests leave, unless nobody runs the io_context of the earliest | 3 clients, queue of 2, 2 io_contexts of which one need not run, waits 1 and 2, pushes and pops with at most 1 completed wait outstanding |
| `handle` | a leased cell is held by one handle, of its own pool, with the strategy it was leased with | 3 handles, 2 pools of 2 cells |
| `sync_cells` | `get` answers without an error exactly when it has leased a cell (`TypeOK`); each used cell has one owner; `Spec` implements `StorageSpec` | 3 threads, 2 cells, waits 0, 1 and endless, wrapping library |
| `sync_wakeup` | disable gets everyone out of `get`; nobody sleeps on beside a free cell, if no wait times out | 3 threads, endless waits |
| `async_lost_wakeup` | *violated*: a cell returned between `get`'s unlock and its `push` stays free while the request waits for ever | 2 clients, endless wait |
| `async_inline_disable` | *violated*: a handler that `disable` runs inline calls the pool, and `disable` never returns | 2 clients, endless wait |
| `async_sticky_mark` | *violated*: a cell handed over after `invalidate` keeps its mark | 2 clients |
| `sync_lost_notify` | *violated*: a notified thread that is past its deadline drops the notification; an endless waiter sleeps on beside a free cell | 3 threads, waits 1 and endless |
| `sync_failed_get` | *violated*: the handle of a failed `get` is usable, and destroying it dereferences `list_iterator()` | 2 threads |

Each violated property states what the README, an example or a test of the
repository says; `PROJECT.json` quotes it.

A `get` that is running while `disable` is called may push after the drain; the
request then gets no `error::disabled`, and only its timer answers it
(`EveryRequestAnswered` covers finite waits). A program reaches this when two pool
objects share one `pool_impl` (the constructor from a `shared_ptr`) or when it uses
`pool_impl` itself.

**Bounds.** The clock stops at `MaxNow`; a finite wait is only started, and the
clock only advanced, if the wait can still end (`WithinHorizon`). `MaxGeneration`
bounds the calls of `invalidate`. Two cells are enough to tell "the cell" from "a
cell", and one cell with four clients fills a queue of two. The theorems of
section 4 are for all sizes. An endless wait is `TimeMax`, which `MaxNow` never
reaches. Negative waits are not among the inputs. In `AsyncQueue`, `MaxReady`
bounds the completed waits that are outstanding when `push` or `pop` is called: with 2, one stale
handler, fired or aborted, is there while the queue changes under it, and more
may fire afterwards; a wait fires again only after its equal has been handled.

**Fairness.** Threads inside a member function go on; io_contexts run what is
posted; a fired timer is handled; a thread that was woken gets the mutex in the
end; time passes. In `AsyncPool` the clock has strong fairness, because the guard
that closes it for a moment is the bound and not the program. No fairness is
assumed for calls of `get`, for giving handles back, for `disable`, `invalidate`
or spurious wakeups. In `AsyncQueue` only the io_contexts in `Running` are fair:
they complete due waits and run every fired handler; nothing is assumed of the
others, of users or of the clock.

## 4. Proofs

TLAPS checks, for every clock width, capacity, idle timeout and lifespan:

- `AddIsSaturating`, `AddCorrect`: `add` is saturating addition for all arguments;
  none of its operations overflows.
- `StorageInvariant`: `StorageSpec => []StorageInv`. `CellsPartitioned` is almost
  inductive; it needs the types, and that `DropsPrefix` cuts `available_` into
  three disjoint parts (lemma `CutRange`).
  `InvalidatedNeverReturn` needs `WastedHoldNothing` (otherwise `invalidate` would
  leave resources in wasted cells behind) and the partition. That leases are fresh
  needs `Dated` (the date in the cell is the resource's) and `DropBounded` (a
  parked cell's `drop_time` is within both limits); that they are unmarked needs
  `AvailableUnmarked`.
- `StorageTypes`, `PartitionCorrect`, `WastedEmpty`, `InvalidationCorrect`,
  `LeaseFreshCorrect`, `LeaseUnmarkedCorrect`: the storage's properties from that
  invariant.
- `SyncInvariant`: `Spec => []SyncInv` of `SyncPool`, for every set of threads
  and wait durations. `EveryUsedCellOwnedOnce` needs `HandlesFitAnswers` (a thread
  has a cell exactly while it is at `holding`): without it a `get` could overwrite
  a handle that still has a cell, or a return could give back a cell that is not
  leased. Lemma `OwnershipForm` restates ownership without sets of owners.
- `SyncTypes`, `SyncOwnership`: `TypeOK` and `EveryUsedCellOwnedOnce`.
  `SyncImplementsStorage`: `Spec => StorageSpec`; `SyncStorageHolds`: so what is
  proved of the storage holds in the pool.
- `AsyncInvariant`: `Spec => []AsyncInv` of `AsyncPool`, for every set of clients
  and wait durations, every queue capacity and either value of `HandlersUsePool`.
  Its parts depend on each other:
  - `CellsOwned` splits `EveryUsedCellOwnedOnce` into three facts: an owner's
    cell is used, a used cell has an owner, and two owners have different cells. It
    needs `HoldersHaveCells`, the counterpart of `HandlesFitAnswers` in `SyncPool`.
  - `RequestsAnswered` splits `OneAnswerPerRequest` in the same way, with
    `DistinctClients` (a client has one request in the queue): that is what makes
    `pop` and `cancel` leave no second request of the same client behind.
  - `ServedValid` adds to `NoInvalidatedResourceServed` that no hand-over is from
    the future (`ServedInThePast`) and that one on its way between the unlock of
    `recycle` and its `post` carries a resource that was valid at the unlock
    (`HandoversValid`). The mutex is free between these two steps, and
    `invalidate` may come in between.
- `AsyncTypes`, `AsyncOwnership`, `AsyncOneAnswer`, `AsyncNoInvalidated`: the four
  invariants of the runs. `AsyncImplementsStorage` and `AsyncImplementsQueue`:
  `Spec` implements `StorageSpec` and `QueueSpec`; every action is shown to be a
  step of either or a stutter, in the same lemmas (`StepOK`) that show the
  invariant. `AsyncStorageHolds`: the storage's properties in the pool.
- `QueueInvariant`: `Spec => []QueueInv` of `AsyncQueue`, for every capacity, set
  of io_contexts and wait durations. `IndexesAgree` is inductive with the types
  (lemma `IndexesForm` ties it to the form that the proof uses). That the number of
  nodes stays within the capacity is a counting argument: nodes are emplaced only
  if there is no spare one, then the nodes are those of the multimap, and two lists
  of the same elements without repetition are equally long (`SameLength`).
  `EarliestHasWait` is established anew by every `update_timer`
  (`UpdateTimerStep`). `Sorted` and `FiredAreDue` are needed for the refinement
  only.
- `QueueTypes`, `QueueIndexes`, `QueueEarliest`: the three invariants of the run.
- `QueueImplementsRequestQueue`: the queue in detail implements `QueueSpec`, with
  `Requests` as the refinement mapping. A push, a pop and a tick are the step
  of the same name. A fired wait that finds something due is `QueueExpire` with the deadline
  of the last due entry: `Sorted` and `upper_bound` make the due nodes exactly
  those with no later deadline (`DueIsExpired`), and `FiredAreDue` puts that
  deadline into the past. One that finds nothing due, because a pop or another
  wait came first, is a stutter (`RemainingAll`).
- `HandleTypes`, `HandleOwnership`, `HandleStrategy`: the three invariants of
  `Handle`, for any number of handles, pools and cells. The types need the
  strategies (a returned cell is marked with the strategy, which must not be
  indeterminate), these need ownership, and ownership needs `DeadHoldNothing`:
  default construction writes nothing into its variable. Lemma `OwnershipForm`
  splits "exactly one" into "at most one" and "some".

The proofs rest on the ASSUMEs of the modules: positive capacity (enforced by
`assert_capacity`), durations and the clock within the representable range.
There is one lemma per member function, stated for the operator that the pools
use, so that the proofs about the pools cite them. The bounds `MaxNow`,
`MaxGeneration` and `MaxReady` are arbitrary in the theorems.

`AsyncImplementsQueue` and `QueueImplementsRequestQueue` meet at `QueueSpec`: the
pool asks nothing of the queue but what `QueueSpec` offers, and the code of the queue
does nothing but what `QueueSpec` allows.

Every safety invariant, action property and refinement that a passing run checks is
also proved. Only model-checked is liveness, because fairness and ENABLED are outside
the prover: `EveryRequestAnswered`, `DisableReturns`, `OverdueLeave`,
`DisableReleasesWaiters`, `FreeCellReachesSleeper`.

## 5. Not modelled

- `stats()`, `size()`, `available()`, `used()`: they read sizes. `stats()` of the
  asynchronous pool reads the queue's size after unlocking, so its fields can be
  from different instants; nothing acts on them.
- Destruction of the queue: its timers' handlers hold a `weak_ptr` and do nothing
  once it is gone. Exceptions from `unusable_handle` and `empty_handle` change
  nothing and are not steps.
- Move assignment of pool objects, which drops the old `pool_impl` without
  `disable`: to `AsyncPool` this is a pool that is never disabled.
- Exceptions from allocation, from resources' constructors and destructors; io_contexts that are
  destroyed with handlers pending.
- Error texts, examples, benchmarks, build files.

## 6. Plan

1. Done: `TimeTraits`, `Storage`, `RequestQueue`, `AsyncPool` with inline
   handlers, `AsyncQueue`, `Handle`, `SyncPool`, and the proofs of all their
   safety properties and refinements.
2. Left: the safety half of the wakeup argument of `SyncPool` as an inductive
   invariant (while no wait times out, sleepers and free cells imply a woken
   thread), which would be a state property behind `FreeCellReachesSleeper`;
   the same for `AsyncPool` (a free cell beside a queued request implies that the
   request was pushed after the cell's return, the window of `async_lost_wakeup`).
