------------------------------- MODULE SyncPool -------------------------------
(***************************************************************************)
(* sync::pool and sync::detail::pool_impl (sync/pool.hpp,                  *)
(* sync/detail/pool_impl.hpp): threads that lease cells of one storage     *)
(* under a mutex and sleep on the condition variable _has_capacity.        *)
(*                                                                         *)
(* A section under _mutex is one step: a call of get up to its return or   *)
(* to the wait, the way from waking up to the next wait, a return of a     *)
(* cell with its notify_one.                                               *)
(***************************************************************************)
EXTENDS Storage

CONSTANTS Threads,
          WaitDurations,   \* the wait durations that threads pass to get
          OverflowWraps    \* the standard library's now + d wraps around (libstdc++)

ASSUME WaitAssumption == WaitDurations \subseteq Duration /\ OverflowWraps \in BOOLEAN

NoCell   == 0              \* boost::none: the handle is unusable
Singular == -1             \* list_iterator(), which refers to no cell

VARIABLES
    pc,        \* where each thread is
    wait,      \* wait_duration of a get that sleeps
    deadline,  \* when that sleep times out
    handle,    \* handle::_resource_it of each thread
    disabled,  \* _disabled
    crashed    \* list_iterator() was dereferenced

poolVars == <<pc, wait, deadline, handle, disabled, crashed>>
vars == <<storageVars, poolVars>>

Init ==
    /\ StorageInit
    /\ pc = [t \in Threads |-> "idle"]
    /\ wait = [t \in Threads |-> 0]
    /\ deadline = [t \in Threads |-> Epoch]
    /\ handle = [t \in Threads |-> NoCell]
    /\ disabled = FALSE
    /\ crashed = FALSE

--------------------------------------------------------------------------------
(* std::condition_variable.  wait_for(lock, d) sleeps until now + d: on
   overflow, which is undefined, the sum wraps or is clamped, depending on the
   standard library of the build.  It reports a timeout if that instant has passed once the mutex is
   held again, whatever woke the thread up. *)

Asleep == {t \in Threads : pc[t] = "asleep"}

Wake(woken) == pc' = [t \in Threads |-> IF t \in woken THEN "awake" ELSE pc[t]]

WaitUntil(d) == IF OverflowWraps THEN Wrap(now + d) ELSE Saturate(now + d)

TimedOut(t) == deadline[t] <= now

\* Thread t goes on while the notified ones wake up.
WakeAndGo(woken, t, there) ==
    pc' = [x \in Threads |-> IF x = t THEN there ELSE IF x \in woken THEN "awake" ELSE pc[x]]

SleepEnds(t) ==
    /\ ~crashed
    /\ t \in Asleep
    /\ TimedOut(t)
    /\ Wake({t})
    /\ UNCHANGED <<storageVars, wait, deadline, handle, disabled, crashed>>

WakesSpuriously(t) ==
    /\ ~crashed
    /\ t \in Asleep
    /\ ~TimedOut(t)
    /\ Wake({t})
    /\ UNCHANGED <<storageVars, wait, deadline, handle, disabled, crashed>>

--------------------------------------------------------------------------------
(* pool_impl::get, and pool::get_handle around it, which makes a handle of
   whatever iterator get returns. *)

Go(t, there) == pc' = [pc EXCEPT ![t] = there]

\* get returns: the thread has a handle and is done with waiting.
Answer(t, there, cell) ==
    /\ Go(t, there)
    /\ handle' = [handle EXCEPT ![t] = cell]
    /\ wait' = [wait EXCEPT ![t] = 0]
    /\ deadline' = [deadline EXCEPT ![t] = Epoch]
    /\ UNCHANGED <<disabled, crashed>>

\* The body of the loop in get.
TryDisabled(t) ==
    /\ disabled
    /\ Answer(t, "failed", Singular)
    /\ UNCHANGED storageVars

TryLease(t) ==
    /\ ~disabled
    /\ \E cell \in Cells : lease(cell) /\ Answer(t, "holding", cell)

TryWait(t, d) ==
    /\ ~disabled
    /\ LeaseFails
    /\ Go(t, "asleep")
    /\ wait' = [wait EXCEPT ![t] = d]
    /\ deadline' = [deadline EXCEPT ![t] = WaitUntil(d)]
    /\ UNCHANGED <<storageVars, handle, disabled, crashed>>

Try(t, d) == TryDisabled(t) \/ TryLease(t) \/ TryWait(t, d)

Get(t) ==
    /\ ~crashed
    /\ pc[t] = "idle"
    /\ \E d \in WaitDurations : Try(t, d)

\* wait_for returns with the mutex held.
Retry(t) ==
    /\ ~crashed
    /\ pc[t] = "awake"
    /\ ~TimedOut(t)
    /\ Try(t, wait[t])

\* Mutation: get returns an error code that it has not set.
TimeOut_NoError(t) ==
    /\ ~crashed
    /\ pc[t] = "awake"
    /\ TimedOut(t)
    /\ Answer(t, "holding", Singular)
    /\ UNCHANGED storageVars

TimeOut(t) ==
    /\ ~crashed
    /\ pc[t] = "awake"
    /\ TimedOut(t)
    /\ Answer(t, "failed", Singular)
    /\ UNCHANGED storageVars

--------------------------------------------------------------------------------
(* handle::reset, and handle::recycle and handle::waste, called by the thread
   or by the handle's destructor. *)

HandleReset(t) ==
    /\ ~crashed
    /\ pc[t] = "holding"
    /\ reset(handle[t])
    /\ UNCHANGED poolVars

\* notify_one: some sleeping thread, if there is one.
NotifiesOne(woken) == IF Asleep = {} THEN woken = {} ELSE \E t \in Asleep : woken = {t}

\* Mutation: the handle of a thread that has returned its cell still has it.
ReleaseAndNotify_Keeps(t) ==
    /\ \E woken \in SUBSET Asleep : NotifiesOne(woken) /\ WakeAndGo(woken, t, "idle")
    /\ UNCHANGED <<wait, deadline, handle, disabled, crashed>>

\* The thread's handle goes, and the notification of the pool is sent.
ReleaseAndNotify(t) ==
    /\ handle' = [handle EXCEPT ![t] = NoCell]
    /\ \E woken \in SUBSET Asleep : NotifiesOne(woken) /\ WakeAndGo(woken, t, "idle")
    /\ UNCHANGED <<wait, deadline, disabled, crashed>>

\* Mutation: the handle keeps its iterator and its destructor recycles again.
Recycling_Twice(t) ==
    /\ ~crashed
    /\ pc[t] = "holding"
    /\ recycle(handle[t])
    /\ UNCHANGED poolVars

Recycling(t) ==
    /\ ~crashed
    /\ pc[t] = "holding"
    /\ recycle(handle[t])
    /\ ReleaseAndNotify(t)

\* Mutation: waste does not notify.
Wasting_Silent(t) ==
    /\ ~crashed
    /\ pc[t] = "holding"
    /\ waste(handle[t])
    /\ Go(t, "idle")
    /\ handle' = [handle EXCEPT ![t] = NoCell]
    /\ UNCHANGED <<wait, deadline, disabled, crashed>>

Wasting(t) ==
    /\ ~crashed
    /\ pc[t] = "holding"
    /\ waste(handle[t])
    /\ ReleaseAndNotify(t)

\* The handle of a failed get is destroyed.  It is not unusable(), for it was
\* made with list_iterator(), so recycle or waste dereferences that.
DropFailed(t) ==
    /\ ~crashed
    /\ pc[t] = "failed"
    /\ handle[t] # NoCell
    /\ crashed' = TRUE
    /\ UNCHANGED <<storageVars, pc, wait, deadline, handle, disabled>>

--------------------------------------------------------------------------------

(* pool_impl::disable, from ~pool, as often as there are pool objects that
   share the pool_impl. *)

\* Mutation: notify_one.
Disable_NotifiesOne ==
    /\ ~crashed
    /\ disabled' = TRUE
    /\ \E woken \in SUBSET Asleep : NotifiesOne(woken) /\ Wake(woken)
    /\ UNCHANGED <<storageVars, wait, deadline, handle, crashed>>

Disable ==
    /\ ~crashed
    /\ disabled' = TRUE
    /\ Wake(Asleep)
    /\ UNCHANGED <<storageVars, wait, deadline, handle, crashed>>

PoolInvalidate ==
    /\ ~crashed
    /\ generation < MaxGeneration
    /\ invalidate
    /\ UNCHANGED poolVars

PoolTick ==
    /\ ~crashed
    /\ Tick
    /\ UNCHANGED poolVars

Next ==
    \/ \E t \in Threads :
        \/ Get(t) \/ Retry(t) \/ TimeOut(t)
        \/ SleepEnds(t) \/ WakesSpuriously(t)
        \/ HandleReset(t) \/ Recycling(t) \/ Wasting(t) \/ DropFailed(t)
    \/ Disable \/ PoolInvalidate \/ PoolTick

(***************************************************************************)
(* A thread that is awake gets the mutex in the end, sleeps time out and   *)
(* time passes.  No thread has to call get or to return its cell, and no   *)
(* wakeup is counted on that nobody sent.                                  *)
(***************************************************************************)
Fairness ==
    /\ \A t \in Threads : WF_vars(Retry(t)) /\ WF_vars(TimeOut(t)) /\ WF_vars(SleepEnds(t))
    /\ WF_vars(PoolTick)

Spec == Init /\ [][Next]_vars
FairSpec == Spec /\ Fairness

--------------------------------------------------------------------------------
(* Properties *)

PoolTypes ==
    /\ StorageTypeOK
    /\ pc \in [Threads -> {"idle", "asleep", "awake", "holding", "failed"}]
    /\ wait \in [Threads -> WaitDurations \cup {0}]
    /\ deadline \in [Threads -> TimePoint]
    /\ handle \in [Threads -> Cells \cup {NoCell, Singular}]
    /\ disabled \in BOOLEAN
    /\ crashed \in BOOLEAN

\* What a thread has in its handle follows from how its last get ended: a cell
\* exactly while it holds the handle of a get without an error, list_iterator()
\* exactly after an error, and otherwise nothing.
HandlesFitAnswers ==
    \A t \in Threads :
        /\ pc[t] = "holding" <=> handle[t] \in Cells
        /\ pc[t] = "failed" <=> handle[t] = Singular

\* The state of the threads has its types, and the error code and the iterator
\* that get returns together fit each other on every way out of its loop: a
\* caller that sees no error has a cell, through disable, timeouts and retries
\* (sync/detail/pool_impl.hpp: get; sync/pool.hpp: get_handle; handle.hpp).
TypeOK == PoolTypes /\ HandlesFitAnswers

\* Every cell of used_ is in exactly one thread's handle and no other cell is:
\* no cell leaks and no two threads share one (sync/detail/pool_impl.hpp: get,
\* recycle, waste; handle.hpp).
EveryUsedCellOwnedOnce ==
    \A cell \in Cells :
        LET owners == {t \in Threads : handle[t] = cell}
        IN  \/ cell \in used /\ \E t \in owners : owners = {t}
            \/ cell \notin used /\ owners = {}

\* disable gets every thread out of get, also those that were just woken up,
\* were about to sleep or wait without end (sync/detail/pool_impl.hpp: disable,
\* get).
DisableReleasesWaiters ==
    \A t \in Threads :
        disabled /\ pc[t] \in {"asleep", "awake"} ~> crashed \/ pc[t] = "failed"

\* A thread does not sleep for ever while the pool keeps a cell that nobody
\* uses: get "returns resource handle when it will be available" (README.md).
\* It holds as long as no wait times out; a thread that was notified and is
\* late gives up without looking, and nobody is notified in its stead
\* (sync/detail/pool_impl.hpp: get, wait_for).
FreeCellReachesSleeper ==
    \A t \in Threads :
        LET Stuck == t \in Asleep /\ ~disabled /\ ~crashed /\ ~LeaseFails
        IN  Stuck ~> ~Stuck

--------------------------------------------------------------------------------
(* What the documentation promises and the code does not keep. *)

\* A failed get leaves nothing to clean up: its caller may just drop what it
\* returned, as the README's example does ("if (ec) { ... return; }").
FailedGetIsHarmless == ~crashed
================================================================================
