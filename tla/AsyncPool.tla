------------------------------- MODULE AsyncPool -------------------------------
(***************************************************************************)
(* async::pool and async::detail::pool_impl (async/pool.hpp,               *)
(* async/detail/pool_impl.hpp): the storage and the request queue behind   *)
(* one mutex, the completions handed to asio and the handles that clients  *)
(* hold.                                                                   *)
(*                                                                         *)
(* A client is one request after another: it calls get, is answered by one *)
(* completion and, if that carries a cell, holds a handle until it is      *)
(* recycled or wasted.  A section under _mutex is one step; get, recycle   *)
(* and waste go on after unlocking, so they take a second step, and        *)
(* disable holds the mutex over several steps while the queue, which has   *)
(* its own mutex, may still be pushed to, and while handlers may run       *)
(* inside disable itself.                                                  *)
(***************************************************************************)
EXTENDS Storage, RequestQueue

CONSTANTS WaitDurations,   \* the wait durations that clients pass to get
          HandlersUsePool  \* whether a handler that is told of an error may call the pool

ASSUME AsyncPoolAssumption ==
    /\ WaitDurations \subseteq Duration
    /\ HandlersUsePool \in BOOLEAN

NoCell == 0               \* list_iterator(), boost::none

VARIABLES
    pc,        \* where each client is
    wait,      \* wait_duration of a get that has unlocked _mutex
    posted,    \* completions given to asio and not run yet
    handing,   \* calls of recycle and waste that have popped a request
    handle,    \* handle::_resource_it of each client
    served,    \* history: generation when the client's cell was chosen for it
    disabled,  \* _disabled
    draining,  \* disable holds _mutex
    reentered  \* a handler inside disable waits for _mutex, which its own thread holds

poolVars == <<pc, wait, posted, handing, handle, served, disabled, draining, reentered>>
vars == <<storageVars, requests, poolVars>>

ErrorCodes == {"ok", "get_resource_timeout", "request_queue_overflow", "disabled"}

Completion == [client : Clients, ec : ErrorCodes, cell : Cells \cup {NoCell}, generation : Nat]
Handing == [by : Clients, client : Clients, cell : Cells, valid : BOOLEAN, generation : Nat]

Init ==
    /\ StorageInit
    /\ requests = <<>>
    /\ pc = [c \in Clients |-> "idle"]
    /\ wait = [c \in Clients |-> 0]
    /\ posted = {}
    /\ handing = {}
    /\ handle = [c \in Clients |-> NoCell]
    /\ served = [c \in Clients |-> 0]
    /\ disabled = FALSE
    /\ draining = FALSE
    /\ reentered = FALSE

At(c, here, there) == pc[c] = here /\ pc' = [pc EXCEPT ![c] = there]

\* asio::post, and asio::dispatch when the calling thread does not run the
\* handler's io_context.
Post(completions) == posted' = posted \cup completions

Failure(c, ec) == [client |-> c, ec |-> ec, cell |-> NoCell, generation |-> generation]

--------------------------------------------------------------------------------
(* pool_impl::get *)

GetDisabled(c) ==
    /\ At(c, "idle", "waiting")
    /\ ~draining
    /\ disabled
    /\ Post({Failure(c, "disabled")})
    /\ UNCHANGED <<storageVars, requests, wait, handing, handle, served, disabled, draining, reentered>>

GetLease(c) ==
    /\ At(c, "idle", "waiting")
    /\ ~draining
    /\ ~disabled
    /\ \E cell \in Cells :
        /\ lease(cell)
        /\ Post({[client |-> c, ec |-> "ok", cell |-> cell, generation |-> generation]})
    /\ UNCHANGED <<requests, wait, handing, handle, served, disabled, draining, reentered>>

\* Bound: a finite wait must end before the clock does.
WithinHorizon(d, t) == d = TimeMax \/ Add(t, d) <= MaxNow

\* Nothing to lease: _mutex is released before wait_duration is looked at.
GetMiss(c) ==
    /\ At(c, "idle", "unlocked")
    /\ ~draining
    /\ ~disabled
    /\ LeaseFails
    /\ \E d \in WaitDurations :
        /\ WithinHorizon(d, now)
        /\ wait' = [wait EXCEPT ![c] = d]
    /\ UNCHANGED <<storageVars, requests, posted, handing, handle, served, disabled, draining, reentered>>

GetNoWait(c) ==
    /\ At(c, "unlocked", "waiting")
    /\ wait[c] = 0
    /\ Post({Failure(c, "get_resource_timeout")})
    /\ UNCHANGED <<storageVars, requests, wait, handing, handle, served, disabled, draining, reentered>>

GetPush(c) ==
    /\ At(c, "unlocked", "waiting")
    /\ wait[c] # 0
    /\ fit_capacity
    /\ push(c, wait[c])
    /\ wait' = [wait EXCEPT ![c] = 0]
    /\ UNCHANGED <<storageVars, posted, handing, handle, served, disabled, draining, reentered>>

GetOverflow(c) ==
    /\ At(c, "unlocked", "waiting")
    /\ wait[c] # 0
    /\ ~fit_capacity
    /\ Post({Failure(c, "request_queue_overflow")})
    /\ wait' = [wait EXCEPT ![c] = 0]
    /\ UNCHANGED <<storageVars, requests, handing, handle, served, disabled, draining, reentered>>

--------------------------------------------------------------------------------
(* A completion runs on its io_context (pool::on_get_handler) and the client
   has a handle, which it may reset. *)

RunHandler(c) ==
    \E p \in posted :
        /\ p.client = c
        /\ At(c, "waiting", IF p.ec = "ok" THEN "holding" ELSE "idle")
        /\ posted' = posted \ {p}
        /\ handle' = [handle EXCEPT ![c] = p.cell]
        /\ served' = [served EXCEPT ![c] = p.generation]
        /\ UNCHANGED <<storageVars, requests, wait, handing, disabled, draining, reentered>>

HandleReset(c) ==
    /\ pc[c] = "holding"
    /\ reset(handle[c])
    /\ UNCHANGED <<requests, poolVars>>

--------------------------------------------------------------------------------
(* handle::recycle and handle::waste, called by the client or, through
   _use_strategy, by the handle's destructor: pool_impl::recycle and
   pool_impl::waste. *)

\* Mutation: the handle keeps its iterator, and its owner can return it again.
Release_Keeps(c) == UNCHANGED handle

\* The handle gives up its cell: _resource_it = boost::none.
Release(c) == handle' = [handle EXCEPT ![c] = NoCell]

\* Mutation: the handle is still usable after recycle.
RecycleToStorage_Twice(c) ==
    /\ pc[c] = "holding"
    /\ ~draining
    /\ requests = <<>>
    /\ recycle(handle[c])
    /\ UNCHANGED <<requests, poolVars>>

RecycleToStorage(c) ==
    /\ At(c, "holding", "idle")
    /\ ~draining
    /\ requests = <<>>
    /\ recycle(handle[c])
    /\ Release(c)
    /\ UNCHANGED <<requests, wait, posted, handing, served, disabled, draining, reentered>>

WasteToStorage(c) ==
    /\ At(c, "holding", "idle")
    /\ ~draining
    /\ requests = <<>>
    /\ waste(handle[c])
    /\ Release(c)
    /\ UNCHANGED <<requests, wait, posted, handing, served, disabled, draining, reentered>>

\* The first queued request gets the cell, which never leaves used_.
HandOver(c, valid) ==
    /\ At(c, "holding", "returning")
    /\ ~draining
    /\ pop
    /\ handing' = handing \cup
        {[by |-> c, client |-> Head(requests).client, cell |-> handle[c], valid |-> valid,
          generation |-> generation]}
    /\ Release(c)
    /\ UNCHANGED <<storageVars, wait, posted, served, disabled, draining, reentered>>

\* Mutation: the queued request gets the cell as it is.
RecycleToQueued_Unchecked(c) == HandOver(c, TRUE)

RecycleToQueued(c) == HandOver(c, is_valid(handle[c]))
WasteToQueued(c)   == HandOver(c, FALSE)

\* After unlock: a cell that is not valid is emptied, then the request is
\* answered with it.
PostQueued(c) ==
    \E h \in handing :
        /\ h.by = c
        /\ At(c, "returning", "idle")
        /\ handing' = handing \ {h}
        /\ \/ h.valid /\ UNCHANGED storageVars
           \/ ~h.valid /\ clear(h.cell)
        /\ Post({[client |-> h.client, ec |-> "ok", cell |-> h.cell,
                  generation |-> h.generation]})
        /\ UNCHANGED <<requests, wait, handle, served, disabled, draining, reentered>>

--------------------------------------------------------------------------------
\* Mutation: an aborted wait is handled like one that fired.
Expire_Early(c) ==
    /\ \E r \in Range(requests) :
        /\ r.client = c
        /\ cancel(r.expires_at)
        /\ Post({Failure(x.client, "get_resource_timeout") : x \in Expired(r.expires_at)})
    /\ UNCHANGED <<storageVars, pc, wait, handing, handle, served, disabled, draining, reentered>>

(* The queue's timer fires for the deadline of c's request: queue::cancel
   answers every request that is due by then. *)
Expire(c) ==
    /\ \E r \in Range(requests) :
        /\ r.client = c
        /\ r.expires_at <= now
        /\ cancel(r.expires_at)
        /\ Post({Failure(x.client, "get_resource_timeout") : x \in Expired(r.expires_at)})
    /\ UNCHANGED <<storageVars, pc, wait, handing, handle, served, disabled, draining, reentered>>

(* pool_impl::disable, from ~pool, as often as there are pool objects that
   share the pool_impl: each call drains the queue again. *)
DisableBegin ==
    /\ ~draining
    /\ disabled' = TRUE
    /\ draining' = TRUE
    /\ UNCHANGED <<storageVars, requests, pc, wait, posted, handing, handle, served, reentered>>

DisablePop ==
    /\ draining
    /\ ~reentered
    /\ pop
    /\ Post({Failure(Head(requests).client, "disabled")})
    /\ UNCHANGED <<storageVars, pc, wait, handing, handle, served, disabled, draining, reentered>>

\* asio::dispatch on a thread that runs the io_context: the handler runs at
\* once, under _mutex, and blocks its own thread for ever if it calls the pool.
DisableInline ==
    /\ draining
    /\ ~reentered
    /\ pop
    /\ pc' = [pc EXCEPT ![Head(requests).client] = "idle"]
    /\ served' = [served EXCEPT ![Head(requests).client] = generation]
    /\ reentered' \in {FALSE, HandlersUsePool}
    /\ UNCHANGED <<storageVars, wait, posted, handing, handle, disabled, draining>>

\* Mutation: disable waits, with _mutex held, for the handles to come back.
DisableEnd_AwaitsHandles ==
    /\ draining
    /\ ~reentered
    /\ requests = <<>>
    /\ used = {}
    /\ draining' = FALSE
    /\ UNCHANGED <<storageVars, requests, pc, wait, posted, handing, handle, served, disabled, reentered>>

DisableEnd ==
    /\ draining
    /\ ~reentered
    /\ requests = <<>>
    /\ draining' = FALSE
    /\ UNCHANGED <<storageVars, requests, pc, wait, posted, handing, handle, served, disabled, reentered>>

(* pool_impl::invalidate *)
PoolInvalidate ==
    /\ ~draining
    /\ generation < MaxGeneration
    /\ invalidate
    /\ UNCHANGED <<requests, poolVars>>

\* Bound: the clock leaves room for the waits that are about to be queued.
PoolTick ==
    /\ \A c \in Clients : pc[c] = "unlocked" => WithinHorizon(wait[c], now + 1)
    /\ Tick
    /\ UNCHANGED <<requests, poolVars>>

--------------------------------------------------------------------------------

Get(c) == GetDisabled(c) \/ GetLease(c) \/ GetMiss(c)

\* The second half of get, after unlock.
GetContinue(c) == GetNoWait(c) \/ GetPush(c) \/ GetOverflow(c)

Return(c) ==
    \/ RecycleToStorage(c) \/ WasteToStorage(c)
    \/ RecycleToQueued(c) \/ WasteToQueued(c)

DisableContinue == DisablePop \/ DisableInline \/ DisableEnd

Next ==
    \/ \E c \in Clients :
        \/ Get(c) \/ GetContinue(c)
        \/ RunHandler(c) \/ HandleReset(c)
        \/ Return(c) \/ PostQueued(c)
        \/ Expire(c)
    \/ DisableBegin \/ DisableContinue
    \/ PoolInvalidate
    \/ PoolTick

(***************************************************************************)
(* Threads inside a member function go on, io_contexts run what is posted  *)
(* to them, timers fire and time passes.  Nobody has to call get, to give  *)
(* a handle back, to disable or to invalidate.  The clock is not stopped   *)
(* by the clients (SF: its guard is the bound, not the program).           *)
(***************************************************************************)
Fairness ==
    /\ \A c \in Clients :
        /\ WF_vars(GetContinue(c))
        /\ WF_vars(RunHandler(c))
        /\ WF_vars(PostQueued(c))
        /\ WF_vars(Expire(c))
    /\ WF_vars(DisableContinue)
    /\ SF_vars(PoolTick)

Spec == Init /\ [][Next]_vars
FairSpec == Spec /\ Fairness

--------------------------------------------------------------------------------
(* Properties *)

TypeOK ==
    /\ StorageTypeOK
    /\ requests \in Seq(Request)
    /\ Len(requests) <= QueueCapacity
    /\ pc \in [Clients -> {"idle", "unlocked", "waiting", "holding", "returning"}]
    /\ wait \in [Clients -> WaitDurations \cup {0}]
    /\ posted \subseteq Completion
    /\ handing \subseteq Handing
    /\ handle \in [Clients -> Cells \cup {NoCell}]
    /\ served \in [Clients -> Nat]
    /\ disabled \in BOOLEAN
    /\ draining \in BOOLEAN
    /\ reentered \in BOOLEAN

\* The places a cell can be while it is out of the storage's hands.
OwnersOf(cell) ==
    {<<"posted", p>> : p \in {q \in posted : q.cell = cell}}
        \cup {<<"handing", h>> : h \in {g \in handing : g.cell = cell}}
        \cup {<<"handle", c>> : c \in {d \in Clients : handle[d] = cell}}

\* Every cell of used_ belongs to exactly one completion, handle or returning
\* call, and no other cell belongs to any: no cell leaks and none is shared
\* (pool_impl.hpp: get, recycle, waste; handle.hpp).
EveryUsedCellOwnedOnce ==
    \A cell \in Cells :
        \/ cell \in used /\ \E o \in OwnersOf(cell) : OwnersOf(cell) = {o}
        \/ cell \notin used /\ OwnersOf(cell) = {}

\* The places the answer to a client's request can come from.
AnswersTo(c) ==
    {<<"queued", i>> : i \in {j \in DOMAIN requests : requests[j].client = c}}
        \cup {<<"posted", p>> : p \in {q \in posted : q.client = c}}
        \cup {<<"handing", h>> : h \in {g \in handing : g.client = c}}

\* A request is answered once: while a client waits, its request is in exactly
\* one place, the queue, a returning call or a completion, whatever the timer,
\* disable and the returning clients do; otherwise it is nowhere
\* (queue.hpp: push, pop, cancel; pool_impl.hpp: get, recycle, waste, disable).
OneAnswerPerRequest ==
    \A c \in Clients :
        \/ pc[c] = "waiting" /\ \E a \in AnswersTo(c) : AnswersTo(c) = {a}
        \/ pc[c] # "waiting" /\ AnswersTo(c) = {}

\* A handle that carries a resource never carries one that had been
\* invalidated before the cell was chosen for the request, although recycle
\* reads is_valid under _mutex and acts on it after unlocking
\* (pool_impl.hpp: recycle; README "Invalidate pool").
NoInvalidatedResourceServed ==
    /\ \A p \in posted : p.ec = "ok" /\ value[p.cell] # NoValue
        => value[p.cell].generation >= p.generation
    /\ \A c \in Clients : pc[c] = "holding" /\ value[handle[c]] # NoValue
        => value[handle[c]].generation >= served[c]

\* Every request is answered in the end, if its wait is finite: by a returned
\* cell, its timer or disable (pool_impl.hpp: get; queue.hpp: update_timer).
EveryRequestAnswered ==
    \A c \in Clients : pc[c] \in {"unlocked", "waiting"} ~> pc[c] \in {"idle", "holding"}

\* disable gets to the end of its loop and unlocks _mutex, although gets that
\* had unlocked it before go on pushing, and handlers may run inside disable;
\* a handler that calls the pool must not stop it either (pool_impl.hpp:
\* disable; tests/async/integration.cc:
\* disabled_pool_should_cancel_all_pending_requests).
DisableReturns == draining ~> ~draining

--------------------------------------------------------------------------------
(* What the documentation promises and the code does not keep. *)

\* A request does not stay in the queue for ever while the pool keeps a cell
\* that nobody uses: get "returns resource handle when it will be available"
\* (README.md).  pool_impl::get unlocks _mutex between its failed lease and
\* push, and a cell returned in between is parked.
FreeCellReachesWaiter ==
    \A c \in Clients :
        LET Stuck == Queued(c) /\ ~disabled /\ ~LeaseFails IN Stuck ~> ~Stuck

\* A handle served after the last invalidate can be recycled: only handles in
\* use at that moment are wasted on return (README.md, "Invalidate pool";
\* tests/async/pool_impl.cc: should_restore_wasted_cell).  recycle and waste
\* hand a cell to a queued request without clearing waste_on_recycle.
HandleServedAfterInvalidateIsUnmarked ==
    \A c \in Clients : pc[c] = "holding" /\ served[c] = generation
        => ~waste_on_recycle[handle[c]]
================================================================================
