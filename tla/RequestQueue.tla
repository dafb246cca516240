----------------------------- MODULE RequestQueue -----------------------------
(***************************************************************************)
(* async::detail::queue (async/detail/queue.hpp) as its users see it: a    *)
(* bounded FIFO of requests, each with the instant at which it expires.    *)
(* Every member function runs under the queue's own mutex, so each is one  *)
(* step.                                                                   *)
(*                                                                         *)
(* AsyncPool conjoins the operators named as in the source with its own    *)
(* steps.  QueueSpec is the promise between the two: AsyncPool is shown to *)
(* use its queue only in this way, and AsyncQueue, the queue in detail, to *)
(* offer nothing else.                                                     *)
(***************************************************************************)
EXTENDS Clock, Subsequences

CONSTANTS Clients,        \* who may have a request queued, one at a time
          QueueCapacity   \* _capacity

ASSUME QueueAssumption == QueueCapacity \in Nat

VARIABLE requests         \* _ordered_requests with the keys of _expires_at_requests

queueVars == <<now, requests>>

Request == [client : Clients, expires_at : TimePoint]

\* Mutation: one request too many.
fit_capacity_OffByOne == Len(requests) <= QueueCapacity

fit_capacity == Len(requests) < QueueCapacity

push(c, wait_duration) ==
    requests' = Append(requests, [client |-> c, expires_at |-> Add(now, wait_duration)])

pop == requests # <<>> /\ requests' = Tail(requests)

\* Mutation: the loop stops short of the requests that are due at this very
\* instant; the erase after it does not.
Expired_LowerBound(expires_at) == {r \in Range(requests) : r.expires_at < expires_at}

\* The requests that cancel(ec, expires_at) removes: the range of
\* _expires_at_requests up to upper_bound(expires_at).
Expired(expires_at) == {r \in Range(requests) : r.expires_at <= expires_at}

\* Mutation: the answered requests stay on _ordered_requests.
cancel_NotUnlinked(expires_at) == UNCHANGED requests

cancel(expires_at) ==
    requests' \in Remaining(requests, {i \in DOMAIN requests : requests[i].expires_at > expires_at})

Queued(c) == \E r \in Range(requests) : r.client = c

--------------------------------------------------------------------------------
(* The queue with any users: they push while there is room, pop when they
   like, and nothing but time makes a request expire. *)

QueueInit ==
    /\ now \in 0..MaxNow
    /\ requests = <<>>

QueuePush ==
    /\ Len(requests) < QueueCapacity
    /\ \E c \in Clients, d \in Duration : ~Queued(c) /\ push(c, d)
    /\ UNCHANGED now

QueuePop ==
    /\ pop
    /\ UNCHANGED now

\* Requests expire with all that are due by the same deadline, never before it.
QueueExpire ==
    /\ \E r \in Range(requests) : r.expires_at <= now /\ cancel(r.expires_at)
    /\ UNCHANGED now

QueueTick ==
    /\ advance
    /\ UNCHANGED requests

QueueNext == QueuePush \/ QueuePop \/ QueueExpire \/ QueueTick

\* The queue's promise: requests leave it in the order in which they came,
\* except that those whose deadline has passed leave it all at once, and it
\* never holds more than its capacity (queue.hpp: push, pop, cancel).
QueueSpec == QueueInit /\ [][QueueNext]_queueVars
================================================================================
