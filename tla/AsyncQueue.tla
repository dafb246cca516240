------------------------------ MODULE AsyncQueue ------------------------------
(***************************************************************************)
(* async::detail::queue (async/detail/queue.hpp) in detail: one list of    *)
(* nodes in the order of arrival, one multimap of the same nodes by        *)
(* deadline, a list of spare nodes, and a timer per io_context of which    *)
(* only the one for the earliest deadline is armed anew.                   *)
(*                                                                         *)
(* A timer's wait is pending until it completes: fired, once its deadline  *)
(* has passed, or aborted, when its timer is set anew or cancelled.  Its   *)
(* handler then sits in the io_context until somebody runs that, while     *)
(* push, pop and other handlers go on.  A timer object without a pending   *)
(* wait has no effect and is not distinguished from none.                  *)
(***************************************************************************)
EXTENDS Clock, FiniteSets, Subsequences

CONSTANTS Clients,        \* who pushes requests, one at a time each
          QueueCapacity,  \* _capacity
          IoContexts,     \* the io_contexts that requests name
          Running,        \* those of them that some thread runs
          WaitDurations,  \* the wait durations of requests
          NoRequest,      \* a request that has been moved from
          MaxReady        \* bound: handlers waiting to run when push or pop is called

ASSUME AsyncQueueAssumption ==
    /\ QueueCapacity \in Nat
    /\ Running \subseteq IoContexts
    /\ WaitDurations \subseteq Duration
    /\ NoRequest \notin Clients
    /\ MaxReady \in Nat

VARIABLES
    ordered,   \* _ordered_requests, a list of nodes
    spare,     \* _ordered_requests_pool
    expiring,  \* _expires_at_requests, in the order of its keys
    node,      \* the contents of every node that was ever emplaced
    pending,   \* waits of _timers that have not completed
    ready,     \* completed waits whose handler has not run
    expired    \* expired_handlers that were posted and have not run

indexVars == <<ordered, spare, expiring, node>>
timerVars == <<pending, ready>>
vars == <<now, indexVars, timerVars, expired>>

Node    == [io_context : IoContexts, request : Clients \cup {NoRequest}]
Entry   == [at : TimePoint, node : DOMAIN node]
Wait    == [io_context : IoContexts, expires_at : TimePoint]
Handler == [io_context : IoContexts, expires_at : TimePoint, aborted : BOOLEAN]
Answer  == [io_context : IoContexts, client : Clients \cup {NoRequest}]

Init ==
    /\ now \in 0..MaxNow
    /\ ordered = <<>>
    /\ spare = <<>>
    /\ expiring = <<>>
    /\ node = <<>>
    /\ pending = {}
    /\ ready = {}
    /\ expired = {}

Busy(c) ==
    \/ \E n \in Range(ordered) : node[n].request = c
    \/ \E a \in expired : a.client = c

--------------------------------------------------------------------------------
(* queue::update_timer, on what push, pop or cancel leaves in the queue;
   handlers are the completed waits whose handler is still to run. *)

Completed(w, aborted) ==
    [io_context |-> w.io_context, expires_at |-> w.expires_at, aborted |-> aborted]

\* timer.cancel(), timer.expires_at(t) and ~timer abort the pending waits.
Abort(waits, handlers) == ready' = handlers \cup {Completed(w, TRUE) : w \in waits}

CancelTimers(handlers) ==
    /\ expiring' = <<>>
    /\ pending' = {}
    /\ Abort(pending, handlers)

ArmTimer(handlers) ==
    /\ expiring' # <<>>
    /\ LET earliest == Head(expiring')
           io       == node'[earliest.node].io_context
           old      == {w \in pending : w.io_context = io}
       IN  /\ pending' = (pending \ old)
                             \cup {[io_context |-> io, expires_at |-> earliest.at]}
           /\ Abort(old, handlers)

update_timer(handlers) == CancelTimers(handlers) \/ ArmTimer(handlers)

--------------------------------------------------------------------------------
(* queue::push, queue::pop *)

\* Mutation: one request too many.
fit_capacity_OffByOne == Len(expiring) <= QueueCapacity

fit_capacity == Len(expiring) < QueueCapacity

\* The node at the front of the spare ones, or a new one, gets the contents.
TakeNode(n, contents) ==
    \/ /\ spare = <<>>
       /\ n = Len(node) + 1
       /\ node' = Append(node, contents)
       /\ UNCHANGED spare
    \/ /\ spare # <<>>
       /\ n = Head(spare)
       /\ node' = [node EXCEPT ![n] = contents]
       /\ spare' = Tail(spare)

\* Mutation: lower_bound, so that a request is not due at its own deadline.
UpperBound_Lower(at, k) == \A i \in DOMAIN expiring : i <= k <=> expiring[i].at < at

\* Where upper_bound(at) cuts the multimap: after the first k entries.
UpperBound(at, k) == \A i \in DOMAIN expiring : i <= k <=> expiring[i].at <= at

\* multimap::insert puts a new entry behind those with the same key.
Insert(entry) ==
    \E k \in 0..Len(expiring) :
        /\ UpperBound(entry.at, k)
        /\ expiring' = Append(SubSeq(expiring, 1, k), entry)
                           \o SubSeq(expiring, k + 1, Len(expiring))

push(c, io, wait_duration) ==
    /\ fit_capacity
    /\ \E n \in 1..(Len(node) + 1) :
        /\ TakeNode(n, [io_context |-> io, request |-> c])
        /\ ordered' = Append(ordered, n)
        /\ Insert([at |-> Add(now, wait_duration), node |-> n])
    /\ update_timer(ready)

Push(c) ==
    /\ Cardinality(ready) < MaxReady
    /\ ~Busy(c)
    /\ \E io \in IoContexts, d \in WaitDurations : push(c, io, d)
    /\ UNCHANGED <<now, expired>>

\* Mutation: pop erases the earliest entry instead of the request's own.
PopNode_ErasesBegin(n) ==
    /\ expiring' = Tail(expiring)
    /\ spare' = <<n>> \o spare
    /\ ordered' = Tail(ordered)
    /\ node' = [node EXCEPT ![n].request = NoRequest]

\* The caller gets the request, and the node goes to the front of the spares.
PopNode(n) ==
    /\ expiring' \in Remaining(expiring, {i \in DOMAIN expiring : expiring[i].node # n})
    /\ spare' = <<n>> \o spare
    /\ ordered' = Tail(ordered)
    /\ node' = [node EXCEPT ![n].request = NoRequest]

\* Mutation: the timer is left as it is.
pop_KeepsTimer ==
    /\ ordered # <<>>
    /\ PopNode(Head(ordered))
    /\ UNCHANGED timerVars

pop ==
    /\ ordered # <<>>
    /\ PopNode(Head(ordered))
    /\ update_timer(ready)

Pop ==
    /\ Cardinality(ready) < MaxReady
    /\ pop
    /\ UNCHANGED <<now, expired>>

--------------------------------------------------------------------------------
(* The waits, and queue::cancel, which is their handler. *)

\* Bound: a wait fires again only after the handler of its twin has run.
Fire(io) ==
    \E w \in pending :
        /\ w.io_context = io
        /\ w.expires_at <= now
        /\ Completed(w, FALSE) \notin ready
        /\ pending' = pending \ {w}
        /\ ready' = ready \cup {Completed(w, FALSE)}
        /\ UNCHANGED <<now, indexVars, expired>>

\* The first k entries are due: their requests are answered, and their nodes
\* are spliced one by one to the front of the spares.
cancel(w, k) ==
    LET due == {expiring[i].node : i \in 1..k}
    IN  /\ UpperBound(w.expires_at, k)
        /\ expired' = expired \cup
            {[io_context |-> node[n].io_context, client |-> node[n].request] : n \in due}
        /\ node' = [n \in DOMAIN node |->
                       IF n \in due THEN [node[n] EXCEPT !.request = NoRequest] ELSE node[n]]
        /\ ordered' \in Remaining(ordered, {i \in DOMAIN ordered : ordered[i] \notin due})
        /\ spare' = [i \in 1..k |-> expiring[k + 1 - i].node] \o spare
        /\ expiring' = SubSeq(expiring, k + 1, Len(expiring))
        /\ update_timer(ready \ {w})

\* Mutation: cancel does not look at its error code.
RunWait_IgnoresError(w) ==
    /\ w \in ready
    /\ \E k \in 0..Len(expiring) : cancel(w, k)
    /\ UNCHANGED now

RunWait(w) ==
    /\ w \in ready
    /\ \/ /\ w.aborted
          /\ ready' = ready \ {w}
          /\ UNCHANGED <<indexVars, pending, expired>>
       \/ /\ ~w.aborted
          /\ \E k \in 0..Len(expiring) : cancel(w, k)
    /\ UNCHANGED now

\* An expired_handler runs on the io_context of its request.
RunExpired ==
    \E a \in expired :
        /\ expired' = expired \ {a}
        /\ UNCHANGED <<now, indexVars, timerVars>>

Tick ==
    /\ advance
    /\ UNCHANGED <<indexVars, timerVars, expired>>

--------------------------------------------------------------------------------

Next ==
    \/ \E c \in Clients : Push(c)
    \/ Pop
    \/ \E io \in IoContexts : Fire(io)
    \/ \E w \in ready : RunWait(w)
    \/ RunExpired
    \/ Tick

\* An io_context that some thread runs completes its due waits and runs every
\* handler that fired, however many other handlers there are.
Fairness ==
    \A io \in Running :
        /\ WF_vars(Fire(io))
        /\ \A t \in 0..MaxNow : WF_vars(RunWait(Completed([io_context |-> io, expires_at |-> t], FALSE)))

Spec == Init /\ [][Next]_vars /\ Fairness

--------------------------------------------------------------------------------
(* Properties *)

TypeOK ==
    /\ now \in 0..MaxNow
    /\ node \in Seq(Node)
    /\ ordered \in Seq(DOMAIN node)
    /\ spare \in Seq(DOMAIN node)
    /\ expiring \in Seq(Entry)
    /\ Len(node) <= QueueCapacity
    /\ pending \subseteq Wait
    /\ ready \subseteq Handler
    /\ expired \subseteq Answer

\* The two indexes hold the same nodes, each once, and the spare list holds
\* the others: no iterator kept in a node dangles, whichever of push, pop and
\* cancel moved the node.  A queued node has a request to answer, and a spare
\* one none (queue.hpp: order_it, expires_at_it, the splices of push, pop and
\* cancel).
IndexesAgree ==
    LET byDeadline == [i \in DOMAIN expiring |-> expiring[i].node]
    IN  /\ Range(ordered) = Range(byDeadline)
        /\ Range(ordered) \cup Range(spare) = DOMAIN node
        /\ Range(ordered) \cap Range(spare) = {}
        /\ IsInjective(ordered) /\ IsInjective(byDeadline) /\ IsInjective(spare)
        /\ \A n \in DOMAIN node : n \in Range(spare) <=> node[n].request = NoRequest

\* While requests are queued, a wait for the earliest deadline is pending on
\* the io_context of that request, or has fired and is about to be handled:
\* no order of pushes, pops, fired and aborted waits leaves the queue without
\* a timer (queue.hpp: update_timer).
EarliestHasWait ==
    expiring # <<>> =>
        LET earliest == [io_context |-> node[Head(expiring).node].io_context,
                         expires_at |-> Head(expiring).at]
        IN  earliest \in pending \/ Completed(earliest, FALSE) \in ready

Overdue(c) == \E i \in DOMAIN expiring :
                 node[expiring[i].node].request = c /\ expiring[i].at <= now

\* A request whose deadline has passed leaves the queue, unless nobody runs
\* the io_context of the earliest request: the timers of the other io_contexts
\* may not be armed at all (queue.hpp: update_timer, cancel).
OverdueLeave ==
    \A c \in Clients :
        Overdue(c) ~> \/ ~Overdue(c)
                      \/ node[Head(expiring).node].io_context \notin Running

--------------------------------------------------------------------------------
(* The queue as its users see it. *)

DeadlineOf(n) == (CHOOSE e \in Range(expiring) : e.node = n).at

Requests ==
    [i \in DOMAIN ordered |->
        [client |-> node[ordered[i]].request, expires_at |-> DeadlineOf(ordered[i])]]

Queue == INSTANCE RequestQueue WITH requests <- Requests

\* The detailed queue implements the queue that AsyncPool uses: requests are
\* popped in the order of arrival, whatever their deadlines, and a handler of
\* an old, aborted or late wait expires nothing before its time (queue.hpp).
ImplementsRequestQueue == Queue!QueueSpec
================================================================================
