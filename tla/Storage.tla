-------------------------------- MODULE Storage --------------------------------
(***************************************************************************)
(* detail::storage (detail/storage.hpp): the three lists between which the *)
(* cells (detail::idle, detail/idle.hpp) of a pool are spliced.  Both      *)
(* pools own one storage and call it under their mutex, so each member     *)
(* function is one step.                                                   *)
(*                                                                         *)
(* The operators named as in the source (lease, recycle, waste, ...) are   *)
(* the bodies of the member functions; the pools' modules conjoin them     *)
(* with their own steps.  The storage's own specification, StorageSpec,    *)
(* lets callers use any cell that is leased, and no other: it is what the  *)
(* pools are shown to respect.                                             *)
(***************************************************************************)
EXTENDS Clock, Sequences, Functions

CONSTANTS Capacity,       \* number of cells, the constructor's capacity
          IdleTimeout,    \* idle_timeout_
          Lifespan,       \* lifespan_
          MaxGeneration,  \* bound: the number of calls of invalidate
          NoValue         \* boost::none: the cell holds no resource

Cells == 1..Capacity

(***************************************************************************)
(* A resource is abstracted to its history: when it was put into a cell,   *)
(* how often the pool had been invalidated by then, and when it was last   *)
(* put to rest in available_.  The code keeps none of the three.           *)
(***************************************************************************)
Resource == [born : TimePoint, generation : Nat, rested : TimePoint]

ASSUME StorageAssumption ==
    /\ Capacity \in Nat \ {0}           \* assert_capacity
    /\ IdleTimeout \in Duration
    /\ Lifespan \in Duration
    /\ MaxGeneration \in Nat
    /\ NoValue \notin Resource

VARIABLES
    available,         \* available_, front first
    used,              \* used_; nothing depends on the order of this list
    wasted,            \* wasted_, front first
    value,             \* idle::value of every cell
    drop_time,         \* idle::drop_time
    reset_time,        \* idle::reset_time
    waste_on_recycle,  \* idle::waste_on_recycle
    generation         \* history: how often invalidate was called

storageVars == <<now, available, used, wasted, value, drop_time, reset_time,
                 waste_on_recycle, generation>>

NewResource == [born |-> now, generation |-> generation, rested |-> now]

--------------------------------------------------------------------------------
(* Construction: storage(capacity) and storage(generator, capacity); the
   iterator-range constructor differs from the latter only in its source. *)

\* Mutation: the generator's loop runs while i <= capacity.
CellList_OneMore == [i \in 1..(Capacity + 1) |-> i]

CellList == [i \in 1..Capacity |-> i]

InitWasted ==
    /\ available = <<>>
    /\ wasted = CellList
    /\ value = [c \in Cells |-> NoValue]
    /\ drop_time = [c \in Cells |-> TimeMax]
    /\ reset_time = [c \in Cells |-> Epoch]

InitGenerated ==
    /\ available = CellList
    /\ wasted = <<>>
    /\ value = [c \in Cells |-> NewResource]
    /\ drop_time = [c \in Cells |-> MinTime(Add(now, IdleTimeout), Add(now, Lifespan))]
    /\ reset_time = [c \in Cells |-> now]

StorageInit ==
    /\ now \in 0..MaxNow
    /\ generation = 0
    /\ used = {}
    /\ waste_on_recycle = [c \in Cells |-> FALSE]
    /\ InitWasted \/ InitGenerated

--------------------------------------------------------------------------------
(* storage::lease.  Its loop drops the k leading expired cells of available_
   into wasted_; then it takes the next available cell, or, when all of them
   were dropped, the first wasted one. *)

\* Mutation: drop_time >= now, so a cell that expires now is still leased.
DropsPrefix_OffByOne(k) ==
    /\ \A i \in 1..k : drop_time[available[i]] < now
    /\ k < Len(available) => drop_time[available[k + 1]] >= now

DropsPrefix(k) ==
    /\ \A i \in 1..k : drop_time[available[i]] <= now
    /\ k < Len(available) => drop_time[available[k + 1]] > now

LeaseAvailable(c) ==
    \E k \in 0..(Len(available) - 1) :
        /\ DropsPrefix(k)
        /\ c = available[k + 1]
        /\ available' = SubSeq(available, k + 2, Len(available))
        /\ wasted' = wasted \o SubSeq(available, 1, k)
        /\ used' = used \cup {c}
        /\ value' = [x \in Cells |->
                        IF \E i \in 1..k : available[i] = x THEN NoValue ELSE value[x]]
        /\ UNCHANGED <<now, drop_time, reset_time, waste_on_recycle, generation>>

\* Mutation: waste_on_recycle is not cleared.
LeaseWasted_KeepsFlag(c) ==
    LET emptied == wasted \o available
    IN  /\ \A i \in 1..Len(available) : drop_time[available[i]] <= now
        /\ emptied # <<>>
        /\ c = Head(emptied)
        /\ available' = <<>>
        /\ wasted' = Tail(emptied)
        /\ used' = used \cup {c}
        /\ value' = [x \in Cells |-> IF x \in Range(available) THEN NoValue ELSE value[x]]
        /\ UNCHANGED <<now, drop_time, reset_time, waste_on_recycle, generation>>

LeaseWasted(c) ==
    LET emptied == wasted \o available
    IN  /\ \A i \in 1..Len(available) : drop_time[available[i]] <= now
        /\ emptied # <<>>
        /\ c = Head(emptied)
        /\ available' = <<>>
        /\ wasted' = Tail(emptied)
        /\ used' = used \cup {c}
        /\ value' = [x \in Cells |-> IF x \in Range(available) THEN NoValue ELSE value[x]]
        /\ waste_on_recycle' = [waste_on_recycle EXCEPT ![c] = FALSE]
        /\ UNCHANGED <<now, drop_time, reset_time, generation>>

lease(c) == LeaseAvailable(c) \/ LeaseWasted(c)

\* lease returns none: the loop had nothing to drop and wasted_ is empty.
LeaseFails == available = <<>> /\ wasted = <<>>

--------------------------------------------------------------------------------
(* storage::is_valid, waste, recycle, invalidate. *)

LifeEnd(c) == Add(reset_time[c], Lifespan)

\* Mutation: the mark left by invalidate is not looked at.
is_valid_IgnoresMark(c) == LifeEnd(c) > now

is_valid(c) == ~waste_on_recycle[c] /\ LifeEnd(c) > now

\* Mutation: the resource is left in the cell.
waste_KeepsValue(c) ==
    /\ wasted' = Append(wasted, c)
    /\ used' = used \ {c}
    /\ UNCHANGED <<now, available, value, drop_time, reset_time, waste_on_recycle, generation>>

waste(c) ==
    /\ value' = [value EXCEPT ![c] = NoValue]
    /\ wasted' = Append(wasted, c)
    /\ used' = used \ {c}
    /\ UNCHANGED <<now, available, drop_time, reset_time, waste_on_recycle, generation>>

Rest(v) == IF v = NoValue THEN NoValue ELSE [v EXCEPT !.rested = now]

Park(c) ==
    /\ drop_time' = [drop_time EXCEPT ![c] = MinTime(Add(now, IdleTimeout), LifeEnd(c))]
    /\ available' = Append(available, c)
    /\ used' = used \ {c}
    /\ value' = [value EXCEPT ![c] = Rest(@)]
    /\ UNCHANGED <<now, wasted, reset_time, waste_on_recycle, generation>>

\* Mutation: the cell of an expired resource is spliced twice, for want of the
\* return after waste(cell).
recycle_FallsThrough(c) ==
    \/ /\ ~is_valid(c)
       /\ value' = [value EXCEPT ![c] = NoValue]
       /\ wasted' = Append(wasted, c)
       /\ available' = Append(available, c)
       /\ used' = used \ {c}
       /\ UNCHANGED <<now, drop_time, reset_time, waste_on_recycle, generation>>
    \/ is_valid(c) /\ Park(c)

recycle(c) ==
    \/ ~is_valid(c) /\ waste(c)
    \/ is_valid(c) /\ Park(c)

invalidate ==
    /\ value' = [x \in Cells |-> IF x \in Range(available) THEN NoValue ELSE value[x]]
    /\ wasted' = wasted \o available
    /\ available' = <<>>
    /\ waste_on_recycle' = [x \in Cells |-> waste_on_recycle[x] \/ x \in used]
    /\ generation' = generation + 1
    /\ UNCHANGED <<now, used, drop_time, reset_time>>

--------------------------------------------------------------------------------
(* What the holder of a leased cell does to it through the iterator, without
   the pool's mutex. *)

\* handle::reset: a new resource, dated now.
reset(c) ==
    /\ value' = [value EXCEPT ![c] = NewResource]
    /\ reset_time' = [reset_time EXCEPT ![c] = now]
    /\ UNCHANGED <<now, available, used, wasted, drop_time, waste_on_recycle, generation>>

\* res_it->value.reset() in async pool_impl::recycle and pool_impl::waste.
clear(c) ==
    /\ value' = [value EXCEPT ![c] = NoValue]
    /\ UNCHANGED <<now, available, used, wasted, drop_time, reset_time, waste_on_recycle, generation>>

--------------------------------------------------------------------------------
(* The storage with callers that respect it: a cell is returned or written
   to only while it is leased. *)

Lease      == \E c \in Cells : lease(c)
Recycle    == \E c \in used : recycle(c)
Waste      == \E c \in used : waste(c)
Invalidate == generation < MaxGeneration /\ invalidate
Reset      == \E c \in used : reset(c)
Clear      == \E c \in used : clear(c)

Tick ==
    /\ advance
    /\ UNCHANGED <<available, used, wasted, value, drop_time, reset_time,
                   waste_on_recycle, generation>>

StorageNext == Lease \/ Recycle \/ Waste \/ Invalidate \/ Reset \/ Clear \/ Tick

StorageSpec == StorageInit /\ [][StorageNext]_storageVars

--------------------------------------------------------------------------------
(* Properties *)

StorageTypeOK ==
    /\ now \in 0..MaxNow
    /\ generation \in 0..MaxGeneration
    /\ available \in Seq(Cells)
    /\ wasted \in Seq(Cells)
    /\ used \subseteq Cells
    /\ value \in [Cells -> Resource \cup {NoValue}]
    /\ drop_time \in [Cells -> TimePoint]
    /\ reset_time \in [Cells -> TimePoint]
    /\ waste_on_recycle \in [Cells -> BOOLEAN]

\* Splicing loses no cell and links none twice: every cell is on exactly one
\* of available_, used_ and wasted_, once (storage.hpp: lease, recycle, waste,
\* invalidate).
CellsPartitioned ==
    /\ Range(available) \cup used \cup Range(wasted) = Cells
    /\ Range(available) \cap used = {}
    /\ Range(wasted) \cap used = {}
    /\ Range(available) \cap Range(wasted) = {}
    /\ IsInjective(available)
    /\ IsInjective(wasted)

\* A resource that leaves the pool's service is destroyed: the cells of
\* wasted_ hold none (storage.hpp: the value.reset() before every splice into
\* wasted_), so a lease that falls back on wasted_ hands out an empty cell.
WastedHoldNothing == \A c \in Range(wasted) : value[c] = NoValue

\* After invalidate no resource that existed then can come back into
\* available_: those at rest are gone, and every cell in use that still holds
\* one is marked to be wasted (storage.hpp: invalidate, recycle, lease).
InvalidatedNeverReturn ==
    \A c \in Cells :
        value[c] # NoValue /\ value[c].generation < generation
            => c \in used /\ waste_on_recycle[c]

Fresh(v) ==
    /\ v.generation = generation
    /\ now < Add(v.born, Lifespan)
    /\ now < Add(v.rested, IdleTimeout)

\* A resource handed out by lease was not invalidated, has lived less than
\* lifespan_ and has rested less than idle_timeout_ (storage.hpp: lease; README
\* "idle_timeout" and "lifespan").
LeaseHandsOutFresh ==
    [][\A c \in used' \ used : value'[c] # NoValue => Fresh(value'[c])]_storageVars

\* A cell leased empty after an invalidation is as good as new: what its
\* holder puts into it can be recycled (storage.hpp: lease clears
\* waste_on_recycle; test should_restore_wasted_cell).
LeasedUnmarked ==
    [][\A c \in used' \ used : ~waste_on_recycle'[c]]_storageVars

--------------------------------------------------------------------------------
(* The inductive invariant behind the four invariants: what ties the dates
   in the cells to the history of the resources they hold. *)

AvailableUnmarked == \A c \in Range(available) : ~waste_on_recycle[c]

Dated ==
    \A c \in Cells : value[c] # NoValue =>
        value[c].born = reset_time[c] /\ value[c].generation <= generation

DropBounded ==
    \A c \in Range(available) : value[c] # NoValue =>
        /\ drop_time[c] <= Add(value[c].born, Lifespan)
        /\ drop_time[c] <= Add(value[c].rested, IdleTimeout)

StorageInv ==
    /\ StorageTypeOK
    /\ CellsPartitioned
    /\ WastedHoldNothing
    /\ InvalidatedNeverReturn
    /\ AvailableUnmarked
    /\ Dated
    /\ DropBounded
================================================================================
