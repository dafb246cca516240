-------------------------------- MODULE Handle --------------------------------
(***************************************************************************)
(* resource_pool::handle (handle.hpp): the objects through which clients   *)
(* own leased cells, moved from variable to variable and destroyed.  A     *)
(* handle knows its pool_impl, the cell, and what to do with the cell when *)
(* nobody says so (_use_strategy).                                         *)
(*                                                                         *)
(* The pools are seen only through pool_returns (detail/pool_returns.hpp): *)
(* a cell is leased, or it was recycled or wasted last.  What they do with *)
(* it is in Storage, AsyncPool and SyncPool, and so is handle::reset.  A   *)
(* call that throws unusable_handle changes nothing and is no step.        *)
(***************************************************************************)
EXTENDS Naturals

CONSTANTS Handles,  \* variables of type handle
          Pools,    \* pool_impl objects
          Cells,    \* the cells of each of them
          NoPool,   \* a null shared_ptr
          NoCell    \* boost::none

Strategies == {"recycle", "waste"}

ASSUME HandleAssumption == NoPool \notin Pools /\ NoCell \notin Cells

VARIABLES
    alive,         \* the variables that hold a constructed handle
    pool_impl,     \* _pool_impl
    use_strategy,  \* _use_strategy; handle() leaves it indeterminate
    resource_it,   \* _resource_it
    cell,          \* the pools' side: "leased", or how the cell came back last
    chosen,        \* history: the strategy named when the cell was leased
    open           \* the pool_impls that a pool object still refers to

handleVars == <<pool_impl, use_strategy, resource_it>>
vars == <<alive, handleVars, cell, chosen, open>>

Init ==
    /\ alive = {}
    /\ pool_impl = [h \in Handles |-> NoPool]
    /\ use_strategy = [h \in Handles |-> "indeterminate"]
    /\ resource_it = [h \in Handles |-> NoCell]
    /\ cell = [p \in Pools |-> [c \in Cells |-> "waste"]]
    /\ chosen = [p \in Pools |-> [c \in Cells |-> "waste"]]
    /\ open = Pools

unusable(h) == resource_it[h] = NoCell

--------------------------------------------------------------------------------
(* Construction *)

Construct(h) ==
    /\ h \notin alive
    /\ alive' = alive \cup {h}
    /\ UNCHANGED <<handleVars, cell, chosen, open>>

\* A get that succeeds, with get_auto_recycle or get_auto_waste.
Get(h, p, c, strategy) ==
    /\ h \notin alive
    /\ p \in open
    /\ cell[p][c] # "leased"
    /\ alive' = alive \cup {h}
    /\ pool_impl' = [pool_impl EXCEPT ![h] = p]
    /\ use_strategy' = [use_strategy EXCEPT ![h] = strategy]
    /\ resource_it' = [resource_it EXCEPT ![h] = c]
    /\ cell' = [cell EXCEPT ![p][c] = "leased"]
    /\ chosen' = [chosen EXCEPT ![p][c] = strategy]
    /\ UNCHANGED open

\* Mutation: the strategy is not copied.
MoveConstruct_NoStrategy(h, other) ==
    /\ h \notin alive
    /\ other \in alive
    /\ alive' = alive \cup {h}
    /\ pool_impl' = [pool_impl EXCEPT ![h] = pool_impl[other], ![other] = NoPool]
    /\ resource_it' = [resource_it EXCEPT ![h] = resource_it[other], ![other] = NoCell]
    /\ UNCHANGED <<use_strategy, cell, chosen, open>>

MoveConstruct(h, other) ==
    /\ h \notin alive
    /\ other \in alive
    /\ alive' = alive \cup {h}
    /\ pool_impl' = [pool_impl EXCEPT ![h] = pool_impl[other], ![other] = NoPool]
    /\ use_strategy' = [use_strategy EXCEPT ![h] = use_strategy[other]]
    /\ resource_it' = [resource_it EXCEPT ![h] = resource_it[other], ![other] = NoCell]
    /\ UNCHANGED <<cell, chosen, open>>

--------------------------------------------------------------------------------
(* Giving the cell back *)

\* (this->*_use_strategy)(), as far as the pool p is concerned.
UseStrategyAt(p, h) ==
    \/ unusable(h) /\ UNCHANGED cell
    \/ ~unusable(h) /\ cell' = [cell EXCEPT ![p][resource_it[h]] = use_strategy[h]]

UseStrategy(h) == UseStrategyAt(pool_impl[h], h)

\* handle::recycle and handle::waste; the pool_impl is kept.
GiveBack(h, strategy) ==
    /\ h \in alive
    /\ ~unusable(h)
    /\ cell' = [cell EXCEPT ![pool_impl[h]][resource_it[h]] = strategy]
    /\ resource_it' = [resource_it EXCEPT ![h] = NoCell]
    /\ UNCHANGED <<alive, pool_impl, use_strategy, chosen, open>>

\* operator=(handle&&), after the strategy was used: the fields are taken over
\* and the other handle is cleared.  A handle may be assigned to itself.
TakeOver(h, other) ==
    LET it == IF h = other THEN NoCell ELSE resource_it[other]
    IN  /\ pool_impl' = [pool_impl EXCEPT ![h] = pool_impl[other], ![other] = NoPool]
        /\ resource_it' = [resource_it EXCEPT ![h] = it, ![other] = NoCell]

\* Mutation: the strategy is used after _pool_impl was overwritten.
MoveAssign_LateStrategy(h, other) ==
    /\ {h, other} \subseteq alive
    /\ UseStrategyAt(pool_impl[other], h)
    /\ TakeOver(h, other)
    /\ use_strategy' = [use_strategy EXCEPT ![h] = use_strategy[other]]
    /\ UNCHANGED <<alive, chosen, open>>

\* Mutation: the strategy of the old cell is kept for the new one.
MoveAssign_KeepsStrategy(h, other) ==
    /\ {h, other} \subseteq alive
    /\ UseStrategy(h)
    /\ TakeOver(h, other)
    /\ UNCHANGED <<alive, use_strategy, chosen, open>>

MoveAssign(h, other) ==
    /\ {h, other} \subseteq alive
    /\ UseStrategy(h)
    /\ TakeOver(h, other)
    /\ use_strategy' = [use_strategy EXCEPT ![h] = use_strategy[other]]
    /\ UNCHANGED <<alive, chosen, open>>

\* ~handle; what is left of the variable is reset for its next use.
Destroy(h) ==
    /\ h \in alive
    /\ UseStrategy(h)
    /\ alive' = alive \ {h}
    /\ pool_impl' = [pool_impl EXCEPT ![h] = NoPool]
    /\ use_strategy' = [use_strategy EXCEPT ![h] = "indeterminate"]
    /\ resource_it' = [resource_it EXCEPT ![h] = NoCell]
    /\ UNCHANGED <<chosen, open>>

\* The pool object goes away; its handles keep the pool_impl.
ClosePool(p) ==
    /\ p \in open
    /\ open' = open \ {p}
    /\ UNCHANGED <<alive, handleVars, cell, chosen>>

--------------------------------------------------------------------------------

Next ==
    \/ \E h \in Handles :
        \/ Construct(h)
        \/ \E p \in Pools, c \in Cells, s \in Strategies : Get(h, p, c, s)
        \/ \E other \in Handles : MoveConstruct(h, other) \/ MoveAssign(h, other)
        \/ \E s \in Strategies : GiveBack(h, s)
        \/ Destroy(h)
    \/ \E p \in Pools : ClosePool(p)

Spec == Init /\ [][Next]_vars

--------------------------------------------------------------------------------
(* Properties *)

TypeOK ==
    /\ alive \subseteq Handles
    /\ pool_impl \in [Handles -> Pools \cup {NoPool}]
    /\ use_strategy \in [Handles -> Strategies \cup {"indeterminate"}]
    /\ resource_it \in [Handles -> Cells \cup {NoCell}]
    /\ cell \in [Pools -> [Cells -> Strategies \cup {"leased"}]]
    /\ chosen \in [Pools -> [Cells -> Strategies]]
    /\ open \subseteq Pools

Holds(h, p, c) == h \in alive /\ pool_impl[h] = p /\ resource_it[h] = c

\* However handles are moved, assigned (to themselves too), emptied and
\* destroyed, a leased cell is held by exactly one of them, which still has
\* the pool_impl it came from, and a handle holds leased cells only: no cell
\* is leaked, returned twice or returned to another pool (handle.hpp: the move
\* constructor, operator=, recycle, waste, ~handle).
LeasedHeldOnce ==
    /\ \A h \in alive : ~unusable(h) =>
        pool_impl[h] \in Pools /\ cell[pool_impl[h]][resource_it[h]] = "leased"
    /\ \A p \in Pools, c \in Cells : cell[p][c] = "leased" =>
        \E h \in alive : \A g \in Handles : Holds(g, p, c) <=> g = h

\* The destructor of whichever handle holds a cell in the end does what the
\* caller of get_auto_recycle or get_auto_waste asked for; it never jumps
\* through the indeterminate pointer of a default-constructed handle
\* (handle.hpp: _use_strategy).
StrategyTravels ==
    \A h \in alive : ~unusable(h) => use_strategy[h] = chosen[pool_impl[h]][resource_it[h]]
================================================================================
