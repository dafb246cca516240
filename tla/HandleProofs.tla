----------------------------- MODULE HandleProofs -----------------------------
(***************************************************************************)
(* Every leased cell has exactly one handle, for any number of handles,    *)
(* pools and cells.                                                        *)
(***************************************************************************)
EXTENDS Handle, TLAPS

(* Ownership without "exactly one": held cells are leased, no two handles
   hold the same cell, and leased cells are held. *)

HeldAreLeased ==
    \A h \in alive : ~unusable(h) =>
        pool_impl[h] \in Pools /\ cell[pool_impl[h]][resource_it[h]] = "leased"

HeldOnce ==
    \A g, h \in alive :
        ~unusable(g) /\ pool_impl[g] = pool_impl[h] /\ resource_it[g] = resource_it[h] => g = h

LeasedAreHeld ==
    \A p \in Pools, c \in Cells : cell[p][c] = "leased" => \E h \in alive : Holds(h, p, c)

\* Construct writes nothing into its variable, which must not hold a cell.
DeadHoldNothing == \A h \in Handles \ alive : unusable(h)

Inv ==
    /\ TypeOK
    /\ HeldAreLeased
    /\ HeldOnce
    /\ LeasedAreHeld
    /\ StrategyTravels
    /\ DeadHoldNothing

LEMMA OwnershipForm ==
    ASSUME TypeOK
    PROVE  LeasedHeldOnce <=> HeldAreLeased /\ HeldOnce /\ LeasedAreHeld
<1>1. LeasedHeldOnce => HeldAreLeased /\ LeasedAreHeld
  <2>1. LeasedHeldOnce => HeldAreLeased
    BY DEF LeasedHeldOnce, HeldAreLeased
  <2>2. LeasedHeldOnce => LeasedAreHeld
    BY DEF LeasedHeldOnce, LeasedAreHeld, TypeOK
  <2> QED
    BY <2>1, <2>2
<1>2. LeasedHeldOnce => HeldOnce
  <2> SUFFICES ASSUME LeasedHeldOnce, NEW g \in alive, NEW h \in alive, ~unusable(g),
                      pool_impl[g] = pool_impl[h], resource_it[g] = resource_it[h]
               PROVE  g = h
    BY DEF HeldOnce
  <2> DEFINE p == pool_impl[g] c == resource_it[g]
  <2>1. p \in Pools /\ c \in Cells /\ cell[p][c] = "leased"
    BY DEF LeasedHeldOnce, unusable, TypeOK
  <2>2. PICK k \in alive : \A x \in Handles : Holds(x, p, c) <=> x = k
    BY <2>1 DEF LeasedHeldOnce
  <2>3. Holds(g, p, c) /\ Holds(h, p, c) /\ g \in Handles /\ h \in Handles
    BY DEF Holds, TypeOK
  <2> QED
    BY <2>2, <2>3
<1>3. HeldAreLeased /\ HeldOnce /\ LeasedAreHeld => LeasedHeldOnce
  <2> SUFFICES ASSUME HeldOnce, LeasedAreHeld, NEW p \in Pools, NEW c \in Cells,
                      cell[p][c] = "leased"
               PROVE  \E h \in alive : \A g \in Handles : Holds(g, p, c) <=> g = h
    BY DEF LeasedHeldOnce, HeldAreLeased
  <2>1. PICK h \in alive : Holds(h, p, c)
    BY DEF LeasedAreHeld
  <2>2. ~unusable(h)
    BY <2>1, HandleAssumption DEF Holds, unusable
  <2>3. \A g \in Handles : Holds(g, p, c) => g = h
    BY <2>1, <2>2 DEF Holds, HeldOnce, unusable
  <2> QED
    BY <2>1, <2>3
<1> QED
  BY <1>1, <1>2, <1>3

--------------------------------------------------------------------------------
(* One lemma per action. *)

LEMMA ConstructStep ==
    ASSUME Inv, NEW h \in Handles, Construct(h)
    PROVE  Inv'
  BY DEF Inv, Construct, handleVars, TypeOK, HeldAreLeased, HeldOnce, LeasedAreHeld,
         StrategyTravels, DeadHoldNothing, Holds, unusable

LEMMA GetStep ==
    ASSUME Inv, NEW h \in Handles, NEW p \in Pools, NEW c \in Cells, NEW s \in Strategies,
           Get(h, p, c, s)
    PROVE  Inv'
<1> USE DEF Inv
<1>1. TypeOK'
  BY DEF Get, TypeOK
<1>2. HeldAreLeased' /\ DeadHoldNothing'
  BY DEF Get, TypeOK, HeldAreLeased, DeadHoldNothing, unusable
<1>3. HeldOnce'
  BY DEF Get, TypeOK, HeldAreLeased, HeldOnce, unusable
<1>4. LeasedAreHeld'
  BY DEF Get, TypeOK, LeasedAreHeld, Holds
<1>5. StrategyTravels'
  BY DEF Get, TypeOK, HeldAreLeased, StrategyTravels, unusable
<1> QED
  BY <1>1, <1>2, <1>3, <1>4, <1>5

LEMMA MoveConstructStep ==
    ASSUME Inv, NEW h \in Handles, NEW other \in Handles, MoveConstruct(h, other)
    PROVE  Inv'
<1> USE DEF Inv
<1>1. TypeOK'
  BY DEF MoveConstruct, TypeOK
<1>2. HeldAreLeased' /\ DeadHoldNothing' /\ StrategyTravels'
  BY DEF MoveConstruct, TypeOK, HeldAreLeased, DeadHoldNothing, StrategyTravels, unusable
<1>3. HeldOnce'
  BY DEF MoveConstruct, TypeOK, HeldOnce, unusable
<1>4. LeasedAreHeld'
  BY DEF MoveConstruct, TypeOK, LeasedAreHeld, Holds
<1> QED
  BY <1>1, <1>2, <1>3, <1>4

(* A step that ends the lease of h's cell, and of no other. *)
OnlyCellOf(h) ==
    /\ h \in Handles /\ pool_impl[h] \in Pools /\ resource_it[h] \in Cells
    /\ cell' \in [Pools -> [Cells -> Strategies \cup {"leased"}]]
    /\ \A p \in Pools, c \in Cells :
           cell'[p][c] = "leased" <=>
               cell[p][c] = "leased" /\ ~(p = pool_impl[h] /\ c = resource_it[h])
    /\ \A g \in alive : g # h /\ ~unusable(g) =>
           ~(pool_impl[g] = pool_impl[h] /\ resource_it[g] = resource_it[h])

\* A cell that its only handle gives back is no longer leased, and nothing
\* else changes for the other cells.
LEMMA ReturnedCell ==
    ASSUME Inv, NEW h \in alive, ~unusable(h), NEW strategy \in Strategies,
           cell' = [cell EXCEPT ![pool_impl[h]][resource_it[h]] = strategy]
    PROVE  OnlyCellOf(h)
<1>1. h \in Handles /\ pool_impl[h] \in Pools /\ resource_it[h] \in Cells
  BY DEF Inv, TypeOK, HeldAreLeased, unusable
<1>2. strategy # "leased"
  BY DEF Strategies
<1>3. cell \in [Pools -> [Cells -> Strategies \cup {"leased"}]]
  BY DEF Inv, TypeOK
<1>4. \A g \in alive : g # h /\ ~unusable(g) =>
          ~(pool_impl[g] = pool_impl[h] /\ resource_it[g] = resource_it[h])
  BY DEF Inv, HeldOnce
<1> QED
  BY <1>1, <1>2, <1>3, <1>4 DEF OnlyCellOf

LEMMA GiveBackStep ==
    ASSUME Inv, NEW h \in Handles, NEW s \in Strategies, GiveBack(h, s)
    PROVE  Inv'
<1>0. /\ h \in alive /\ ~unusable(h)
      /\ cell' = [cell EXCEPT ![pool_impl[h]][resource_it[h]] = s]
  BY DEF GiveBack
<1>r. OnlyCellOf(h)
  BY <1>0, ReturnedCell
<1> USE DEF Inv
<1>1. TypeOK'
  BY <1>0, <1>r DEF OnlyCellOf, GiveBack, TypeOK
<1>2. HeldAreLeased'
  BY <1>0, <1>r DEF OnlyCellOf, GiveBack, TypeOK, HeldAreLeased, unusable
<1>3. HeldOnce' /\ DeadHoldNothing' /\ StrategyTravels'
  BY <1>0 DEF GiveBack, TypeOK, HeldOnce, DeadHoldNothing, StrategyTravels, unusable
<1>4. LeasedAreHeld'
  BY <1>0, <1>r DEF OnlyCellOf, GiveBack, TypeOK, LeasedAreHeld, Holds
<1> QED
  BY <1>1, <1>2, <1>3, <1>4

\* A handle's own strategy is one of the two, when it is used.
LEMMA StrategyKnown ==
    ASSUME Inv, NEW h \in alive, ~unusable(h)
    PROVE  use_strategy[h] \in Strategies
  BY DEF Inv, TypeOK, HeldAreLeased, StrategyTravels, unusable

\* Assigning to h is giving its cell back, then taking over the other's.
LEMMA MoveAssignStep ==
    ASSUME Inv, NEW h \in Handles, NEW other \in Handles, MoveAssign(h, other)
    PROVE  Inv'
<1> USE DEF Inv
<1>0. h \in alive /\ other \in alive
  BY DEF MoveAssign
<1>1. CASE unusable(h)
  <2>0. UNCHANGED cell
    BY <1>1 DEF MoveAssign, UseStrategy, UseStrategyAt
  <2>1. TypeOK'
    BY <1>0, <2>0, <1>1 DEF MoveAssign, TakeOver, TypeOK
  <2>2. HeldAreLeased' /\ DeadHoldNothing' /\ StrategyTravels'
    BY <1>0, <2>0, <1>1 DEF MoveAssign, TakeOver, TypeOK, HeldAreLeased, DeadHoldNothing,
                            StrategyTravels, unusable
  <2>3. HeldOnce'
    BY <1>0, <2>0, <1>1 DEF MoveAssign, TakeOver, TypeOK, HeldOnce, unusable
  <2>4. LeasedAreHeld'
    BY <1>0, <2>0, <1>1, HandleAssumption DEF MoveAssign, TakeOver, TypeOK, LeasedAreHeld, Holds, unusable
  <2> QED
    BY <2>1, <2>2, <2>3, <2>4
<1>2. CASE ~unusable(h)
  <2>0. /\ use_strategy[h] \in Strategies
        /\ cell' = [cell EXCEPT ![pool_impl[h]][resource_it[h]] = use_strategy[h]]
    BY <1>0, <1>2, StrategyKnown DEF MoveAssign, UseStrategy, UseStrategyAt
  <2>r. OnlyCellOf(h)
    BY <1>0, <1>2, <2>0, ReturnedCell
  <2>1. TypeOK'
    BY <1>0, <1>2, <2>r DEF OnlyCellOf, MoveAssign, TakeOver, TypeOK
  <2>2. HeldAreLeased'
    BY <1>0, <1>2, <2>r DEF OnlyCellOf, MoveAssign, TakeOver, TypeOK, HeldAreLeased, unusable
  <2>3. DeadHoldNothing' /\ StrategyTravels'
    BY <1>0, <1>2 DEF MoveAssign, TakeOver, TypeOK, DeadHoldNothing, StrategyTravels, unusable
  <2>4. HeldOnce'
    BY <1>0, <1>2 DEF MoveAssign, TakeOver, TypeOK, HeldOnce, unusable
  <2>5. LeasedAreHeld'
    BY <1>0, <1>2, <2>r DEF OnlyCellOf, MoveAssign, TakeOver, TypeOK, LeasedAreHeld, Holds
  <2> QED
    BY <2>1, <2>2, <2>3, <2>4, <2>5
<1> QED
  BY <1>1, <1>2

LEMMA DestroyStep ==
    ASSUME Inv, NEW h \in Handles, Destroy(h)
    PROVE  Inv'
<1> USE DEF Inv
<1>0. h \in alive
  BY DEF Destroy
<1>1. CASE unusable(h)
  BY <1>0, <1>1, HandleAssumption
     DEF Destroy, UseStrategy, UseStrategyAt, TypeOK, HeldAreLeased, HeldOnce, LeasedAreHeld,
         StrategyTravels, DeadHoldNothing, Holds, unusable
<1>2. CASE ~unusable(h)
  <2>0. /\ use_strategy[h] \in Strategies
        /\ cell' = [cell EXCEPT ![pool_impl[h]][resource_it[h]] = use_strategy[h]]
    BY <1>0, <1>2, StrategyKnown DEF Destroy, UseStrategy, UseStrategyAt
  <2>r. OnlyCellOf(h)
    BY <1>0, <1>2, <2>0, ReturnedCell
  <2>1. TypeOK'
    BY <1>0, <1>2, <2>r DEF OnlyCellOf, Destroy, TypeOK
  <2>2. HeldAreLeased'
    BY <1>0, <1>2, <2>r DEF OnlyCellOf, Destroy, TypeOK, HeldAreLeased, unusable
  <2>3. HeldOnce' /\ DeadHoldNothing' /\ StrategyTravels'
    BY <1>0, <1>2 DEF Destroy, TypeOK, HeldOnce, DeadHoldNothing, StrategyTravels, unusable
  <2>4. LeasedAreHeld'
    BY <1>0, <1>2, <2>r DEF OnlyCellOf, Destroy, TypeOK, LeasedAreHeld, Holds
  <2> QED
    BY <2>1, <2>2, <2>3, <2>4
<1> QED
  BY <1>1, <1>2

LEMMA ClosePoolStep ==
    ASSUME Inv, NEW p \in Pools, ClosePool(p)
    PROVE  Inv'
  BY DEF Inv, ClosePool, handleVars, TypeOK, HeldAreLeased, HeldOnce, LeasedAreHeld,
         StrategyTravels, DeadHoldNothing, Holds, unusable

--------------------------------------------------------------------------------

LEMMA InitHolds == Init => Inv
  BY DEF Init, Inv, TypeOK, HeldAreLeased, HeldOnce, LeasedAreHeld, StrategyTravels,
         DeadHoldNothing, unusable, Strategies

LEMMA NextHolds == Inv /\ [Next]_vars => Inv'
<1> SUFFICES ASSUME Inv, [Next]_vars PROVE Inv'
  OBVIOUS
<1>1. CASE Next
  BY <1>1, ConstructStep, GetStep, MoveConstructStep, MoveAssignStep, GiveBackStep, DestroyStep,
     ClosePoolStep DEF Next
<1>2. CASE UNCHANGED vars
  BY <1>2 DEF vars, handleVars, Inv, TypeOK, HeldAreLeased, HeldOnce, LeasedAreHeld,
              StrategyTravels, DeadHoldNothing, Holds, unusable
<1> QED
  BY <1>1, <1>2

LEMMA InvAlways == Spec => []Inv
  BY InitHolds, NextHolds, PTL DEF Spec

\* The types of the model; in particular no cell is ever returned through an
\* indeterminate strategy (handle.hpp).
THEOREM HandleTypes == Spec => []TypeOK
<1>1. Inv => TypeOK
  BY DEF Inv
<1> QED
  BY <1>1, InvAlways, PTL

\* However handles are moved, assigned, emptied and destroyed, every leased
\* cell is held by exactly one handle of its own pool, for any number of
\* handles, pools and cells (handle.hpp).
THEOREM HandleOwnership == Spec => []LeasedHeldOnce
<1>1. Inv => LeasedHeldOnce
  BY OwnershipForm DEF Inv
<1> QED
  BY <1>1, InvAlways, PTL

\* The strategy named at get travels with the cell to the handle whose
\* destructor uses it (handle.hpp: _use_strategy).
THEOREM HandleStrategy == Spec => []StrategyTravels
<1>1. Inv => StrategyTravels
  BY DEF Inv
<1> QED
  BY <1>1, InvAlways, PTL
================================================================================
