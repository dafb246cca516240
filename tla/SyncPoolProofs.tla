----------------------------- MODULE SyncPoolProofs -----------------------------
(***************************************************************************)
(* The synchronous pool uses its storage as the storage's specification    *)
(* allows and shares no cell between threads, for every number of threads  *)
(* and cells, every wait duration and either kind of standard library.     *)
(***************************************************************************)
EXTENDS SyncPool, StorageProofs

SyncInv ==
    /\ StorageInv
    /\ PoolTypes
    /\ HandlesFitAnswers
    /\ EveryUsedCellOwnedOnce

\* The ownership of cells without sets of owners, for the provers.
LEMMA OwnershipForm ==
    EveryUsedCellOwnedOnce <=>
        /\ \A cell \in Cells : cell \in used <=> \E t \in Threads : handle[t] = cell
        /\ \A t, u \in Threads : handle[t] \in Cells /\ handle[t] = handle[u] => t = u
<1> DEFINE owners(cell) == {t \in Threads : handle[t] = cell}
<1>1. EveryUsedCellOwnedOnce <=>
        \A cell \in Cells : \/ cell \in used /\ \E t \in owners(cell) : owners(cell) = {t}
                            \/ cell \notin used /\ owners(cell) = {}
  BY DEF EveryUsedCellOwnedOnce
<1>2. ASSUME EveryUsedCellOwnedOnce
      PROVE  /\ \A cell \in Cells : cell \in used <=> \E t \in Threads : handle[t] = cell
             /\ \A t, u \in Threads : handle[t] \in Cells /\ handle[t] = handle[u] => t = u
  <2>1. ASSUME NEW cell \in Cells
        PROVE  cell \in used <=> \E t \in Threads : handle[t] = cell
    BY <1>1, <1>2
  <2>2. ASSUME NEW t \in Threads, NEW u \in Threads, handle[t] \in Cells, handle[t] = handle[u]
        PROVE  t = u
    <3>1. t \in owners(handle[t]) /\ u \in owners(handle[t])
      BY <2>2
    <3>2. PICK x \in owners(handle[t]) : owners(handle[t]) = {x}
      BY <3>1, <2>2, <1>1, <1>2
    <3> QED BY <3>1, <3>2
  <2> QED BY <2>1, <2>2
<1>3. ASSUME \A cell \in Cells : cell \in used <=> \E t \in Threads : handle[t] = cell,
             \A t, u \in Threads : handle[t] \in Cells /\ handle[t] = handle[u] => t = u
      PROVE  EveryUsedCellOwnedOnce
  <2> SUFFICES ASSUME NEW cell \in Cells
               PROVE  \/ cell \in used /\ \E t \in owners(cell) : owners(cell) = {t}
                      \/ cell \notin used /\ owners(cell) = {}
    BY <1>1
  <2>1. CASE cell \in used
    <3>1. PICK t \in Threads : handle[t] = cell
      BY <2>1, <1>3
    <3>2. \A u \in owners(cell) : u = t
      BY <3>1, <1>3
    <3>3. t \in owners(cell) /\ owners(cell) = {t}
      BY <3>1, <3>2
    <3> QED BY <2>1, <3>3
  <2>2. CASE cell \notin used
    BY <2>2, <1>3
  <2> QED BY <2>1, <2>2
<1> QED BY <1>2, <1>3

\* An unusable handle and the handle of a failed get refer to no cell, and they
\* differ.
LEMMA NoCellIsNoCell == NoCell \notin Cells /\ Singular \notin Cells /\ NoCell # Singular
  BY StorageAssumption DEF NoCell, Singular, Cells

\* The instant until which wait_for sleeps is representable on either library.
LEMMA WaitUntilType ==
    ASSUME PoolTypes, NEW d \in WaitDurations \cup {0}
    PROVE  WaitUntil(d) \in TimePoint
<1>1. now \in 0..MaxNow /\ d \in Duration
  BY TimeMaxAssumption, WaitAssumption DEF PoolTypes, StorageTypeOK, Duration, TimeMin
<1> QED BY <1>1, TimeMaxAssumption, ClockAssumption
        DEF WaitUntil, Wrap, Saturate, TimePoint, Duration, TimeMin

\* The same after a step.
LEMMA OwnershipFormNext ==
    (EveryUsedCellOwnedOnce <=>
        /\ \A cell \in Cells : cell \in used <=> \E t \in Threads : handle[t] = cell
        /\ \A t, u \in Threads : handle[t] \in Cells /\ handle[t] = handle[u] => t = u)'
  BY OwnershipForm, PTL

--------------------------------------------------------------------------------
(* Every step of the pool is a step of its storage, or none, and preserves
   the invariant. *)

StepOK == SyncInv' /\ [StorageNext]_storageVars

\* A step that leaves used_ and the cells of the handles alone.
LEMMA QuietStep ==
    ASSUME SyncInv, [StorageNext]_storageVars, used' = used, PoolTypes', HandlesFitAnswers',
           \A t \in Threads : handle'[t] # handle[t] =>
                                handle[t] \notin Cells /\ handle'[t] \notin Cells
    PROVE  StepOK
<1>1. StorageInv'
  BY NextHolds DEF SyncInv
<1>2. /\ \A cell \in Cells : cell \in used <=> \E t \in Threads : handle[t] = cell
      /\ \A t, u \in Threads : handle[t] \in Cells /\ handle[t] = handle[u] => t = u
  BY OwnershipForm DEF SyncInv
<1>3. /\ \A cell \in Cells : cell \in used' <=> \E t \in Threads : handle'[t] = cell
      /\ \A t, u \in Threads : handle'[t] \in Cells /\ handle'[t] = handle'[u] => t = u
  BY <1>2
<1>4. EveryUsedCellOwnedOnce'
  BY <1>3, OwnershipFormNext
<1> QED BY <1>1, <1>4 DEF SyncInv, StepOK

\* A step of the storage alone.
LEMMA StorageStep ==
    ASSUME SyncInv, StorageNext, used' = used, UNCHANGED poolVars
    PROVE  StepOK
<1>1. StorageInv'
  BY NextHolds DEF SyncInv
<1>2. PoolTypes' /\ HandlesFitAnswers'
  BY <1>1 DEF SyncInv, StorageInv, PoolTypes, HandlesFitAnswers, poolVars
<1>3. handle' = handle
  BY DEF poolVars
<1> QED BY <1>2, <1>3, QuietStep

\* get gives up: the pool is disabled or the wait has timed out.
LEMMA FailStep ==
    ASSUME SyncInv, NEW t \in Threads, pc[t] \in {"idle", "awake"},
           Answer(t, "failed", Singular), UNCHANGED storageVars
    PROVE  StepOK
<1>1. handle[t] \notin Cells /\ Singular \notin Cells
  BY NoCellIsNoCell DEF SyncInv, HandlesFitAnswers
<1>2. PoolTypes'
  BY TimeMaxAssumption DEF SyncInv, PoolTypes, StorageTypeOK, storageVars, Answer, Go, Epoch, TimePoint, TimeMin
<1>3. HandlesFitAnswers'
  BY <1>1 DEF SyncInv, PoolTypes, HandlesFitAnswers, Answer, Go
<1>4. \A u \in Threads : handle'[u] # handle[u] => handle[u] \notin Cells /\ handle'[u] \notin Cells
  BY <1>1 DEF SyncInv, PoolTypes, Answer
<1> QED BY <1>2, <1>3, <1>4, QuietStep DEF storageVars

\* get leases a cell.
LEMMA GrantStep ==
    ASSUME SyncInv, NEW t \in Threads, pc[t] \in {"idle", "awake"}, TryLease(t)
    PROVE  StepOK
<1>1. PICK cell \in Cells : lease(cell) /\ Answer(t, "holding", cell)
  BY DEF TryLease
<1>2. StorageInv' /\ used' = used \cup {cell} /\ cell \notin used
  BY <1>1, LeaseStep DEF SyncInv
<1>3. handle[t] \notin Cells
  BY DEF SyncInv, HandlesFitAnswers
<1>4. \A u \in Threads : handle'[u] = IF u = t THEN cell ELSE handle[u]
  BY <1>1 DEF SyncInv, PoolTypes, Answer
<1>5. PoolTypes'
  BY <1>1, <1>2, TimeMaxAssumption
     DEF SyncInv, StorageInv, PoolTypes, Answer, Go, Epoch, TimePoint, TimeMin
<1>6. HandlesFitAnswers'
  BY <1>1, <1>4, NoCellIsNoCell DEF SyncInv, PoolTypes, HandlesFitAnswers, Answer, Go
<1>7. /\ \A c \in Cells : c \in used <=> \E u \in Threads : handle[u] = c
      /\ \A u, v \in Threads : handle[u] \in Cells /\ handle[u] = handle[v] => u = v
  BY OwnershipForm DEF SyncInv
<1>8. \A c \in Cells : c \in used' <=> \E u \in Threads : handle'[u] = c
  BY <1>2, <1>3, <1>4, <1>7
<1>9. \A u, v \in Threads : handle'[u] \in Cells /\ handle'[u] = handle'[v] => u = v
  BY <1>2, <1>4, <1>7
<1>10. EveryUsedCellOwnedOnce'
  BY <1>8, <1>9, OwnershipFormNext
<1>11. StorageNext
  BY <1>1 DEF StorageNext, Lease
<1> QED BY <1>2, <1>5, <1>6, <1>10, <1>11 DEF SyncInv, StepOK

\* get goes to sleep.
LEMMA SleepStep ==
    ASSUME SyncInv, NEW t \in Threads, pc[t] \in {"idle", "awake"},
           NEW d \in WaitDurations \cup {0}, TryWait(t, d)
    PROVE  StepOK
<1>1. WaitUntil(d) \in TimePoint
  BY WaitUntilType DEF SyncInv
<1>2. PoolTypes'
  BY <1>1 DEF SyncInv, PoolTypes, StorageTypeOK, storageVars, TryWait, Go
<1>3. HandlesFitAnswers'
  BY DEF SyncInv, PoolTypes, HandlesFitAnswers, TryWait, Go
<1>4. used' = used /\ handle' = handle /\ UNCHANGED storageVars
  BY DEF TryWait, storageVars
<1> QED BY <1>2, <1>3, <1>4, QuietStep

\* The body of the loop in get.
LEMMA TryStep ==
    ASSUME SyncInv, NEW t \in Threads, pc[t] \in {"idle", "awake"},
           NEW d \in WaitDurations \cup {0}, Try(t, d)
    PROVE  StepOK
  BY FailStep, GrantStep, SleepStep DEF Try, TryDisabled

\* Threads wake up: their sleep ends, or disable notifies them.
LEMMA WakeStep ==
    ASSUME SyncInv, NEW woken \in SUBSET Asleep, Wake(woken),
           disabled' \in BOOLEAN, UNCHANGED <<storageVars, wait, deadline, handle, crashed>>
    PROVE  StepOK
<1>1. PoolTypes'
  BY DEF SyncInv, PoolTypes, StorageTypeOK, storageVars, Wake
<1>2. HandlesFitAnswers'
  BY DEF SyncInv, PoolTypes, HandlesFitAnswers, Wake, Asleep
<1>3. used' = used /\ handle' = handle /\ UNCHANGED storageVars
  BY DEF storageVars
<1> QED BY <1>1, <1>2, <1>3, QuietStep

\* A cell goes back to the storage.
LEMMA ReturnStep ==
    ASSUME SyncInv, NEW t \in Threads, pc[t] = "holding",
           recycle(handle[t]) \/ waste(handle[t]), ReleaseAndNotify(t)
    PROVE  StepOK
<1>1. /\ \A c \in Cells : c \in used <=> \E u \in Threads : handle[u] = c
      /\ \A u, v \in Threads : handle[u] \in Cells /\ handle[u] = handle[v] => u = v
  BY OwnershipForm DEF SyncInv
<1>2. handle[t] \in Cells /\ handle[t] \in used
  BY <1>1 DEF SyncInv, HandlesFitAnswers
<1>3. StorageNext
  BY <1>2 DEF StorageNext, Recycle, Waste
<1>4. StorageInv'
  BY <1>3, NextHolds DEF SyncInv
<1>5. used' = used \ {handle[t]}
  BY DEF recycle, waste, Park
<1>6. \A u \in Threads : handle'[u] = IF u = t THEN NoCell ELSE handle[u]
  BY DEF SyncInv, PoolTypes, ReleaseAndNotify
<1>7. PICK woken \in SUBSET Asleep : WakeAndGo(woken, t, "idle")
  BY DEF ReleaseAndNotify
<1>8. \A u \in Threads : pc'[u] = IF u = t THEN "idle" ELSE IF u \in woken THEN "awake" ELSE pc[u]
  BY <1>7 DEF WakeAndGo
<1>9. PoolTypes'
  BY <1>4, <1>7 DEF SyncInv, StorageInv, PoolTypes, ReleaseAndNotify, WakeAndGo
<1>10. HandlesFitAnswers'
  BY <1>6, <1>8, NoCellIsNoCell DEF SyncInv, HandlesFitAnswers, Asleep
<1>11. \A c \in Cells : c \in used' <=> \E u \in Threads : handle'[u] = c
  BY <1>1, <1>2, <1>5, <1>6, NoCellIsNoCell
<1>12. \A u, v \in Threads : handle'[u] \in Cells /\ handle'[u] = handle'[v] => u = v
  BY <1>1, <1>6, NoCellIsNoCell
<1>13. EveryUsedCellOwnedOnce'
  BY <1>11, <1>12, OwnershipFormNext
<1> QED BY <1>3, <1>4, <1>9, <1>10, <1>13 DEF SyncInv, StepOK

\* A new pool: nothing is leased and nobody has a handle.
LEMMA SyncInitHolds == Init => SyncInv
<1> SUFFICES ASSUME Init PROVE SyncInv
  OBVIOUS
<1>1. StorageInv
  BY InitHolds DEF Init
<1>2. PoolTypes
  <2>1. Epoch \in TimePoint
    BY TimeMaxAssumption DEF Epoch, TimePoint, TimeMin
  <2>2. disabled \in BOOLEAN /\ crashed \in BOOLEAN
    BY DEF Init
  <2> QED BY <1>1, <2>1, <2>2 DEF Init, StorageInv, PoolTypes
<1>3. HandlesFitAnswers
  BY NoCellIsNoCell DEF Init, HandlesFitAnswers
<1>4. used = {}
  BY DEF Init, StorageInit
<1>5. EveryUsedCellOwnedOnce
  BY <1>4, NoCellIsNoCell, OwnershipForm DEF Init
<1> QED BY <1>1, <1>2, <1>3, <1>5 DEF SyncInv

\* Every action of every thread, and disable, invalidate and the clock.
LEMMA SyncNextHolds == SyncInv /\ [Next]_vars => StepOK
<1> SUFFICES ASSUME SyncInv, [Next]_vars PROVE StepOK
  OBVIOUS
<1>1. ASSUME NEW t \in Threads, Get(t) PROVE StepOK
  BY <1>1, TryStep DEF Get
<1>2. ASSUME NEW t \in Threads, Retry(t) PROVE StepOK
  <2>1. wait[t] \in WaitDurations \cup {0}
    BY DEF SyncInv, PoolTypes
  <2> QED BY <1>2, <2>1, TryStep DEF Retry
<1>3. ASSUME NEW t \in Threads, TimeOut(t) PROVE StepOK
  BY <1>3, FailStep DEF TimeOut
<1>4. ASSUME NEW t \in Threads, SleepEnds(t) \/ WakesSpuriously(t) PROVE StepOK
  <2>1. {t} \in SUBSET Asleep /\ Wake({t}) /\ disabled' \in BOOLEAN
    BY <1>4 DEF SleepEnds, WakesSpuriously, SyncInv, PoolTypes
  <2> QED BY <1>4, <2>1, WakeStep DEF SleepEnds, WakesSpuriously
<1>5. ASSUME NEW t \in Threads, HandleReset(t) PROVE StepOK
  <2>1. handle[t] \in used
    BY <1>5, OwnershipForm DEF HandleReset, SyncInv, HandlesFitAnswers
  <2>2. StorageNext /\ used' = used /\ UNCHANGED poolVars
    BY <1>5, <2>1 DEF HandleReset, StorageNext, Reset, reset
  <2> QED BY <2>2, StorageStep
<1>6. ASSUME NEW t \in Threads, Recycling(t) \/ Wasting(t) PROVE StepOK
  BY <1>6, ReturnStep DEF Recycling, Wasting
<1>7. ASSUME NEW t \in Threads, DropFailed(t) PROVE StepOK
  <2>1. PoolTypes' /\ HandlesFitAnswers'
    BY <1>7 DEF DropFailed, SyncInv, PoolTypes, StorageTypeOK, storageVars, HandlesFitAnswers
  <2>2. used' = used /\ handle' = handle /\ UNCHANGED storageVars
    BY <1>7 DEF DropFailed, storageVars
  <2> QED BY <2>1, <2>2, QuietStep
<1>8. CASE Disable
  <2>1. Asleep \in SUBSET Asleep /\ Wake(Asleep) /\ disabled' \in BOOLEAN
    BY <1>8 DEF Disable
  <2> QED BY <1>8, <2>1, WakeStep DEF Disable
<1>9. CASE PoolInvalidate
  <2>1. StorageNext /\ used' = used /\ UNCHANGED poolVars
    BY <1>9 DEF PoolInvalidate, StorageNext, Invalidate, invalidate
  <2> QED BY <2>1, StorageStep
<1>10. CASE PoolTick
  <2>1. StorageNext /\ used' = used /\ UNCHANGED poolVars
    BY <1>10 DEF PoolTick, StorageNext, Tick
  <2> QED BY <2>1, StorageStep
<1>11. CASE UNCHANGED vars
  <2>1. PoolTypes' /\ HandlesFitAnswers'
    BY <1>11 DEF vars, poolVars, SyncInv, PoolTypes, StorageTypeOK, storageVars, HandlesFitAnswers
  <2>2. used' = used /\ handle' = handle /\ UNCHANGED storageVars
    BY <1>11 DEF vars, poolVars, storageVars
  <2> QED BY <2>1, <2>2, QuietStep
<1> QED BY <1>1, <1>2, <1>3, <1>4, <1>5, <1>6, <1>7, <1>8, <1>9, <1>10, <1>11 DEF Next

\* The inductive invariant: types, the storage's invariant, handles with a cell
\* exactly while they are held, and the ownership of cells.
THEOREM SyncInvariant == Spec => []SyncInv
<1>1. StepOK => SyncInv'
  BY DEF StepOK
<1> QED BY <1>1, SyncInitHolds, SyncNextHolds, PTL DEF Spec

\* The states of the threads, their waits and their handles keep their types,
\* and get returns a cell with every answer that is no error and with no other
\* (sync/detail/pool_impl.hpp: get, recycle, waste, disable; handle.hpp).
THEOREM SyncTypes == Spec => []TypeOK
<1>1. SyncInv => TypeOK
  BY DEF SyncInv, TypeOK
<1> QED BY <1>1, SyncInvariant, PTL

\* No two threads ever share a cell and none leaks, however calls of get,
\* timeouts, disable, invalidate and the returns of cells interleave
\* (sync/detail/pool_impl.hpp: get, recycle, waste; handle.hpp).
THEOREM SyncOwnership == Spec => []EveryUsedCellOwnedOnce
<1>1. SyncInv => EveryUsedCellOwnedOnce
  BY DEF SyncInv
<1> QED BY <1>1, SyncInvariant, PTL

\* The pool implements its storage: threads return and write to leased cells
\* only, so what is proved of the storage holds in the pool
\* (sync/detail/pool_impl.hpp: the calls of storage_).
THEOREM SyncImplementsStorage == Spec => StorageSpec
<1>1. Init => StorageInit
  BY DEF Init
<1>2. StepOK => [StorageNext]_storageVars
  BY DEF StepOK
<1> QED BY <1>1, <1>2, SyncInvariant, SyncNextHolds, PTL DEF Spec, StorageSpec

\* What the storage promises holds while threads use it through the pool: no
\* cell is lost or shared, no invalidated resource comes back into available_,
\* and every lease is fresh and unmarked (storage.hpp: lease, recycle, waste,
\* invalidate; sync/detail/pool_impl.hpp: get, recycle, waste, invalidate).
THEOREM SyncStorageHolds ==
    Spec => /\ []CellsPartitioned /\ []WastedHoldNothing /\ []InvalidatedNeverReturn
            /\ LeaseHandsOutFresh /\ LeasedUnmarked
<1> QED BY SyncImplementsStorage, PartitionCorrect, WastedEmpty, InvalidationCorrect,
           LeaseFreshCorrect, LeaseUnmarkedCorrect, PTL
================================================================================
