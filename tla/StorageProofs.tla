----------------------------- MODULE StorageProofs -----------------------------
(***************************************************************************)
(* What storage guarantees to callers that return only leased cells, for   *)
(* every capacity, idle timeout, lifespan and clock width.                 *)
(***************************************************************************)
EXTENDS Storage, ListFacts, TimeTraitsProofs

\* The clock stays within the representable range, and so do the dates of a
\* resource that is put into a cell now.
LEMMA NowType ==
    ASSUME StorageTypeOK
    PROVE  /\ now \in TimePoint
           /\ NewResource \in Resource
           /\ NewResource # NoValue
           /\ NewResource.born = now
           /\ NewResource.rested = now
           /\ NewResource.generation = generation
<1>1. now \in TimePoint
  BY TimeMaxAssumption, ClockAssumption, StorageAssumption DEF StorageTypeOK, TimePoint, TimeMin
<1>2. generation \in Nat
  BY StorageAssumption DEF StorageTypeOK
<1>3. NewResource \in Resource
  BY <1>1, <1>2 DEF NewResource, Resource
<1> QED BY <1>1, <1>3, StorageAssumption DEF NewResource

--------------------------------------------------------------------------------
(* Every member function preserves the invariant. *)

LEMMA WasteStep ==
    ASSUME StorageInv, NEW c \in used, waste(c)
    PROVE  StorageInv'
<1> USE DEF StorageInv
<1>0. c \in Cells /\ c \notin Range(available) /\ c \notin Range(wasted)
  BY DEF StorageTypeOK, CellsPartitioned
<1>1. /\ wasted' \in Seq(Cells)
      /\ Range(wasted') = Range(wasted) \cup {c}
      /\ IsInjective(wasted')
  BY <1>0, AppendRange DEF waste, StorageTypeOK, CellsPartitioned
<1>2. \A x \in Cells : value'[x] = IF x = c THEN NoValue ELSE value[x]
  BY DEF waste, StorageTypeOK
<1>3. StorageTypeOK'
  BY <1>1 DEF waste, StorageTypeOK
<1>4. CellsPartitioned'
  BY <1>0, <1>1 DEF waste, CellsPartitioned
<1>5. WastedHoldNothing'
  BY <1>0, <1>1, <1>2 DEF WastedHoldNothing, StorageTypeOK, CellsPartitioned
<1>6. InvalidatedNeverReturn'
  BY <1>2 DEF waste, InvalidatedNeverReturn
<1>7. AvailableUnmarked'
  BY DEF waste, AvailableUnmarked
<1>8. Dated'
  BY <1>2 DEF waste, Dated
<1>9. DropBounded'
  <2>1. \A x \in Range(available) : x \in Cells
    BY DEF CellsPartitioned
  <2> QED BY <2>1, <1>2, <1>0 DEF waste, DropBounded
<1> QED BY <1>3, <1>4, <1>5, <1>6, <1>7, <1>8, <1>9

LEMMA ParkStep ==
    ASSUME StorageInv, NEW c \in used, is_valid(c), Park(c)
    PROVE  StorageInv'
<1> USE DEF StorageInv
<1>0. c \in Cells /\ c \notin Range(available) /\ c \notin Range(wasted)
  BY DEF StorageTypeOK, CellsPartitioned
<1>1. /\ available' \in Seq(Cells)
      /\ Range(available') = Range(available) \cup {c}
      /\ IsInjective(available')
  BY <1>0, AppendRange DEF Park, StorageTypeOK, CellsPartitioned
<1>2. \A x \in Cells : value'[x] = IF x = c THEN Rest(value[x]) ELSE value[x]
  BY DEF Park, StorageTypeOK
<1>3. /\ Rest(value[c]) \in Resource \cup {NoValue}
      /\ Rest(value[c]) = NoValue <=> value[c] = NoValue
      /\ value[c] # NoValue =>
            /\ Rest(value[c]).born = value[c].born
            /\ Rest(value[c]).generation = value[c].generation
            /\ Rest(value[c]).rested = now
  <2>1. value[c] \in Resource \cup {NoValue}
    BY <1>0 DEF StorageTypeOK
  <2>2. CASE value[c] = NoValue
    BY <2>2 DEF Rest
  <2>3. CASE value[c] # NoValue
    <3>1. value[c] \in Resource /\ Rest(value[c]) = [value[c] EXCEPT !.rested = now]
      BY <2>1, <2>3 DEF Rest
    <3>2. Rest(value[c]) \in Resource
      BY <3>1, NowType DEF Resource
    <3> QED BY <3>1, <3>2, <2>3, StorageAssumption DEF Resource
  <2> QED BY <2>2, <2>3
<1>4. /\ LifeEnd(c) \in TimePoint
      /\ Add(now, IdleTimeout) \in TimePoint
      /\ reset_time[c] \in TimePoint
  BY <1>0, AddType, NowType, StorageAssumption DEF StorageTypeOK, LifeEnd
<1>5. /\ \A x \in Cells : x # c => drop_time'[x] = drop_time[x]
      /\ drop_time'[c] \in TimePoint
      /\ drop_time'[c] <= Add(now, IdleTimeout)
      /\ drop_time'[c] <= LifeEnd(c)
  BY <1>0, <1>4, MinTimeBound DEF Park, StorageTypeOK
<1>6. StorageTypeOK'
  <2>1. value' \in [Cells -> Resource \cup {NoValue}]
    BY <1>0, <1>3 DEF Park, StorageTypeOK
  <2>2. drop_time' \in [Cells -> TimePoint]
    BY <1>0, <1>5 DEF Park, StorageTypeOK
  <2> QED BY <1>1, <2>1, <2>2 DEF Park, StorageTypeOK
<1>7. CellsPartitioned'
  BY <1>0, <1>1 DEF Park, CellsPartitioned
<1>8. WastedHoldNothing'
  BY <1>0, <1>2 DEF Park, WastedHoldNothing, CellsPartitioned
<1>9. InvalidatedNeverReturn'
  <2>1. value[c] # NoValue => ~(value[c].generation < generation)
    BY <1>0 DEF InvalidatedNeverReturn, is_valid
  <2> SUFFICES ASSUME NEW x \in Cells, value'[x] # NoValue, value'[x].generation < generation
               PROVE  x \in used' /\ waste_on_recycle'[x]
    BY DEF InvalidatedNeverReturn, Park
  <2>2. x # c
    BY <2>1, <1>2, <1>3
  <2> QED BY <2>2, <1>2 DEF InvalidatedNeverReturn, Park
<1>10. AvailableUnmarked'
  BY <1>1 DEF Park, AvailableUnmarked, is_valid
<1>11. Dated'
  BY <1>2, <1>3 DEF Park, Dated
<1>12. DropBounded'
  <2> SUFFICES ASSUME NEW x \in Range(available'), value'[x] # NoValue
               PROVE  /\ drop_time'[x] <= Add(value'[x].born, Lifespan)
                      /\ drop_time'[x] <= Add(value'[x].rested, IdleTimeout)
    BY DEF DropBounded
  <2>1. x \in Cells
    BY <1>7 DEF CellsPartitioned
  <2>2. CASE x = c
    <3>1. value'[c] = Rest(value[c]) /\ value[c] # NoValue
      BY <2>1, <2>2, <1>2, <1>3
    <3>2. value'[c].born = reset_time[c] /\ value'[c].rested = now
      BY <3>1, <1>0, <1>3 DEF Dated
    <3> QED BY <3>2, <2>2, <1>5 DEF LifeEnd
  <2>3. CASE x # c
    BY <2>1, <2>3, <1>1, <1>2, <1>5 DEF DropBounded
  <2> QED BY <2>2, <2>3
<1> QED BY <1>6, <1>7, <1>8, <1>9, <1>10, <1>11, <1>12

LEMMA LeaseAvailableStep ==
    ASSUME StorageInv, NEW c \in Cells, LeaseAvailable(c)
    PROVE  /\ StorageInv'
           /\ used' = used \cup {c} /\ c \notin used
           /\ ~waste_on_recycle'[c]
           /\ value'[c] # NoValue => Fresh(value'[c])
<1> USE DEF StorageInv
<1>1. PICK k \in 0..(Len(available) - 1) :
        /\ DropsPrefix(k)
        /\ c = available[k + 1]
        /\ available' = SubSeq(available, k + 2, Len(available))
        /\ wasted' = wasted \o SubSeq(available, 1, k)
        /\ used' = used \cup {c}
        /\ value' = [x \in Cells |->
                        IF \E i \in 1..k : available[i] = x THEN NoValue ELSE value[x]]
        /\ UNCHANGED <<now, drop_time, reset_time, waste_on_recycle, generation>>
  BY DEF LeaseAvailable
<1> DEFINE front == SubSeq(available, 1, k)
<1>2. /\ front \in Seq(Cells) /\ available' \in Seq(Cells)
      /\ Range(front) = {available[i] : i \in 1..k}
      /\ Range(available) = Range(front) \cup {c} \cup Range(available')
      /\ c \notin Range(front) /\ c \notin Range(available')
      /\ Range(front) \cap Range(available') = {}
      /\ IsInjective(front) /\ IsInjective(available')
  BY <1>1, CutRange DEF StorageTypeOK, CellsPartitioned
<1>3. wasted' = wasted \o front
  BY <1>1
<1>4. \A x \in Cells : value'[x] = IF x \in Range(front) THEN NoValue ELSE value[x]
  BY <1>1, <1>2
<1> HIDE DEF front
<1>5. /\ wasted' \in Seq(Cells)
      /\ Range(wasted') = Range(wasted) \cup Range(front)
      /\ IsInjective(wasted')
  <2>1. Range(wasted) \cap Range(front) = {}
    BY <1>2 DEF CellsPartitioned
  <2> QED BY <2>1, <1>2, <1>3, ConcatRange DEF StorageTypeOK, CellsPartitioned
<1>6. c \in Range(available) /\ c \notin used /\ c \notin Range(wasted)
  BY <1>2 DEF CellsPartitioned
<1>7. StorageTypeOK'
  BY <1>1, <1>2, <1>5 DEF StorageTypeOK
<1>8. CellsPartitioned'
  BY <1>1, <1>2, <1>5, <1>6 DEF CellsPartitioned
<1>9. WastedHoldNothing'
  BY <1>4, <1>5, <1>8 DEF WastedHoldNothing, CellsPartitioned
<1>10. InvalidatedNeverReturn'
  BY <1>1, <1>4 DEF InvalidatedNeverReturn
<1>11. AvailableUnmarked'
  BY <1>1, <1>2 DEF AvailableUnmarked
<1>12. Dated'
  BY <1>1, <1>4 DEF Dated
<1>13. DropBounded'
  BY <1>1, <1>2, <1>4, <1>8 DEF DropBounded, CellsPartitioned
<1>14. ~waste_on_recycle'[c]
  BY <1>1, <1>6 DEF AvailableUnmarked
<1>15. ASSUME value'[c] # NoValue PROVE Fresh(value'[c])
  <2>1. value'[c] = value[c] /\ value[c] \in Resource
    BY <1>15, <1>2, <1>4 DEF StorageTypeOK
  <2>2. now < drop_time[c]
    <3>1. k < Len(available)
      BY LenProperties DEF StorageTypeOK
    <3>2. drop_time[c] > now
      BY <3>1, <1>1 DEF DropsPrefix
    <3>3. drop_time[c] \in TimePoint /\ now \in TimePoint
      BY NowType DEF StorageTypeOK
    <3> QED BY <3>2, <3>3, TimeMaxAssumption DEF TimePoint, TimeMin
  <2>3. /\ drop_time[c] <= Add(value[c].born, Lifespan)
        /\ drop_time[c] <= Add(value[c].rested, IdleTimeout)
    BY <1>6, <1>15, <2>1 DEF DropBounded
  <2>4. /\ Add(value[c].born, Lifespan) \in Int
        /\ Add(value[c].rested, IdleTimeout) \in Int
        /\ drop_time[c] \in Int /\ now \in Int
    <3>1. value[c].born \in TimePoint /\ value[c].rested \in TimePoint
      BY <2>1 DEF Resource
    <3>2. TimePoint \subseteq Int
      BY TimeMaxAssumption DEF TimePoint, TimeMin
    <3> QED BY <3>1, <3>2, AddType, NowType, StorageAssumption DEF StorageTypeOK
  <2>5. now < Add(value[c].born, Lifespan) /\ now < Add(value[c].rested, IdleTimeout)
    BY <2>2, <2>3, <2>4
  <2>6. value[c].generation = generation
    <3>1. value[c].generation <= generation /\ ~(value[c].generation < generation)
      BY <1>6, <1>15, <2>1 DEF Dated, InvalidatedNeverReturn
    <3>2. value[c].generation \in Nat /\ generation \in Nat
      BY <2>1, StorageAssumption DEF Resource, StorageTypeOK
    <3> QED BY <3>1, <3>2
  <2> QED BY <1>1, <2>1, <2>5, <2>6 DEF Fresh
<1> QED BY <1>1, <1>6, <1>7, <1>8, <1>9, <1>10, <1>11, <1>12, <1>13, <1>14, <1>15

LEMMA LeaseWastedStep ==
    ASSUME StorageInv, NEW c \in Cells, LeaseWasted(c)
    PROVE  /\ StorageInv'
           /\ used' = used \cup {c} /\ c \notin used
           /\ ~waste_on_recycle'[c]
           /\ value'[c] = NoValue
<1> USE DEF StorageInv
<1> DEFINE emptied == wasted \o available
<1>1. /\ emptied # <<>>
      /\ c = Head(emptied)
      /\ available' = <<>>
      /\ wasted' = Tail(emptied)
      /\ used' = used \cup {c}
      /\ value' = [x \in Cells |-> IF x \in Range(available) THEN NoValue ELSE value[x]]
      /\ waste_on_recycle' = [waste_on_recycle EXCEPT ![c] = FALSE]
      /\ UNCHANGED <<now, drop_time, reset_time, generation>>
  BY DEF LeaseWasted
<1>2. /\ emptied \in Seq(Cells)
      /\ Range(emptied) = Range(wasted) \cup Range(available)
      /\ IsInjective(emptied)
  <2>1. Range(wasted) \cap Range(available) = {}
    BY DEF CellsPartitioned
  <2> QED BY <2>1, ConcatRange DEF StorageTypeOK, CellsPartitioned
<1> HIDE DEF emptied
<1>3. /\ wasted' \in Seq(Cells)
      /\ Range(emptied) = {c} \cup Range(wasted')
      /\ c \notin Range(wasted')
      /\ IsInjective(wasted')
  BY <1>1, <1>2, HeadTailRange
<1>4. available' \in Seq(Cells) /\ Range(available') = {} /\ IsInjective(available')
  <2>1. available' = <<>> /\ DOMAIN available' = {}
    BY <1>1
  <2> QED BY <2>1 DEF Range, IsInjective
<1>5. c \notin used
  BY <1>2, <1>3 DEF CellsPartitioned
<1>6. \A x \in Cells : value'[x] = IF x \in Range(available) THEN NoValue ELSE value[x]
  BY <1>1
<1>7. \A x \in Range(emptied) : x \in Cells /\ value'[x] = NoValue
  BY <1>2, <1>6 DEF WastedHoldNothing, CellsPartitioned
<1>8. \A x \in Cells : waste_on_recycle'[x] = IF x = c THEN FALSE ELSE waste_on_recycle[x]
  BY <1>1 DEF StorageTypeOK
<1>9. StorageTypeOK'
  BY <1>1, <1>3, <1>4 DEF StorageTypeOK
<1>10. CellsPartitioned'
  BY <1>1, <1>2, <1>3, <1>4, <1>5 DEF CellsPartitioned
<1>11. WastedHoldNothing'
  BY <1>3, <1>7 DEF WastedHoldNothing
<1>12. InvalidatedNeverReturn'
  BY <1>1, <1>3, <1>6, <1>7, <1>8 DEF InvalidatedNeverReturn
<1>13. AvailableUnmarked' /\ DropBounded'
  BY <1>4 DEF AvailableUnmarked, DropBounded
<1>14. Dated'
  BY <1>1, <1>6 DEF Dated
<1> QED BY <1>1, <1>3, <1>5, <1>7, <1>8, <1>9, <1>10, <1>11, <1>12, <1>13, <1>14

LEMMA InvalidateStep ==
    ASSUME StorageInv, generation < MaxGeneration, invalidate
    PROVE  StorageInv'
<1> USE DEF StorageInv
<1>1. /\ wasted' \in Seq(Cells)
      /\ Range(wasted') = Range(wasted) \cup Range(available)
      /\ IsInjective(wasted')
  <2>1. Range(wasted) \cap Range(available) = {}
    BY DEF CellsPartitioned
  <2> QED BY <2>1, ConcatRange DEF invalidate, StorageTypeOK, CellsPartitioned
<1>2. available' \in Seq(Cells) /\ Range(available') = {} /\ IsInjective(available')
  <2>1. available' = <<>> /\ DOMAIN available' = {}
    BY DEF invalidate
  <2> QED BY <2>1 DEF Range, IsInjective
<1>3. \A x \in Cells : value'[x] = IF x \in Range(available) THEN NoValue ELSE value[x]
  BY DEF invalidate
<1>4. \A x \in Cells : waste_on_recycle'[x] = (waste_on_recycle[x] \/ x \in used)
  BY DEF invalidate
<1>5. generation' \in 0..MaxGeneration /\ generation < generation'
  BY StorageAssumption DEF invalidate, StorageTypeOK
<1>6. waste_on_recycle' \in [Cells -> BOOLEAN] /\ value' \in [Cells -> Resource \cup {NoValue}]
  BY DEF invalidate, StorageTypeOK
<1>7. StorageTypeOK'
  BY <1>1, <1>2, <1>5, <1>6 DEF invalidate, StorageTypeOK
<1>8. CellsPartitioned'
  BY <1>1, <1>2 DEF invalidate, CellsPartitioned
<1>9. WastedHoldNothing'
  BY <1>1, <1>3 DEF WastedHoldNothing, CellsPartitioned
<1>10. InvalidatedNeverReturn'
  <2> SUFFICES ASSUME NEW x \in Cells, value'[x] # NoValue
               PROVE  x \in used' /\ waste_on_recycle'[x]
    BY DEF InvalidatedNeverReturn
  <2>1. x \in used
    BY <1>3 DEF CellsPartitioned, WastedHoldNothing
  <2> QED BY <2>1, <1>4 DEF invalidate
<1>11. AvailableUnmarked' /\ DropBounded'
  BY <1>2 DEF AvailableUnmarked, DropBounded
<1>12. Dated'
  <2> SUFFICES ASSUME NEW x \in Cells, value'[x] # NoValue
               PROVE  value'[x].born = reset_time'[x] /\ value'[x].generation <= generation'
    BY DEF Dated
  <2>1. value'[x] = value[x] /\ value[x] \in Resource
    BY <1>3 DEF StorageTypeOK
  <2>2. value[x].born = reset_time[x] /\ value[x].generation <= generation
    BY <2>1 DEF Dated
  <2>3. value[x].generation \in Nat /\ generation \in Nat /\ generation' \in Nat
    BY <2>1, <1>5, StorageAssumption DEF Resource, StorageTypeOK
  <2> QED BY <2>1, <2>2, <2>3, <1>5 DEF invalidate
<1> QED BY <1>7, <1>8, <1>9, <1>10, <1>11, <1>12

LEMMA ResetStep ==
    ASSUME StorageInv, NEW c \in used, reset(c)
    PROVE  StorageInv'
<1> USE DEF StorageInv
<1>0. c \in Cells /\ c \notin Range(available) /\ c \notin Range(wasted)
  BY DEF StorageTypeOK, CellsPartitioned
<1>1. \A x \in Cells : /\ value'[x] = IF x = c THEN NewResource ELSE value[x]
                       /\ reset_time'[x] = IF x = c THEN now ELSE reset_time[x]
  BY DEF reset, StorageTypeOK
<1>2. StorageTypeOK'
  BY <1>0, NowType DEF reset, StorageTypeOK
<1>3. CellsPartitioned' /\ AvailableUnmarked'
  BY DEF reset, CellsPartitioned, AvailableUnmarked
<1>4. WastedHoldNothing' /\ DropBounded'
  BY <1>0, <1>1 DEF reset, WastedHoldNothing, DropBounded, CellsPartitioned
<1>5. InvalidatedNeverReturn'
  <2>1. ~(NewResource.generation < generation)
    BY NowType, StorageAssumption DEF StorageTypeOK
  <2> QED BY <1>1, <2>1 DEF reset, InvalidatedNeverReturn
<1>6. Dated'
  <2>1. NewResource.born = now /\ NewResource.generation <= generation
    BY NowType, StorageAssumption DEF StorageTypeOK
  <2> QED BY <1>1, <2>1 DEF reset, Dated
<1> QED BY <1>2, <1>3, <1>4, <1>5, <1>6

LEMMA ClearStep ==
    ASSUME StorageInv, NEW c \in used, clear(c)
    PROVE  StorageInv'
<1> USE DEF StorageInv
<1>1. \A x \in Cells : value'[x] = IF x = c THEN NoValue ELSE value[x]
  BY DEF clear, StorageTypeOK
<1>2. StorageTypeOK' /\ CellsPartitioned' /\ AvailableUnmarked'
  BY DEF clear, StorageTypeOK, CellsPartitioned, AvailableUnmarked
<1>3. WastedHoldNothing' /\ DropBounded' /\ InvalidatedNeverReturn' /\ Dated'
  BY <1>1 DEF clear, WastedHoldNothing, DropBounded, InvalidatedNeverReturn, Dated,
              CellsPartitioned
<1> QED BY <1>2, <1>3

LEMMA TickStep ==
    ASSUME StorageInv, Tick
    PROVE  StorageInv'
<1>1. now' \in 0..MaxNow
  BY ClockAssumption DEF StorageInv, StorageTypeOK, Tick, advance
<1> QED BY <1>1 DEF StorageInv, Tick, StorageTypeOK, CellsPartitioned, WastedHoldNothing,
                    InvalidatedNeverReturn, AvailableUnmarked, Dated, DropBounded

LEMMA InitHolds == StorageInit => StorageInv
<1> SUFFICES ASSUME StorageInit PROVE StorageInv
  OBVIOUS
<1> USE DEF StorageInit
<1>1. Capacity \in Nat /\ Cells = 1..Capacity
  BY StorageAssumption DEF Cells
<1>2. /\ CellList \in Seq(Cells) /\ IsInjective(CellList) /\ Range(CellList) = Cells
  <2>1. CellList \in Seq(Cells)
    BY <1>1, IsASeq DEF CellList
  <2>2. DOMAIN CellList = 1..Capacity /\ \A i \in 1..Capacity : CellList[i] = i
    BY DEF CellList
  <2> QED BY <1>1, <2>1, <2>2 DEF Range, IsInjective
<1>3. <<>> \in Seq(Cells) /\ IsInjective(<<>>) /\ Range(<<>>) = {}
  <2>1. DOMAIN <<>> = {}
    OBVIOUS
  <2> QED BY <2>1 DEF Range, IsInjective
<1>4. now \in TimePoint /\ generation \in 0..MaxGeneration /\ Epoch \in TimePoint
      /\ TimeMax \in TimePoint
  BY TimeMaxAssumption, ClockAssumption, StorageAssumption DEF TimePoint, TimeMin, Epoch
<1>5. /\ NewResource \in Resource /\ NewResource.born = now /\ NewResource.rested = now
      /\ NewResource.generation = generation
  BY <1>4, StorageAssumption DEF NewResource, Resource
<1>6. /\ Add(now, IdleTimeout) \in TimePoint /\ Add(now, Lifespan) \in TimePoint
      /\ MinTime(Add(now, IdleTimeout), Add(now, Lifespan)) \in TimePoint
      /\ MinTime(Add(now, IdleTimeout), Add(now, Lifespan)) <= Add(now, IdleTimeout)
      /\ MinTime(Add(now, IdleTimeout), Add(now, Lifespan)) <= Add(now, Lifespan)
  BY <1>4, AddType, MinTimeBound, StorageAssumption
<1>7. CASE InitWasted
  <2> USE <1>7 DEF InitWasted
  <2>1. StorageTypeOK
    BY <1>2, <1>3, <1>4 DEF StorageTypeOK
  <2>2. CellsPartitioned
    BY <1>2, <1>3 DEF CellsPartitioned
  <2>3. WastedHoldNothing /\ InvalidatedNeverReturn /\ AvailableUnmarked /\ Dated /\ DropBounded
    BY <1>2, <1>3 DEF WastedHoldNothing, InvalidatedNeverReturn, AvailableUnmarked, Dated, DropBounded
  <2> QED BY <2>1, <2>2, <2>3 DEF StorageInv
<1>8. CASE InitGenerated
  <2> USE <1>8 DEF InitGenerated
  <2>1. StorageTypeOK
    BY <1>2, <1>3, <1>4, <1>5, <1>6 DEF StorageTypeOK
  <2>2. CellsPartitioned
    BY <1>2, <1>3 DEF CellsPartitioned
  <2>3. \A c \in Cells : value[c] = NewResource /\ reset_time[c] = now /\ ~waste_on_recycle[c]
    OBVIOUS
  <2>4. WastedHoldNothing /\ AvailableUnmarked
    BY <1>2, <1>3, <2>3 DEF WastedHoldNothing, AvailableUnmarked
  <2>5. InvalidatedNeverReturn /\ Dated
    BY <2>3, <1>5 DEF InvalidatedNeverReturn, Dated
  <2>6. DropBounded
    BY <2>3, <1>2, <1>5, <1>6 DEF DropBounded
  <2> QED BY <2>1, <2>2, <2>4, <2>5, <2>6 DEF StorageInv
<1> QED BY <1>7, <1>8

\* What a caller of lease gets, whichever list the cell comes from.
LEMMA LeaseStep ==
    ASSUME StorageInv, NEW c \in Cells, lease(c)
    PROVE  /\ StorageInv'
           /\ used' = used \cup {c} /\ c \notin used
           /\ ~waste_on_recycle'[c]
           /\ value'[c] # NoValue => Fresh(value'[c])
  BY LeaseAvailableStep, LeaseWastedStep DEF lease

LEMMA RecycleStep ==
    ASSUME StorageInv, NEW c \in used, recycle(c)
    PROVE  StorageInv'
  BY WasteStep, ParkStep DEF recycle

LEMMA NextHolds == StorageInv /\ [StorageNext]_storageVars => StorageInv'
<1> SUFFICES ASSUME StorageInv, [StorageNext]_storageVars PROVE StorageInv'
  OBVIOUS
<1>1. CASE Lease
  BY <1>1, LeaseStep DEF Lease
<1>2. CASE Recycle
  BY <1>2, RecycleStep DEF Recycle
<1>3. CASE Waste
  BY <1>3, WasteStep DEF Waste
<1>4. CASE Invalidate
  BY <1>4, InvalidateStep DEF Invalidate
<1>5. CASE Reset
  BY <1>5, ResetStep DEF Reset
<1>6. CASE Clear
  BY <1>6, ClearStep DEF Clear
<1>7. CASE Tick
  BY <1>7, TickStep
<1>8. CASE UNCHANGED storageVars
  BY <1>8 DEF storageVars, StorageInv, StorageTypeOK, CellsPartitioned, WastedHoldNothing,
              InvalidatedNeverReturn, AvailableUnmarked, Dated, DropBounded
<1> QED BY <1>1, <1>2, <1>3, <1>4, <1>5, <1>6, <1>7, <1>8 DEF StorageNext

\* The inductive invariant.
THEOREM StorageInvariant == StorageSpec => []StorageInv
  BY InitHolds, NextHolds, PTL DEF StorageSpec

\* Every date computed from the clock is the exact sum or the nearest bound,
\* whatever the instant and the duration (time_traits.hpp, add).
THEOREM AddCorrect == StorageSpec => []AddSaturates
<1>1. StorageInv => AddSaturates
  <2> SUFFICES ASSUME StorageTypeOK,
                      NEW t \in {now, TimeMin + now, TimeMax - now}, NEW d \in Duration
               PROVE  Add(t, d) = Saturate(t + d)
    BY DEF StorageInv, AddSaturates
  <2>1. t \in TimePoint
    BY TimeMaxAssumption, ClockAssumption DEF StorageTypeOK, TimePoint, TimeMin
  <2> QED
    BY <2>1, AddIsSaturating
<1> QED
  BY <1>1, StorageInvariant, PTL

\* The lists, the dates and the marks keep their types, and the clock and the
\* count of invalidations their bounds (storage.hpp: every member function).
THEOREM StorageTypes == StorageSpec => []StorageTypeOK
<1>1. StorageInv => StorageTypeOK
  BY DEF StorageInv
<1> QED BY <1>1, StorageInvariant, PTL

\* No resource is left behind in wasted_ (storage.hpp: the value.reset() of
\* lease, waste and invalidate).
THEOREM WastedEmpty == StorageSpec => []WastedHoldNothing
<1>1. StorageInv => WastedHoldNothing
  BY DEF StorageInv
<1> QED BY <1>1, StorageInvariant, PTL

\* The three lists always partition the cells, whatever the callers do with
\* the cells they lease (storage.hpp: the splices of lease, recycle, waste and
\* invalidate).
THEOREM PartitionCorrect == StorageSpec => []CellsPartitioned
<1>1. StorageInv => CellsPartitioned
  BY DEF StorageInv
<1> QED BY <1>1, StorageInvariant, PTL

\* No resource that existed when invalidate was called comes back into
\* available_ (storage.hpp: invalidate, is_valid, recycle).
THEOREM InvalidationCorrect == StorageSpec => []InvalidatedNeverReturn
<1>1. StorageInv => InvalidatedNeverReturn
  BY DEF StorageInv
<1> QED BY <1>1, StorageInvariant, PTL

\* Only leasing a cell adds to used_, and then exactly that cell.
LEMMA UsedGrowsByLease ==
    ASSUME StorageInv, [StorageNext]_storageVars, NEW c \in used' \ used
    PROVE  c \in Cells /\ lease(c)
<1>1. CASE Lease
  <2>1. PICK x \in Cells : lease(x)
    BY <1>1 DEF Lease
  <2>2. used' = used \cup {x}
    BY <2>1, LeaseStep
  <2> QED BY <2>1, <2>2
<1>2. CASE UNCHANGED storageVars
  BY <1>2 DEF storageVars
<1> QED
  BY <1>1, <1>2 DEF StorageNext, Recycle, Waste, Invalidate, Reset, Clear, Tick, recycle, waste,
                    Park, invalidate, reset, clear

\* lease never hands out a resource that was invalidated, has outlived
\* lifespan_ or has rested for idle_timeout_ (storage.hpp: lease).
THEOREM LeaseFreshCorrect == StorageSpec => LeaseHandsOutFresh
<1>1. StorageInv /\ [StorageNext]_storageVars
        => [\A c \in used' \ used : value'[c] # NoValue => Fresh(value'[c])]_storageVars
  BY UsedGrowsByLease, LeaseStep
<1> QED BY <1>1, StorageInvariant, PTL DEF StorageSpec, LeaseHandsOutFresh

\* A cell that is handed out carries no mark from an earlier invalidate
\* (storage.hpp: lease).
THEOREM LeaseUnmarkedCorrect == StorageSpec => LeasedUnmarked
<1>1. StorageInv /\ [StorageNext]_storageVars
        => [\A c \in used' \ used : ~waste_on_recycle'[c]]_storageVars
  BY UsedGrowsByLease, LeaseStep
<1> QED BY <1>1, StorageInvariant, PTL DEF StorageSpec, LeasedUnmarked
================================================================================
