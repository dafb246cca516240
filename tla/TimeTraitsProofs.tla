---------------------------- MODULE TimeTraitsProofs ----------------------------
(***************************************************************************)
(* Arithmetic on time points, for every width of the clock's               *)
(* representation.                                                         *)
(***************************************************************************)
EXTENDS TimeTraits, TLAPS

\* add is saturating addition for every width of the clock's representation
\* and every pair of arguments (time_traits.hpp, add).
LEMMA AddIsSaturating ==
    ASSUME NEW t \in TimePoint, NEW d \in Duration
    PROVE  Add(t, d) = Saturate(t + d)
  BY TimeMaxAssumption DEF Saturate, Add, Wrap, Epoch, TimePoint, Duration, TimeMin

\* add never leaves the representable range.
LEMMA AddType ==
    ASSUME NEW t \in TimePoint, NEW d \in Duration
    PROVE  Add(t, d) \in TimePoint
  BY TimeMaxAssumption DEF Add, Wrap, Epoch, TimePoint, Duration, TimeMin

\* std::min is no later than either date.
LEMMA MinTimeBound ==
    ASSUME NEW s \in TimePoint, NEW t \in TimePoint
    PROVE  /\ MinTime(s, t) \in TimePoint
           /\ MinTime(s, t) <= s
           /\ MinTime(s, t) <= t
  BY TimeMaxAssumption DEF MinTime, TimePoint, TimeMin
================================================================================
