--------------------------------- MODULE Clock ---------------------------------
(***************************************************************************)
(* std::chrono::steady_clock as time_traits::now() shows it: an instant    *)
(* that never decreases.  The storage, the request queue and the pools     *)
(* read the same clock.                                                    *)
(***************************************************************************)
EXTENDS TimeTraits

CONSTANT MaxNow  \* bound: the last instant the clock reaches

ASSUME ClockAssumption == MaxNow \in Nat /\ MaxNow < TimeMax

VARIABLE now     \* steady_clock::now()

advance == now < MaxNow /\ now' = now + 1

\* add returns the exact sum when it is representable and the nearest bound
\* otherwise, whatever the duration, for the instants of the clock and those
\* as near to either end of its range; in particular none of its intermediate
\* operations overflows, for then the wrapped value would show
\* (time_traits.hpp, add).
AddSaturates ==
    \A t \in {now, TimeMin + now, TimeMax - now}, d \in Duration :
        Add(t, d) = Saturate(t + d)
================================================================================
