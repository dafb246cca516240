------------------------------ MODULE TimeTraits ------------------------------
(***************************************************************************)
(* time_traits (time_traits.hpp): time points and durations are signed     *)
(* machine integers (std::chrono::steady_clock, 64 bits in the code), and  *)
(* time_traits::add is the addition every deadline of the library is       *)
(* computed with.  TimeMax is time_point::max(); the width is a parameter. *)
(***************************************************************************)
EXTENDS Integers

CONSTANT TimeMax  \* time_point::max() and duration::max(), as a tick count

ASSUME TimeMaxAssumption == TimeMax \in Nat \ {0}

TimeMin   == -TimeMax - 1
Epoch     == 0
TimePoint == TimeMin..TimeMax
Duration  == TimeMin..TimeMax

(***************************************************************************)
(* One signed machine addition.  Overflow is undefined in C++; the builds  *)
(* of the library wrap around.  Arguments lie in [2*TimeMin, 2*TimeMax].   *)
(***************************************************************************)
Wrap(n) == IF n > TimeMax THEN n - 2 * (TimeMax + 1)
           ELSE IF n < TimeMin THEN n + 2 * (TimeMax + 1)
           ELSE n

\* A bug that add is written to avoid: test for overflow after the addition.
AddUnchecked(t, d) == Wrap(t + d)

\* time_traits::add, every operator being a machine operation.
Add(t, d) ==
    IF t >= Epoch
    THEN IF Wrap(TimeMax - t) < d THEN TimeMax ELSE Wrap(t + d)
    ELSE IF Wrap(-Wrap(t - TimeMin)) > d THEN TimeMin ELSE Wrap(t + d)

\* std::min on time points.
MinTime(s, t) == IF t < s THEN t ELSE s

\* The reference: the mathematical sum, clamped to the representable range.
Saturate(n) == IF n > TimeMax THEN TimeMax ELSE IF n < TimeMin THEN TimeMin ELSE n
================================================================================
