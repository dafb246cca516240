----------------------------- MODULE Subsequences -----------------------------
(***************************************************************************)
(* What is left of a std::list or a std::multimap when elements are        *)
(* unlinked from anywhere in it: the others, in their old order.           *)
(***************************************************************************)
EXTENDS Naturals, Sequences, Functions

\* The increasing enumeration of a set of positions of s, as a set of one.
Enumerations(s, positions) ==
    {f \in UNION {[1..n -> positions] : n \in 0..Len(s)} :
        /\ Range(f) = positions
        /\ \A i, j \in DOMAIN f : i < j => f[i] < f[j]}

\* The subsequence of s at the given positions, as a set of one.
Remaining(s, positions) ==
    {[i \in DOMAIN f |-> s[f[i]]] : f \in Enumerations(s, positions)}
================================================================================
