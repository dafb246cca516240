------------------------------ MODULE MCSyncPool ------------------------------
(* The synchronous pool for model checking: its threads are interchangeable. *)
EXTENDS SyncPool, TLC

Symmetry == Permutations(Threads)
================================================================================
