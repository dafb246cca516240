------------------------------ MODULE MCAsyncPool ------------------------------
(* The asynchronous pool for model checking: its clients are interchangeable. *)
EXTENDS AsyncPool, TLC

Symmetry == Permutations(Clients)
================================================================================
