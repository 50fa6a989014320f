------------------------------- MODULE MCPool -------------------------------
(* Pool on small sets; goroutines, items and arrays are interchangeable. *)
EXTENDS Pool, TLC

Symmetry == Permutations(Goroutine) \cup Permutations(Item) \cup Permutations(Array)
=============================================================================
