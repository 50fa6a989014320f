---------------------------- MODULE MCPoolChain ----------------------------
(* PoolChain on small sets; consumers and items are interchangeable. *)
EXTENDS PoolChain, TLC

Symmetry == Permutations(Consumer) \cup Permutations(Item)
=============================================================================
