--------------------------- MODULE MCPoolDequeue ---------------------------
(* PoolDequeue with few consumers and items, which are interchangeable but for NilItem. *)
EXTENDS PoolDequeue, TLC

Symmetry == Permutations(Consumer) \cup Permutations(Item \ {NilItem})
=============================================================================
