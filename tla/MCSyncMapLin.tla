---------------------------- MODULE MCSyncMapLin ----------------------------
(* SyncMapLin on small sets; goroutines, keys and values are interchangeable. *)
EXTENDS SyncMapLin, TLC

Symmetry == Permutations(Goroutine) \cup Permutations(Key) \cup Permutations(Value)
=============================================================================
