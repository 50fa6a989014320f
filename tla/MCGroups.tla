------------------------------ MODULE MCGroups ------------------------------
(* Groups on the sets of Groups.cfg and Groups_shared.cfg. *)
EXTENDS Groups, TLC

CONSTANTS T, W, Failed

MCGoroutine == T \cup W
MCWG == Cell \cup {Group}
MCResult == {NoErr, Failed}
Symmetry == Permutations(T) \cup Permutations(Err)
=============================================================================
