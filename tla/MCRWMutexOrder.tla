--------------------------- MODULE MCRWMutexOrder ---------------------------
(* RWMutexOrder with rwmutexMaxReaders = 1 << 30. *)
EXTENDS RWMutexOrder

MCMaxReaders == 1073741824
=============================================================================
