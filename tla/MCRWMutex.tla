------------------------------ MODULE MCRWMutex ------------------------------
(* RWMutex with rwmutexMaxReaders = 1 << 30; goroutines in RWMutex.cfg. *)
EXTENDS RWMutex

MCMaxReaders == 1073741824
=============================================================================
