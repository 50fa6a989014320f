SPECIFICATION SFairSpec
CONSTANTS
  Conn = {c1, c2, c3}
  Chan = {w1, w2}
  Nil = Nil
  Max = 2
  Procs = {1, 2}
  MaxIdle = 1
  MaxTime = 2
CHECK_DEADLOCK FALSE
INVARIANTS
  ServerInv
  OneHandle
  CleanCutsRight
PROPERTIES
  ImplementsDispatcher
  ComesToRest
