SPECIFICATION FairSpec
CONSTANTS
  Initer = {i1, i2}
  FD = {f1}
  PD = {d1}
  Thread = {m1, m2}
  Blocker = {m1}
  Breaker = {b1}
  Mode = {"r"}
  Flag = {"in", "err"}
  None = None
  MaxPipe = 2
INVARIANTS
  PollerInv
  WokenOnce
PROPERTIES
  ImplementsSemaphores
  ReadinessDelivered
  BreakInterrupts
