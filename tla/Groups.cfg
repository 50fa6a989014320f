SPECIFICATION Spec
CONSTANTS
  T = {t1, t2, t3}
  W = {w1, w2}
  Task = {t1, t2, t3}
  Waiter = {w1, w2}
  Owner = w1
  Goroutine <- MCGoroutine
  Group = group
  Cell = {c1}
  Key = {k1}
  WG <- MCWG
  NoWG = NoWG
  Err = {e1, e2}
  NoErr = NoErr
  Failed = Failed
  Result <- MCResult
  None = None
  Rounds = 2
SYMMETRY Symmetry
INVARIANTS
  GroupsInv
  WaitIsRight
  SameResult
PROPERTY FirstErrorStays
