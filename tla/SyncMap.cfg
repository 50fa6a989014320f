SPECIFICATION LinSpec
CONSTANTS
  Goroutine = {g1, g2}
  Key = {k1, k2}
  Value = {v1, v2}
  Entry = {n1, n2, n3, n4, n5}
  Nil = Nil
  Expunged = Expunged
  None = None
SYMMETRY Symmetry
INVARIANTS
  WellFormed
  EntriesRight
PROPERTY Linearizable
