SPECIFICATION Spec
CONSTANTS
  Goroutine = {g1, g2}
  Item = {x1, x2}
  None = None
  Array = {a1, a2, a3}
  Procs = {1, 2}
SYMMETRY Symmetry
INVARIANTS
  FieldsRight
  HandedOutOnce
  SingleProducer
