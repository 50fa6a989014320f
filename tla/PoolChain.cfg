SPECIFICATION Spec
CONSTANTS
  Producer = p
  Consumer = {c1, c2, c3}
  Item = {x1, x2, x3, x4}
  None = None
  InitSize = 1
  Limit = 2
  MaxElts = 4
SYMMETRY Symmetry
INVARIANTS
  ChainInv
PROPERTIES
  LinksMoveOneWay
  ImplementsDeque
