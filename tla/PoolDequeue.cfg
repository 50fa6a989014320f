SPECIFICATION FairSpec
CONSTANTS
  Producer = p
  Consumer = {c1, c2}
  Item = {nilItem, x1, x2}
  NilItem = nilItem
  None = None
  Bits = 3
  Size = 2
INVARIANTS
  RingInv
  SlotsHandedOver
PROPERTIES
  ImplementsDeque
  ProducerReturns
