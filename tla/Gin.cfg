SPECIFICATION GinSpec
CONSTANTS
  Request = {q1, q2}
  Contexts = {x1, x2}
  Handler = {h}
  Half = 5
  Code = {1, 500}
  MaxHandlers = 2
  MaxNexts = 3
  MaxCalls = 2
  Nil = Nil
VIEW View
SYMMETRY Symmetry
INVARIANTS
  GinInv
  OwnData
  ResponseRight
  InOrder
