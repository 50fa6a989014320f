\* The index has few bits, so that chains as long as the documented limit are short.
SPECIFICATION GinSpec
CONSTANTS
  Request = {q1}
  Contexts = {x1}
  Handler = {h}
  Half = 4
  Code = {500}
  MaxHandlers = 3
  MaxNexts = 2
  MaxCalls = 0
  Nil = Nil
INVARIANT
  LimitSuffices
