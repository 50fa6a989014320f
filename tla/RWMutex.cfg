SPECIFICATION FairSpec
CONSTANTS
  Goroutine = {g1, g2, g3, g4}
  None = None
  MaxReaders <- MCMaxReaders
INVARIANTS
  Exclusion
  NoStaleWakeup
  IInv
PROPERTIES
  ImplementsRWLock
  WriterGetsLock
