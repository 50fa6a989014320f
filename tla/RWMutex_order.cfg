SPECIFICATION OrderSpec
CONSTANTS
  Goroutine = {g1, g2, g3, g4}
  None = None
  MaxReaders <- MCMaxReaders
INVARIANT BlockedLockExcludesNewReaders
