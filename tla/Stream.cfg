SPECIFICATION FairSpec
CONSTANTS
  t1 = t1
  t2 = t2
  Task = {t1, t2}
  Numbers <- MCNumbers
  Flag = {"date", "time"}
  Now <- MCNow
  PP = {p1, p2}
  MaxBuf = 5
  Width = 12
  FastLen = 4
  WSize = 24
  RSize = 16
  ReadSizes = {0, 6, 16}
  Nil = Nil
  NoOne = NoOne
  Goroutine = {"receiver"}
  ErrShortWrite = ErrShortWrite
  EOF = EOF
  Broken = Broken
  Faults = {"broken", "short"}
CHECK_DEADLOCK FALSE
INVARIANTS
  StreamInv
  LinesWhole
PROPERTIES
  ErrorsStick
  AllDelivered
