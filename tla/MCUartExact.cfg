CONSTANTS
  Tasks = {a, b}
  NoTask = NoTask
  Fifo = 2
  MaxBytes = 3
  ReadKinds = {"exact"}
  BufLen = 2
  WriteKinds = {"write"}
  MaxWrite = 1
SPECIFICATION FairSpec
PROPERTY ExactIsFilled
