CONSTANTS
  Tasks = {a, b}
  NoTask = NoTask
  Fifo = 1
  MaxBytes = 3
  ReadKinds = {"read", "exact", "blockingRead", "blockingExact", "nbRead"}
  BufLen = 2
  WriteKinds = {"write", "blockingWrite", "nbWrite", "flush", "blockingFlush", "nbFlush"}
  MaxWrite = 2
SPECIFICATION FairSpec
INVARIANT TypeOK
INVARIANT ReaderArmed
INVARIANT WriterArmed
INVARIANT NothingDropped
PROPERTY LossIsReported
PROPERTY ImplementsByteLine
PROPERTY CancelSafe
PROPERTY ReadEnds
PROPERTY WriteEnds
