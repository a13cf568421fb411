CONSTANTS
  Tasks = {a, b}
  NoTask = NoTask
  Fifo = 2
  Pulsed = TRUE
  Kinds = {"write", "transfer", "flush", "blockingWrite", "blockingTransfer", "blockingFlush"}
  Lengths = {0, 3, 7}
SPECIFICATION FairSpec
INVARIANT TypeOK
INVARIANT Armed
INVARIANT AnswersInPlace
INVARIANT ShortLosesNothing
INVARIANT NothingDropped
INVARIANT WordsMeetWords
PROPERTY CallEnds
