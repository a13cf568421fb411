CONSTANTS
  Readers = {thread, isr}
  Word = 3
  MaxHigh = 2
SPECIFICATION Spec
INVARIANT TypeOK
INVARIANT Snapshot
PROPERTY Monotone
