CONSTANTS
  RxPins = {15, 33}
  TxPins = {14}
  SpiPins = {19}
  OtherPins = {}
  Functions = {"input", "alternate"}
  MaxHandles = 1
SPECIFICATION Spec
INVARIANT TypeOK
INVARIANT OneUser
INVARIANT FunctionHolds
INVARIANT LockedWhileAlive
