CONSTANTS
  Pins = {0, 32}
  BankSize = 32
  NoTask = NoTask
  States = {{"rising"}}
  Modes = {"future"}
  MayCancel = FALSE
SPECIFICATION Spec
INVARIANT EveryDetectorArmed
