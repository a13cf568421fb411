CONSTANTS
  Pins = {0, 32}
  BankSize = 32
  NoTask = NoTask
  States = {{"low", "asyncRising"}}
  Modes = {"future", "block"}
  MayCancel = TRUE
SPECIFICATION FairSpec
INVARIANT TypeOK
INVARIANT OnlyLeftOversMislead
INVARIANT DetectorArmed
PROPERTY DetectionEnds
