CONSTANTS
  PerEpoch = 2
  Target = 4
  Accumulate = 1
  CkptEvery = 3
  ValEvery = 1
  Monitors = {"val_loss"}
  Patience = 1
  PollEvery = 2
  Controls = {"stop"}
  Values = {0, 1}
  MaxCrashes = 0
  None = None
SPECIFICATION Spec
CHECK_DEADLOCK FALSE
PROPERTY EveryStopHonoured
