CONSTANTS
  PerEpoch = 2
  Target = 4
  Accumulate = 2
  CkptEvery = 3
  ValEvery = 2
  Monitors = {"loss", "val_loss"}
  Patience = 1
  PollEvery = 2
  Controls = {"stop", "eval_now"}
  Values = {0, 1}
  MaxCrashes = 2
  None = None
SPECIFICATION Spec
CHECK_DEADLOCK FALSE
INVARIANTS EndIsSaved BestIsSaved EveryBatchOnce
PROPERTIES StopHonoured BestMovesOnImprovement RunEnds
