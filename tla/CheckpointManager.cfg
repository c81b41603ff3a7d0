SPECIFICATION Spec
CONSTANTS
  MaxStep = 2
  KeepLastN = 1
  Parts = {"model"}
  MaxSaves = 4
  MaxCrashes = 2
  None = None
CHECK_DEADLOCK FALSE
INVARIANTS
  VanishedStepHasBackup
  PointerTargetKept
  LatestIsNewest
PROPERTY
  ImplementsStore
