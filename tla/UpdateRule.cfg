CONSTANTS
  MaxStep = 5
  Accumulate = 2
  MaxRetries = 2
  None = None
SPECIFICATION Spec
CHECK_DEADLOCK FALSE
INVARIANTS RejectedNeverLearned StopIsOfThisStep RetrySeesPreStepState
PROPERTIES ImplementsTrainStep StepTerminates
