CONSTANTS
  QueueSize = 2
  Every = 2
  MaxSteps = 8
  MaxFits = 2
SPECIFICATION DynamicSpec
CHECK_DEADLOCK FALSE
INVARIANTS Accounted
PROPERTIES WorkersServeAndEnd
