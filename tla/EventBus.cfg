CONSTANTS
  N = 3
  Critical = {2}
  MaxFailures = 4
  MaxEvents = 5
SPECIFICATION Spec
CHECK_DEADLOCK FALSE
INVARIANTS QuarantineExact StrongestWins QuarantineIsLogged
