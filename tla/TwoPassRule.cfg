CONSTANTS
  Rules = {"sam", "mezo"}
  Accumulate = 2
  MaxStep = 6
SPECIFICATION TwoPassSpec
CHECK_DEADLOCK FALSE
INVARIANTS LeavesAsFound UpdateUsesFarSide
