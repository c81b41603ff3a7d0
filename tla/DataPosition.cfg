CONSTANTS
  Configs <- MCConfigs
  MaxTaken = 6
  MaxDeaths = 2
  Nothing = Nothing
SPECIFICATION PositionSpec
CHECK_DEADLOCK FALSE
INVARIANTS StreamExact
PROPERTIES NextReturns
