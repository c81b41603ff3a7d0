CONSTANTS
  Versions = {v1, v2}
  Directories = {v1}
  Policies <- MCPolicies
  Scores = {1}
  MaxRows = 2
  MaxDay = 1
  MaxCommands = 3
  None = None
SPECIFICATION Spec
CHECK_DEADLOCK FALSE
INVARIANTS NoDanglingEdges NothingLeaks
PROPERTIES GraceGiven PinnedSurvives
