SPECIFICATION Spec
CONSTANTS
  N = 4
  Graphs <- MCGraphs
  Workers = 2
  MaxRuns = 3
  MaxCrashes = 1
  None = None
INVARIANTS ManifestMeansWhole RunMakesRecipe
PROPERTIES CachedRowsStay RunEnds
CHECK_DEADLOCK FALSE
