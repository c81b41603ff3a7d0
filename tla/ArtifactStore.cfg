CONSTANTS
  Samples = {s1, s2, s3}
  Revisions = {r1, r2}
  Tensors = 2
  ShardSize = 2
  MaxRuns = 3
  None = None
  Torn = Torn
SYMMETRY Alike
SPECIFICATION Spec
CHECK_DEADLOCK FALSE
INVARIANTS IndexPointsHome AskedIsServed
PROPERTIES ImplementsPromise
