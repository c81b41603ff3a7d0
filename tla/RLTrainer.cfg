CONSTANTS
  Algos = {"ppo", "grpo"}
  LoaderLen = 1
  MaxEpisodes = 4
  BufferSize = 3
  MiniBatch = 2
  Passes = 2
  CkptEvery = 1
  MaxStep = 2
  MaxFits = 2
  MaxCrashes = 1
  None = None
SPECIFICATION Spec
CHECK_DEADLOCK FALSE
INVARIANTS OnPolicy OwnAdvantage KLOfThisFit
