SPECIFICATION Spec
CONSTANTS
  InnerBsz = 2
  BatchSize = 2
  PoolFactor = 2
  NExplore = 1
  LoaderLen = 3
  PromptAt <- Repeats
  Scores = {1, 2}
  TotalEpochs = 1
  MaxLaunches = 1
PROPERTY DuplicatesOnlyAsFallback
