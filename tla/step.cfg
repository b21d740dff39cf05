SPECIFICATION MCSpec
CONSTANTS
  Prompts = 3
  N = 2
  AgentWorkers = 3
  World = 2
  SpSizes = {1, 2}
  Calls <- LogProbsAndValues
  MaxTokens = 4
  MicroSize = 2
  MiniPrompts = 2
  Epochs = 2
  MaxLen = 2
  ValRows = 4
  ModelLayers = 4
  MicroBatches = 2
  ScoredRows = 4
  PoolProcesses = {"w1", "w2"}
  ScoringTimes = {1, 2}
  TaskTimeout = 5
  GenLen = 4
  TokenValues = {0, 1}
  Configs <- ThreeConfigs
  KLs <- LowOrHighKLs
  TotalSteps = 6
  MaxLaunches = 2
INVARIANTS RowsAligned SamplesTrainedOnce RanksBalanced ActivationsIntact TwoGroupsInMemory
           HealthyRowsScored ToolsDoNotCount SameEvidence
PROPERTIES NobodyHangs AdaptsSafely MajorityDecides
