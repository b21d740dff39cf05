SPECIFICATION MCSpec
CONSTANTS
  GenBsz = 2
  TrainBsz = 2
  RolloutN = 2
  FilterGroups = TRUE
  MaxGenBatches = 3
  LoaderLen = 3
  TotalEpochs = 2
  TotalSteps = 4
  SaveFreq = 3
  MaxLaunches = 2
  InnerBsz = 2
  BatchSize = 2
  PoolFactor = 3
  NExplore = 1
  PromptAt <- OftenTheSame
  Scores = {1, 2}
  IrtLoaderLen = 4
  IrtEpochs = 2
  IrtLaunches = 2
  WorldSize = 2
  UseCritic = FALSE
  UseSidecar = TRUE
  Keep <- KeepTwo
  Esi = FALSE
  StepBound = 6
  OpSaveFreq = 1
  OpTotalSteps = 3
  OpLaunches = 3
  Users = {"p1", "p2", "p3"}
  ShmUsers = {"p1"}
  Files = {"config", "weights"}
  MaxCrashes = 2
  MaxFails = 1
INVARIANTS ExactBatch CountMatches GenBudget TrainedOnce FullBatches RowsOnce SkippedBounded  RotationInAnyMode LoadsWholeModel
PROPERTIES LaunchesEnd ImplementsResumableRun
