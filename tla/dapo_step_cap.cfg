SPECIFICATION Spec
CONSTANTS
  GenBsz = 2
  TrainBsz = 2
  RolloutN = 2
  FilterGroups = TRUE
  MaxGenBatches = 0
  LoaderLen = 4
  TotalEpochs = 2
  TotalSteps = 3
  SaveFreq = 2
  MaxLaunches = 2
INVARIANT StepCap
