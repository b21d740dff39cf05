SPECIFICATION Spec
CONSTANTS
  WorldSize = 2
  UseCritic = FALSE
  UseSidecar = FALSE
  Keep <- KeepTwo
  SaveFreq = 1
  TotalSteps = 3
  Esi = FALSE
  ResumeModes <- ResumesAuto
  MaxLaunches = 3
  StepBound = 6
INVARIANT TrackerIsAtomic
