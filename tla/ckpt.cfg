SPECIFICATION FairSpec
CONSTANTS
  WorldSize = 2
  UseCritic = TRUE
  UseSidecar = TRUE
  Keep <- KeepBoth
  SaveFreq = 2
  TotalSteps = 4
  Esi = TRUE
  ResumeModes <- ResumesAuto
  MaxLaunches = 3
  StepBound = 7
INVARIANTS SidecarNeverStale TrackedComplete BoundedLoss RotationBound
PROPERTIES CompletesUnlessTorn ImplementsResumableRun
