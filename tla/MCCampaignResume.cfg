SPECIFICATION Spec
CONSTANTS
  base = base
  otherModel = otherModel
  otherInput = otherInput
  noconfig = noconfig
  Configs <- TwoConfigs
  NoConfig <- noconfig
  InputsOf <- InputsOfTwo
  NumRuns = 2
  NumBoundaries = 2
  MaxCalls = 1
  MaxStarts = 3
INVARIANTS
  TypeOK
  ResumesItsOwnInputs
  RunsOnce
  VerdictIsSupported
PROPERTIES
  PassedRunsKept
CHECK_DEADLOCK FALSE
