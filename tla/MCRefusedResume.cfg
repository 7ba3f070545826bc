SPECIFICATION Spec
CONSTANTS
  base = base
  otherModel = otherModel
  otherInput = otherInput
  noconfig = noconfig
  Configs <- ThreeConfigs
  NoConfig <- noconfig
  InputsOf <- TwoInputs
  NumRuns = 2
  NumBoundaries = 2
  MaxCalls = 1
  MaxStarts = 3
INVARIANTS
  ReusedUnderSameConfig
CHECK_DEADLOCK FALSE
