SPECIFICATION FairSpec
CONSTANTS
  owned = owned
  unowned = unowned
  rejection = rejection
  sourceBox = sourceBox
  overlap = overlap
  noData = noData
  flake = flake
  MissingModel = missing_model
  NoFailure = no_failure
  NoBuild = no_build
  Configs <- MCConfigs
  Plans <- MCPlans
  Defects = {owned, unowned}
  OwnedDefects = {owned}
  Revisions = {r1}
  RequiredTypes = {facts}
  Failures = {rejection, sourceBox, overlap, noData, flake, missing_model}
  Policy <- MCPolicy
  MaxRetries = 2
  MaxExpertRounds = 1
  MaxDecisions = 2
  MaxSameState = 1
  MaxIterations = 3
  MaxDeterministic = 3
  MaxDiagnoses = 2
  MaxTransient = 1
INVARIANTS TypeOK OnlyValidPlansRendered OkIsEarned NoConfirmationBypass CommittedOnce
PROPERTIES OnlyAutoRepairPastBudget ScheduledRegenerationRuns EndsOrLoops
CHECK_DEADLOCK FALSE
