SPECIFICATION Spec
CONSTANTS
  a = a
  b = b
  nothing = nothing
  planA = planA
  planB = planB
  noplan = noplan
  NoContent <- nothing
  NoTaskPlan <- noplan
  Required <- PinRequired
  ContentsOf <- PinContents
  Reasons <- PinReasons
  OwnerPolicy <- PinPolicy
  ReviewGates <- PinGates
  GateReasons <- PinGateReasons
  TaskPlanOf <- TwoPlans
  ReadinessReasons = {}
  DirectReasons = {}
  AssemblyIssues = {}
  Modes = {"controlled"}
  Callers = {"node"}
  MaxRetryRounds = 3
  MaxAttempts = 2
  MaxSameCandidate = 1
  MaxLlmCalls = 3
  LlmCosts = {1, 2}
  MaxRequests = 3
INVARIANTS
  TypeOK
  OneLiveRequest
  AttemptsWithinBudget
  NoStalePatch
  AcceptedGateIsCurrent
  FactsBarrier
PROPERTIES
  ImplementsLedger
  ReplacesWhatWasReviewed
CHECK_DEADLOCK FALSE
