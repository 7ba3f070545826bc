SPECIFICATION Spec
CONSTANTS
  a = a
  b = b
  nothing = nothing
  planA = planA
  planB = planB
  noplan = noplan
  NoContent <- nothing
  NoTaskPlan <- noplan
  Required <- AxialRequired
  ContentsOf <- AxialContents
  Reasons <- AxialReasons
  OwnerPolicy <- AxialPolicy
  ReviewGates <- AxialGates
  GateReasons <- AxialReasonsOf
  TaskPlanOf <- OnePlan
  ReadinessReasons = {"materials.execution_density_required"}
  DirectReasons <- AxialPosted
  AssemblyIssues = {"assembly.unresolved_material_reference"}
  Modes = {"off", "advisory", "controlled"}
  Callers = {"node", "direct"}
  MaxRetryRounds = 3
  MaxAttempts = 1
  MaxSameCandidate = 1
  MaxLlmCalls = 1
  LlmCosts = {1}
  MaxRequests = 2
INVARIANTS
  AssembledIsCurrent
  FinalAcceptance
  PendingIsLive
PROPERTIES
  TerminalStaysTerminal
  LoopReturns
CHECK_DEADLOCK FALSE
